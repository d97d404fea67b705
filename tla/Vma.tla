--------------------------------- MODULE Vma --------------------------------
(***************************************************************************)
(* The memory of one process: the tree of areas kept by                    *)
(* libos/src/bookkeep/libos_vma.c, the host's memory, and the calls of     *)
(* several threads that change both (sys/libos_mmap.c, sys/libos_brk.c,    *)
(* the LibOS's own allocations and the upcalls of the PAL).  The tree is   *)
(* changed under vma_tree_lock, the host's memory outside of it.           *)
(*                                                                         *)
(* An address is a page number.  The application is well-behaved: a thread *)
(* unmaps, protects and maps over only what it has mapped itself.          *)
(***************************************************************************)
EXTENDS Integers, Sequences, SequencesExt

CONSTANTS VmEnd,        \* the pages are 0 .. VmEnd - 1
          AslrTop,      \* g_aslr_addr_top
          VmThreads,
          VmScripts,    \* the calls they make: a set of [VmThreads -> Seq of calls]
          VmLengths,    \* the lengths in pages that the threads map
          BrkStart, BrkEnd,     \* brk_region
          VmFailures    \* what the host may refuse: a subset of {"alloc", "free", "protect"}

ASSUME VmAssumption == /\ VmEnd \in Nat /\ AslrTop \in 1 .. VmEnd
                       /\ BrkStart \in Nat /\ BrkEnd \in Nat
                       /\ BrkStart < BrkEnd /\ BrkEnd <= VmEnd
                       /\ VmThreads \subseteq Nat \ {0} /\ VmLengths \subseteq Nat \ {0}

VARIABLES tree,        \* vma_tree: a set of areas
          vmTotal,     \* g_total_memory_size
          host,        \* per page: what the host has mapped there
          vmTodo,      \* per thread: the calls it has still to make
          vmOp,        \* per thread: the call it is in, with its local variables
          vmOwn,       \* per thread: the pages the application has from it
          slab,        \* per thread: pages the LibOS has allocated for itself, or NoRange
          brkCur, brkLock,
          vmBug        \* why the process ended itself: "none", "tree" (BUG() after the tree refused
                       \* a change), "host" (the host refused to free memory)

vmVars == <<tree, vmTotal, host, vmTodo, vmOp, vmOwn, slab, brkCur, brkLock, vmBug>>

-----------------------------------------------------------------------------
(* Areas: [b, e) with VMA_INTERNAL, VMA_UNMAPPED, the protection, and the  *)
(* offset in the file (-1: no file).                                       *)

Area(b, e, internal, unmapped, prot, off) ==
    [b |-> b, e |-> e, internal |-> internal, unmapped |-> unmapped, prot |-> prot, off |-> off]

Overlaps(a, b, e) == a.b < e /\ b < a.e

Overlapping(T, b, e) == {a \in T : Overlaps(a, b, e)}

(* Mutant: split_vma leaves the offset of the upper part alone. *)
UpperPartSameOffset(a, p) == [a EXCEPT !.b = p]

(* split_vma: the part of an area from p on. *)
UpperPart(a, p) == [a EXCEPT !.b = p, !.off = IF @ = -1 THEN -1 ELSE @ + (p - a.b)]

LowerPart(a, p) == [a EXCEPT !.e = p]

(* The parts of the areas of T outside and inside of [b, e). *)
Outside(T, b, e) ==
    {a \in T : ~Overlaps(a, b, e)}
    \cup {LowerPart(a, b) : a \in {x \in Overlapping(T, b, e) : x.b < b}}
    \cup {UpperPart(a, e) : a \in {x \in Overlapping(T, b, e) : e < x.e}}

Inside(T, b, e) ==
    {LowerPart(UpperPart(a, Max({a.b, b})), Min({a.e, e})) : a \in Overlapping(T, b, e)}

Size(T) == MapThenSumSet(LAMBDA a : a.e - a.b, T)

Pages == 0 .. VmEnd - 1

PagesOf(a) == a.b .. a.e - 1

NoArea == Area(0, 0, FALSE, FALSE, "none", -1)

(* What the host has mapped for page p of area a.  page: the page of the   *)
(* file (-1: no file, -2: nothing mapped).  old: the protection is an      *)
(* older one, since the host has refused to change it (a history).         *)
Placed(a, p) == [prot |-> a.prot, page |-> IF a.off = -1 THEN -1 ELSE a.off + (p - a.b),
                 old |-> FALSE]

NotMapped == [prot |-> "none", page |-> -2, old |-> FALSE]

(* The local variables of a call: where it is, the area it is working on,  *)
(* the tops of the ranges it has still to search, the areas it has still   *)
(* to unmap, and the area it is to map in their place.                     *)
Idle == [pc |-> "idle", area |-> NoArea, tops |-> <<>>, todo |-> {}, new |-> NoArea]

VmInit ==
    /\ tree = {Area(BrkStart, BrkEnd, FALSE, TRUE, "none", -1)}      \* init_brk_region
    /\ vmTotal = BrkEnd - BrkStart
    /\ host = [p \in Pages |-> NotMapped]
    /\ vmTodo \in VmScripts
    /\ vmOp = [t \in VmThreads |-> Idle]
    /\ vmOwn = [t \in VmThreads |-> {}]
    /\ slab = [t \in VmThreads |-> NoArea]
    /\ brkCur = BrkStart /\ brkLock = 0
    /\ vmBug = "none"

-----------------------------------------------------------------------------
(* The bookkeeping, each under vma_tree_lock *)

(* _vma_bkeep_remove refuses to mix areas of the LibOS and of the user. *)
Refused(b, e, internal) == \E a \in Overlapping(tree, b, e) : a.internal # internal

Replaces(a) ==
    /\ tree' = Outside(tree, a.b, a.e) \cup {a}
    /\ vmTotal' = vmTotal - Size(Inside(tree, a.b, a.e)) + (a.e - a.b)

(* The temporary area of bkeep_munmap. *)
Tmp(a) == Area(a.b, a.e, TRUE, TRUE, "none", -1)

(* Mutant: nothing keeps the range until the host has unmapped it. *)
BkeepMunmapNoTmp(a) ==
    /\ tree' = Outside(tree, a.b, a.e)
    /\ vmTotal' = vmTotal - Size(Inside(tree, a.b, a.e))

BkeepMunmap(a) == Replaces(Tmp(a))

(* Mutant: the temporary area remains one of the LibOS. *)
ConvertTmpNot(a) == UNCHANGED <<tree, vmTotal>>

(* bkeep_convert_tmp_vma_to_user *)
ConvertTmp(a) == /\ tree' = (tree \ {Tmp(a)}) \cup {[Tmp(a) EXCEPT !.internal = FALSE]}
                 /\ UNCHANGED vmTotal

(* The places bkeep_mmap_any_in_range can take below top; it takes the     *)
(* highest one.                                                            *)
Fits(top, len) == {b \in 0 .. top - len : Overlapping(tree, b, b + len) = {}}

(* dump_vmas_in_range: the user's mapped areas, cut to the range. *)
Dump(b, e) == {a \in Inside(tree, b, e) : ~a.internal /\ ~a.unmapped}

(* The areas are dumped in the order of their addresses. *)
IsNext(a, todo) == a \in todo /\ \A x \in todo : a.b <= x.b

Does(t, op) == vmOp' = [vmOp EXCEPT ![t] = op]

(* The thread begins its next call, or goes on with the one it is in. *)
Calls(t, call) == /\ vmBug = "none" /\ vmOp[t].pc = "idle"
                  /\ vmTodo[t] # <<>> /\ Head(vmTodo[t]) = call
                  /\ vmTodo' = [vmTodo EXCEPT ![t] = Tail(@)]

At(t, pc) == vmBug = "none" /\ vmOp[t].pc = pc /\ UNCHANGED vmTodo

(* BUG() ends the process. *)
Bug(t) == vmBug' = "tree" /\ UNCHANGED <<tree, vmTotal, host, vmOp, vmOwn, slab, brkCur, brkLock>>

-----------------------------------------------------------------------------
(* mmap *)

(* One search of bkeep_mmap_any_in_range for an area like a; with no place *)
(* there, the next range is searched, or the call fails.                   *)
Search(t, a, tops) ==
    LET fits == Fits(Head(tops), a.e - a.b)
    IN /\ \/ \E b \in fits :
               LET found == [a EXCEPT !.b = b, !.e = b + (a.e - a.b)]
               IN /\ \A x \in fits : x <= b
                  /\ Replaces(found)
                  /\ Does(t, [Idle EXCEPT !.pc = "alloc", !.area = found])
          \/ /\ fits = {}
             /\ Does(t, IF Len(tops) = 1 THEN Idle
                        ELSE [Idle EXCEPT !.pc = "search", !.area = a, !.tops = Tail(tops)])
             /\ UNCHANGED <<tree, vmTotal>>
       /\ UNCHANGED <<host, vmOwn, slab, brkCur, brkLock, vmBug>>

(* mmap without MAP_FIXED, with or without a hint: below the hint first,   *)
(* then below the top that ASLR chose, then anywhere.                      *)
MmapAny(t) == \E len \in VmLengths, off \in {-1, 0}, hint \in {VmEnd, VmEnd - 1} :
    /\ Calls(t, "mmap")
    /\ Search(t, Area(0, len, FALSE, FALSE, "rw", off),
              IF hint = VmEnd THEN <<AslrTop, VmEnd>> ELSE <<hint, AslrTop, VmEnd>>)

SearchAgain(t) == At(t, "search") /\ Search(t, vmOp[t].area, vmOp[t].tops)

MmapNoReplace(t) == \E len \in VmLengths : \E b \in 0 .. VmEnd - len :
    /\ Calls(t, "noreplace")
    /\ Overlapping(tree, b, b + len) = {}
    /\ LET a == Area(b, b + len, FALSE, FALSE, "r", -1)
       IN /\ Replaces(a)
          /\ Does(t, [Idle EXCEPT !.pc = "alloc", !.area = a])
    /\ UNCHANGED <<host, vmOwn, slab, brkCur, brkLock, vmBug>>

(* The allocations of the LibOS and of the PAL for themselves. *)
SlabAlloc(t) ==
    /\ Calls(t, "slab") /\ slab[t] = NoArea
    /\ Search(t, Area(0, 1, TRUE, FALSE, "rw", -1), <<VmEnd>>)

(* PalVirtualMemoryAlloc, or the mmap of the file system; brk ends here.   *)
HostAlloc(t) ==
    /\ At(t, "alloc")
    /\ LET a == vmOp[t].area IN
       /\ host' = [p \in Pages |-> IF p \in PagesOf(a) THEN Placed(a, p) ELSE host[p]]
       /\ vmOwn' = [vmOwn EXCEPT ![t] = IF a.internal \/ brkLock = t THEN @ ELSE @ \cup PagesOf(a)]
       /\ slab' = [slab EXCEPT ![t] = IF a.internal THEN a ELSE @]
       /\ brkCur' = IF brkLock = t THEN a.e ELSE brkCur
       /\ brkLock' = IF brkLock = t THEN 0 ELSE brkLock
    /\ Does(t, Idle)
    /\ UNCHANGED <<tree, vmTotal, vmBug>>

(* It fails: the bookkeeping is taken back. *)
HostAllocFails(t) ==
    /\ "alloc" \in VmFailures
    /\ At(t, "alloc")
    /\ LET a == vmOp[t].area
       IN IF brkLock = t
          THEN IF Refused(a.b, BrkEnd, FALSE)
               THEN Bug(t)
               ELSE /\ Replaces(Area(a.b, BrkEnd, FALSE, TRUE, "none", -1))
                    /\ Does(t, Idle)
                    /\ brkLock' = 0
                    /\ UNCHANGED <<host, vmOwn, slab, brkCur, vmBug>>
          ELSE IF Refused(a.b, a.e, a.internal)
               THEN Bug(t)
               ELSE /\ BkeepMunmap(a)
                    /\ Does(t, [Idle EXCEPT !.pc = "remove_tmp", !.area = a])
                    /\ UNCHANGED <<host, vmOwn, slab, brkCur, brkLock, vmBug>>

-----------------------------------------------------------------------------
(* munmap, mprotect and mmap with MAP_FIXED *)

OwnRanges(t) == {r \in Pages \X (1 .. VmEnd) : r[1] < r[2] /\ r[1] .. r[2] - 1 \subseteq vmOwn[t]}

Munmap(t) == \E r \in OwnRanges(t) :
    /\ Calls(t, "munmap")
    /\ Does(t, [Idle EXCEPT !.pc = "unmap", !.todo = Dump(r[1], r[2])])
    /\ vmOwn' = [vmOwn EXCEPT ![t] = @ \ (r[1] .. r[2] - 1)]
    /\ UNCHANGED <<tree, vmTotal, host, slab, brkCur, brkLock, vmBug>>

UnmapNext(t) ==
    /\ At(t, "unmap")
    /\ \E a \in vmOp[t].todo :
       /\ IsNext(a, vmOp[t].todo)
       /\ IF Refused(a.b, a.e, FALSE)
          THEN Bug(t)
          ELSE /\ BkeepMunmap(a)
               /\ Does(t, [vmOp[t] EXCEPT !.pc = "free", !.area = a, !.todo = @ \ {a}])
               /\ UNCHANGED <<host, vmOwn, slab, brkCur, brkLock, vmBug>>

HostWithout(a) == [p \in Pages |-> IF p \in PagesOf(a) THEN NotMapped ELSE host[p]]

(* PalVirtualMemoryFree; brk ends here. *)
HostFree(t) ==
    /\ At(t, "free")
    /\ host' = HostWithout(vmOp[t].area)
    /\ IF brkLock = t
       THEN brkLock' = 0 /\ brkCur' = vmOp[t].area.b /\ Does(t, Idle)
       ELSE UNCHANGED <<brkLock, brkCur>> /\ Does(t, [vmOp[t] EXCEPT !.pc = "remove_tmp"])
    /\ UNCHANGED <<tree, vmTotal, vmOwn, slab, vmBug>>

(* It fails, or one of FixedFree or PalFree does: BUG(), or the PAL's slab *)
(* manager ends the process (system_mem_free).                             *)
HostFreeFails(t) ==
    /\ "free" \in VmFailures
    /\ \/ At(t, "free")
       \/ At(t, "fixed_free") /\ vmOp[t].todo # {}
       \/ Calls(t, "pal_free") /\ slab[t] # NoArea
    /\ vmBug' = "host"
    /\ UNCHANGED <<tree, vmTotal, host, vmOp, vmOwn, slab, brkCur, brkLock>>

(* bkeep_remove_tmp_vma; then munmap goes on with the next area. *)
RemoveTmp(t) ==
    /\ At(t, "remove_tmp")
    /\ tree' = tree \ {Tmp(vmOp[t].area)}
    /\ vmTotal' = vmTotal - (vmOp[t].area.e - vmOp[t].area.b)
    /\ Does(t, IF vmOp[t].todo = {} THEN Idle
               ELSE [vmOp[t] EXCEPT !.pc = "unmap", !.area = NoArea])
    /\ UNCHANGED <<host, vmOwn, slab, brkCur, brkLock, vmBug>>

(* MAP_FIXED: the areas there are listed; the whole range becomes a        *)
(* temporary area; what was listed is unmapped; the temporary area becomes *)
(* one of the user's and is replaced by the new one.                       *)
MmapFixed(t) == \E r \in OwnRanges(t) :
    /\ Calls(t, "fixed")
    /\ LET new == Area(r[1], r[2], FALSE, FALSE, "r", -1)
       IN Does(t, [Idle EXCEPT !.pc = "fixed_unmap", !.new = new, !.todo = Dump(r[1], r[2])])
    /\ vmOwn' = [vmOwn EXCEPT ![t] = @ \ (r[1] .. r[2] - 1)]
    /\ UNCHANGED <<tree, vmTotal, host, slab, brkCur, brkLock, vmBug>>

FixedUnmap(t) ==
    /\ At(t, "fixed_unmap")
    /\ LET a == vmOp[t].new
       IN IF Refused(a.b, a.e, FALSE)
          THEN Does(t, Idle) /\ UNCHANGED <<tree, vmTotal>>       \* the call fails
          ELSE BkeepMunmap(a) /\ Does(t, [vmOp[t] EXCEPT !.pc = "fixed_free"])
    /\ UNCHANGED <<host, vmOwn, slab, brkCur, brkLock, vmBug>>

FixedFree(t) ==
    /\ At(t, "fixed_free")
    /\ \E a \in vmOp[t].todo :
       /\ IsNext(a, vmOp[t].todo)
       /\ host' = HostWithout(a)
       /\ Does(t, [vmOp[t] EXCEPT !.todo = @ \ {a}])
    /\ UNCHANGED <<tree, vmTotal, vmOwn, slab, brkCur, brkLock, vmBug>>

FixedConvert(t) ==
    /\ At(t, "fixed_free") /\ vmOp[t].todo = {}
    /\ ConvertTmp(vmOp[t].new)
    /\ Does(t, [vmOp[t] EXCEPT !.pc = "fixed_map"])
    /\ UNCHANGED <<host, vmOwn, slab, brkCur, brkLock, vmBug>>

FixedMap(t) ==
    /\ At(t, "fixed_map")
    /\ LET a == vmOp[t].new
       IN IF Refused(a.b, a.e, FALSE)
          THEN Bug(t)
          ELSE /\ Replaces(a)
               /\ Does(t, [Idle EXCEPT !.pc = "alloc", !.area = a])
               /\ UNCHANGED <<host, vmOwn, slab, brkCur, brkLock, vmBug>>

(* mprotect: the parts inside of the range get the new protection, first   *)
(* in the tree (_vma_bkeep_change), then in the host.                      *)
Mprotect(t) == \E r \in OwnRanges(t), prot \in {"r", "rw"} :
    /\ Calls(t, "mprotect")
    /\ Size(Inside(tree, r[1], r[2])) = r[2] - r[1] /\ ~Refused(r[1], r[2], FALSE)
    /\ tree' = Outside(tree, r[1], r[2])
               \cup {[a EXCEPT !.prot = prot] : a \in Inside(tree, r[1], r[2])}
    /\ Does(t, [Idle EXCEPT !.pc = "protect", !.area = Area(r[1], r[2], FALSE, FALSE, prot, -1)])
    /\ UNCHANGED <<vmTotal, host, vmOwn, slab, brkCur, brkLock, vmBug>>

(* PalVirtualMemoryProtect, for the pages of done.  It may stop early or   *)
(* do nothing: the call returns the error, and the tree keeps the new      *)
(* protection.                                                             *)
HostProtect(t) == \E done \in SUBSET PagesOf(vmOp[t].area) :
    LET a == vmOp[t].area
    IN /\ At(t, "protect")
       /\ done = PagesOf(a) \/ "protect" \in VmFailures
       /\ host' = [p \in Pages |->
                     IF p \in done THEN [prot |-> a.prot, page |-> host[p].page, old |-> FALSE]
                     ELSE IF p \in PagesOf(a) THEN [host[p] EXCEPT !.old = TRUE] ELSE host[p]]
       /\ Does(t, Idle)
       /\ UNCHANGED <<tree, vmTotal, vmOwn, slab, brkCur, brkLock, vmBug>>

-----------------------------------------------------------------------------
(* The LibOS and the PAL give back their memory; brk *)

(* The LibOS unmaps like munmap; the PAL has unmapped already when it      *)
(* calls pal_mem_bkeep_free.                                               *)
SlabFree(t) ==
    /\ Calls(t, "slab_free") /\ slab[t] # NoArea
    /\ IF Refused(slab[t].b, slab[t].e, TRUE)
       THEN Bug(t)
       ELSE /\ BkeepMunmap(slab[t])
            /\ Does(t, [Idle EXCEPT !.pc = "free", !.area = slab[t]])
            /\ slab' = [slab EXCEPT ![t] = NoArea]
            /\ UNCHANGED <<host, vmOwn, brkCur, brkLock, vmBug>>

PalFree(t) ==
    /\ Calls(t, "pal_free") /\ slab[t] # NoArea
    /\ host' = HostWithout(slab[t])
    /\ Does(t, [Idle EXCEPT !.pc = "pal_free", !.area = slab[t]])
    /\ slab' = [slab EXCEPT ![t] = NoArea]
    /\ UNCHANGED <<tree, vmTotal, vmOwn, brkCur, brkLock, vmBug>>

PalMemBkeepFree(t) ==
    /\ At(t, "pal_free")
    /\ BkeepMunmap(vmOp[t].area)
    /\ Does(t, [vmOp[t] EXCEPT !.pc = "remove_tmp"])
    /\ UNCHANGED <<host, vmOwn, slab, brkCur, brkLock, vmBug>>

(* brk, under brk_lock until the host has done its part. *)
BrkGrow(t) == \E new \in brkCur + 1 .. BrkEnd :
    /\ Calls(t, "brk") /\ brkLock = 0
    /\ LET a == Area(brkCur, new, FALSE, FALSE, "rw", -1)
       IN /\ ~Refused(a.b, a.e, FALSE)
          /\ Replaces(a)
          /\ Does(t, [Idle EXCEPT !.pc = "alloc", !.area = a])
    /\ brkLock' = t
    /\ UNCHANGED <<host, vmOwn, slab, brkCur, vmBug>>

BrkShrink(t) == \E new \in BrkStart .. brkCur - 1 :
    /\ Calls(t, "brk") /\ brkLock = 0
    /\ ~Refused(new, BrkEnd, FALSE)
    /\ Replaces(Area(new, BrkEnd, FALSE, TRUE, "none", -1))
    /\ Does(t, [Idle EXCEPT !.pc = "free", !.area = Area(new, brkCur, FALSE, TRUE, "none", -1)])
    /\ brkLock' = t
    /\ UNCHANGED <<host, vmOwn, slab, brkCur, vmBug>>

VmNext == \E t \in VmThreads :
    \/ MmapAny(t) \/ SearchAgain(t) \/ MmapNoReplace(t) \/ SlabAlloc(t)
    \/ HostAlloc(t) \/ HostAllocFails(t) \/ Munmap(t) \/ UnmapNext(t) \/ HostFree(t)
    \/ HostFreeFails(t) \/ RemoveTmp(t) \/ MmapFixed(t) \/ FixedUnmap(t) \/ FixedFree(t) \/ FixedConvert(t)
    \/ FixedMap(t) \/ Mprotect(t) \/ HostProtect(t) \/ SlabFree(t) \/ PalFree(t)
    \/ PalMemBkeepFree(t) \/ BrkGrow(t) \/ BrkShrink(t)

VmSpec == VmInit /\ [][VmNext]_vmVars

-----------------------------------------------------------------------------
(* Properties *)

(* The pages the call of thread t has still to work on in the host. *)
Pending(t) ==
    LET op == vmOp[t]
    IN (IF op.pc \in {"alloc", "free", "protect", "remove_tmp", "pal_free"} THEN PagesOf(op.area) ELSE {})
       \cup PagesOf(op.new) \cup UNION {PagesOf(a) : a \in op.todo}

(* What the calls do to the host's memory, outside of vma_tree_lock: an    *)
(* allocation never replaces something that is mapped, and no thread works *)
(* on pages that another one is working on or has from an earlier call.    *)
(* The tree refuses no change that a call relies on: the one BUG() that is *)
(* reached is that of a host which refuses to free memory.                 *)
VmHostCalls ==
    /\ vmBug # "tree"
    /\ \A t \in VmThreads : vmOp[t].pc = "alloc"
          => \A p \in PagesOf(vmOp[t].area) : host[p] = NotMapped
    /\ \A t, u \in VmThreads : t # u
          => Pending(t) \cap (Pending(u) \cup vmOwn[u] \cup PagesOf(slab[u])) = {}

(* Where no call is under way the host has mapped exactly the pages that   *)
(* the tree says, for files the same pages of them, and with the same      *)
(* protection.  One exception: where the host has refused an mprotect, the *)
(* page keeps an older protection until it is mapped anew or an mprotect   *)
(* succeeds; the tree has the new one and does not know of the failure.    *)
VmHostAgrees ==
    \A p \in Pages \ UNION {Pending(t) : t \in VmThreads} :
        LET cover == {a \in tree : p \in PagesOf(a) /\ ~a.unmapped}
        IN IF cover = {} THEN host[p] = NotMapped
           ELSE \A a \in cover : /\ host[p].page = Placed(a, p).page
                                 /\ ~host[p].old => host[p].prot = a.prot

Unknown == [internal |-> FALSE, unmapped |-> FALSE, prot |-> "free", page |-> -1]

Known(p) == LET cover == {a \in tree : p \in PagesOf(a)}
            IN IF cover = {} THEN Unknown
               ELSE LET a == CHOOSE x \in cover : TRUE
                    IN [internal |-> a.internal, unmapped |-> a.unmapped, prot |-> a.prot,
                        page |-> Placed(a, p).page]

PageView == INSTANCE PageMap WITH
    PmEnd <- VmEnd, PmFree <- Unknown,
    pages <- [p \in Pages |-> Known(p)], total <- vmTotal

(* The tree of areas, with its splits, its offsets and the count of the    *)
(* memory in use, is a map of pages that changes one range at a time.      *)
VmKeepsPages == PageView!PmSpec
=============================================================================
