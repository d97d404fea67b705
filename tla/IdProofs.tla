------------------------------ MODULE IdProofs ------------------------------
(***************************************************************************)
(* Proofs about IdRanges, for any number of processes, any largest id and  *)
(* any size of a range: no id is given out twice, neither the leader nor a *)
(* process meets an id or a range it does not know, and the leader's tree  *)
(* agrees with what the processes have.                                    *)
(*                                                                         *)
(* The three come from one invariant.  The tree holds disjoint ranges of   *)
(* ids that were given out.  Whatever a process has under way is in the    *)
(* tree, also when the process is dead.  While a process lives, the tree's *)
(* ranges for it are its own ranges, plus those under way; and where it    *)
(* has asked the leader to move an id, its ranges are what the cut will    *)
(* leave.  A range counts the threads that have their ids from it, and the *)
(* ids that are left in the last range were never given to anybody.        *)
(*                                                                         *)
(* The parts are stated for values: o is the tree, and m, th, lk, cl, rq   *)
(* and rp are the ranges, the threads, the lock, the clone, the requests   *)
(* and the replies of process p.                                           *)
(***************************************************************************)
EXTENDS IdRanges, FiniteSetTheorems, WellFoundedInduction, TLAPS

RangeRec == [start : Nat, end : Nat, taken : Nat]
MineRec  == [last : RangeRec, used : SUBSET RangeRec, lastUsed : Nat]
CloneRec == [step : {"none", "range", "id", "create", "back"},
             child : IdProcs \cup {NoProc}, id : Nat]
OwnerRec == [start : Nat, end : Nat, owner : IdProcs]

AllocMsg         == [kind |-> "ALLOC"]
MoveMsg(id, q)   == [kind |-> "CHANGE", id |-> id, owner |-> q, to |-> "move"]
BackMsg(id, q)   == [kind |-> "CHANGE", id |-> id, owner |-> q, to |-> "back"]
ReleaseMsg(s, e) == [kind |-> "RELEASE", start |-> s, end |-> e]

AllocReply(s, e) == [to |-> "alloc", start |-> s, end |-> e]
MoveReply        == [to |-> "move"]
BackReply        == [to |-> "back"]

RequestsOK(rq) == \A m \in rq :
    \/ m = AllocMsg
    \/ \E id \in Nat, q \in IdProcs : m = MoveMsg(id, q) \/ m = BackMsg(id, q)
    \/ \E s, e \in Nat : m = ReleaseMsg(s, e)

RepliesOK(rp) == \A r \in rp :
    r = MoveReply \/ r = BackReply \/ \E s, e \in Nat : r = AllocReply(s, e)

(* The variables have their types. *)
IdTypeOK ==
    /\ owners \subseteq OwnerRec
    /\ lastId \in 1 .. PID_MAX
    /\ lastVmid \in IdProcs
    /\ idFatal \in {"no", "limit"}
    /\ mine \in [IdProcs -> MineRec]
    /\ idProc \in [IdProcs -> {"unborn", "up", "gone"}]
    /\ idThreads \in [IdProcs -> SUBSET (1 .. PID_MAX)]
    /\ DOMAIN mainId = IdProcs
    /\ idLock \in [IdProcs -> {"free", "alloc", "move"}]
    /\ clone \in [IdProcs -> CloneRec]
    /\ DOMAIN idRequests = IdProcs /\ DOMAIN idReplies = IdProcs
    /\ \A p \in IdProcs : RequestsOK(idRequests[p]) /\ RepliesOK(idReplies[p])
    /\ timesGiven \in [1 .. PID_MAX -> 0 .. 1]

-----------------------------------------------------------------------------
(* The invariant *)

(* Two ranges have no id in common. *)
Apart(a, b) == a.end < b.start \/ b.end < a.start

(* The leader's tree holds disjoint ranges of ids up to the last one. *)
TreeOK(o, l) ==
    /\ \A r \in o : 1 <= r.start /\ r.start <= r.end /\ r.end <= l
    /\ \A r, s \in o : r = s \/ Apart(r, s)

(* The process has an id for its new child in hand. *)
InHand(cl) == cl.step \in {"id", "create", "back"}

(* An id above the last range was not given to anybody; processes come in  *)
(* the order of their vmids; an id in hand was given out; and the tree     *)
(* names a process that does not exist yet only for the id that waits for  *)
(* it.                                                                     *)
GlobalInv ==
    /\ \A id \in 1 .. PID_MAX : lastId < id => timesGiven[id] = 0
    /\ \A p \in IdProcs : lastVmid < p => idProc[p] = "unborn"
    /\ \A p \in IdProcs : clone[p].step # "none" =>
          /\ clone[p].child \in IdProcs /\ clone[p].child <= lastVmid
          /\ idProc[clone[p].child] = "unborn"
          /\ \A q \in IdProcs : clone[q].child = clone[p].child => q = p
    /\ \A p \in IdProcs : InHand(clone[p]) => timesGiven[clone[p].id] = 1
    /\ \A r \in owners : idProc[r.owner] = "unborn" =>
          \E p \in IdProcs : /\ clone[p].step # "none" /\ clone[p].child = r.owner
                             /\ r.start = clone[p].id /\ r.end = clone[p].id

(* How far the calls of a process have come agrees with what is under way. *)
ProtocolOK(p, st, m, th, lk, cl, rq, rp) ==
    /\ AllocMsg \in rq => lk = "alloc" /\ \A s, e \in Nat : AllocReply(s, e) \notin rp
    /\ \A id \in Nat, q \in IdProcs : MoveMsg(id, q) \in rq =>
          cl.step = "id" /\ cl.child = q /\ cl.id = id /\ MoveReply \notin rp
    /\ \A id \in Nat, q \in IdProcs : BackMsg(id, q) \in rq =>
          cl.step = "back" /\ cl.id = id /\ q = p /\ BackReply \notin rp
    /\ \A s, e \in Nat : AllocReply(s, e) \in rp => lk = "alloc"
    /\ \A s, e, s2, e2 \in Nat : AllocReply(s, e) \in rp /\ AllocReply(s2, e2) \in rp
          => s = s2 /\ e = e2
    /\ MoveReply \in rp => cl.step = "id"
    /\ BackReply \in rp => cl.step = "back"
    /\ lk = "alloc" => m.last = NoRange
    /\ lk = "move" <=> cl.step = "id"
    /\ cl.step = "range" => lk = "alloc"
    /\ cl.step = "none" => cl = NoClone
    /\ InHand(cl) => cl.id \in 1 .. PID_MAX
    /\ ~InHand(cl) => cl.id = 0
    /\ st = "unborn" => rq = {} /\ rp = {} /\ cl = NoClone /\ lk = "free"
    /\ st # "up" => th = {}

(* What a process has under way, alive or dead, is in the leader's tree,   *)
(* each part for itself.                                                   *)
ClaimsOK(o, p, cl, rq, rp) ==
    /\ \A s, e \in Nat : ReleaseMsg(s, e) \in rq => Owned(s, e, p) \in o
    /\ \A s, e \in Nat : AllocReply(s, e) \in rp /\ s # 0 => Owned(s, e, p) \in o
    /\ \A id \in Nat, q \in IdProcs : MoveMsg(id, q) \in rq =>
          \E x \in o : x.owner = p /\ InIdRange(id, x)
    /\ MoveReply \in rp \/ cl.step = "create" \/ BackMsg(cl.id, p) \in rq =>
          Owned(cl.id, cl.id, cl.child) \in o
    /\ BackReply \in rp => Owned(cl.id, cl.id, p) \in o
    /\ \A s, e \in Nat : ReleaseMsg(s, e) \in rq /\ InHand(cl) => cl.id < s \/ e < cl.id
    /\ \A s, e, s2, e2 \in Nat : ReleaseMsg(s, e) \in rq /\ AllocReply(s2, e2) \in rp
          => e < s2 \/ e2 < s
    /\ \A s, e \in Nat : AllocReply(s, e) \in rp /\ InHand(cl) => cl.id < s \/ e < cl.id

Ranges(m) == m.used \cup ({m.last} \ {NoRange})

(* The ranges of a process are disjoint from each other and from what it   *)
(* has under way.                                                          *)
RangesOK(m, cl, rq, rp, l) ==
    /\ m.last \notin m.used
    /\ \A r \in Ranges(m) : 1 <= r.start /\ r.start <= r.end /\ r.end <= l
    /\ \A r, s \in Ranges(m) : r = s \/ Apart(r, s)
    /\ \A r \in Ranges(m), s, e \in Nat : ReleaseMsg(s, e) \in rq => r.end < s \/ e < r.start
    /\ \A r \in Ranges(m), s, e \in Nat : AllocReply(s, e) \in rp => r.end < s \/ e < r.start
    /\ InHand(cl) => \A r \in Ranges(m) : ~InIdRange(cl.id, r)

(* r is what is left of x on one side of id. *)
CutOf(r, x, id) == \/ r.start = x.start /\ r.end = id - 1
                   \/ r.start = id + 1 /\ r.end = x.end

(* The tree has the range r of process p, or will have it after a cut. *)
Covered(o, p, r, rq) ==
    \/ Owned(r.start, r.end, p) \in o
    \/ \E id \in Nat, q \in IdProcs, x \in o :
          /\ MoveMsg(id, q) \in rq /\ x.owner = p /\ InIdRange(id, x)
          /\ CutOf(r, x, id)

HasRange(m, s, e) == \E r \in Ranges(m) : r.start = s /\ r.end = e

(* Process p has the range x that the tree has for it, or has given it     *)
(* back, or will have it, or has cut it.                                   *)
Explained(x, m, cl, rq, rp) ==
    \/ HasRange(m, x.start, x.end)
    \/ ReleaseMsg(x.start, x.end) \in rq
    \/ AllocReply(x.start, x.end) \in rp
    \/ BackReply \in rp /\ x.start = cl.id /\ x.end = cl.id
    \/ \E id \in Nat, q \in IdProcs :
          /\ MoveMsg(id, q) \in rq /\ InIdRange(id, x)
          /\ x.start = id \/ HasRange(m, x.start, id - 1)
          /\ id = x.end \/ HasRange(m, id + 1, x.end)

LeaderOK(o, p, m, cl, rq, rp) ==
    /\ \A r \in Ranges(m) : Covered(o, p, r, rq)
    /\ \A x \in o : x.owner = p => Explained(x, m, cl, rq, rp)

ThreadsIn(th, r) == {id \in th : InIdRange(id, r)}

(* Threads have their ids from the ranges, which count them; the ids that  *)
(* are left were never given out.                                          *)
IdsOK(m, th, rp, tg) ==
    /\ \A id \in th : tg[id] = 1 /\ \E r \in Ranges(m) : InIdRange(id, r)
    /\ IsFiniteSet(th)
    /\ \A r \in Ranges(m) : r.taken = Cardinality(ThreadsIn(th, r))
    /\ m.last # NoRange => /\ m.last.start <= m.lastUsed + 1 /\ m.lastUsed < m.last.end
                           /\ \A id \in m.lastUsed + 1 .. m.last.end : tg[id] = 0
    /\ \A s, e \in Nat : AllocReply(s, e) \in rp /\ s # 0 => \A id \in s .. e : tg[id] = 0

(* What holds of a living process. *)
LiveOK(o, p, m, th, cl, rq, rp, l, tg) ==
    /\ RangesOK(m, cl, rq, rp, l)
    /\ LeaderOK(o, p, m, cl, rq, rp)
    /\ IdsOK(m, th, rp, tg)

ProcInv(p) ==
    /\ ProtocolOK(p, idProc[p], mine[p], idThreads[p], idLock[p], clone[p], idRequests[p],
                  idReplies[p])
    /\ ClaimsOK(owners, p, clone[p], idRequests[p], idReplies[p])
    /\ idProc[p] = "up" => LiveOK(owners, p, mine[p], idThreads[p], clone[p], idRequests[p],
                                  idReplies[p], lastId, timesGiven)

IdInv == IdTypeOK /\ TreeOK(owners, lastId) /\ GlobalInv /\ \A p \in IdProcs : ProcInv(p)

-----------------------------------------------------------------------------
(* Messages *)

(* Messages of different kinds differ, and a message has its arguments. *)
LEMMA MsgFacts ==
    /\ \A i, q : AllocMsg # MoveMsg(i, q) /\ AllocMsg # BackMsg(i, q)
    /\ \A s, e : AllocMsg # ReleaseMsg(s, e)
    /\ \A i, q, s, e : MoveMsg(i, q) # ReleaseMsg(s, e) /\ BackMsg(i, q) # ReleaseMsg(s, e)
    /\ \A i, q, j, r : MoveMsg(i, q) # BackMsg(j, r)
    /\ \A i, q, j, r : MoveMsg(i, q) = MoveMsg(j, r) => i = j /\ q = r
    /\ \A i, q, j, r : BackMsg(i, q) = BackMsg(j, r) => i = j /\ q = r
    /\ \A s, e, t, f : ReleaseMsg(s, e) = ReleaseMsg(t, f) => s = t /\ e = f
<1>1. /\ AllocMsg.kind = "ALLOC"
      /\ \A i, q : /\ MoveMsg(i, q).kind = "CHANGE" /\ MoveMsg(i, q).to = "move"
                   /\ MoveMsg(i, q).id = i /\ MoveMsg(i, q).owner = q
      /\ \A i, q : /\ BackMsg(i, q).kind = "CHANGE" /\ BackMsg(i, q).to = "back"
                   /\ BackMsg(i, q).id = i /\ BackMsg(i, q).owner = q
      /\ \A s, e : /\ ReleaseMsg(s, e).kind = "RELEASE" /\ ReleaseMsg(s, e).start = s
                   /\ ReleaseMsg(s, e).end = e
  BY DEF AllocMsg, MoveMsg, BackMsg, ReleaseMsg
<1> QED BY <1>1

(* Answers of different kinds differ, and an answer has its range. *)
LEMMA ReplyFacts ==
    /\ MoveReply # BackReply
    /\ \A s, e : AllocReply(s, e) # MoveReply /\ AllocReply(s, e) # BackReply
    /\ \A s, e, t, f : AllocReply(s, e) = AllocReply(t, f) => s = t /\ e = f
    /\ \A s, e : AllocReply(s, e).to = "alloc" /\ AllocReply(s, e).start = s /\ AllocReply(s, e).end = e
    /\ MoveReply.to = "move" /\ BackReply.to = "back"
<1>1. /\ MoveReply.to = "move" /\ BackReply.to = "back"
      /\ \A s, e : /\ AllocReply(s, e).to = "alloc" /\ AllocReply(s, e).start = s
                   /\ AllocReply(s, e).end = e
  BY DEF MoveReply, BackReply, AllocReply
<1> QED BY <1>1

(* The fields of an entry of the tree. *)
LEMMA OwnedFacts ==
    /\ \A s, e, p : Owned(s, e, p).start = s /\ Owned(s, e, p).end = e /\ Owned(s, e, p).owner = p
    /\ \A x \in OwnerRec : x = Owned(x.start, x.end, x.owner)
    /\ \A s, e \in Nat, p \in IdProcs : Owned(s, e, p) \in OwnerRec
<1>1. \A s, e, p : Owned(s, e, p).start = s /\ Owned(s, e, p).end = e /\ Owned(s, e, p).owner = p
  BY DEF Owned
<1>2. \A x \in OwnerRec : x = Owned(x.start, x.end, x.owner)
  BY DEF Owned, OwnerRec
<1>3. \A s, e \in Nat, p \in IdProcs : Owned(s, e, p) \in OwnerRec
  BY DEF Owned, OwnerRec
<1> QED BY <1>1, <1>2, <1>3

(* An entry of the tree is what its fields are. *)
LEMMA OwnedEqual ==
    ASSUME NEW s, NEW e, NEW p, NEW s2, NEW e2, NEW p2, Owned(s, e, p) = Owned(s2, e2, p2)
    PROVE  s = s2 /\ e = e2 /\ p = p2
  BY OwnedFacts

-----------------------------------------------------------------------------
(* The tree *)

(* A set of natural numbers has a smallest element. *)
LEMMA Smallest ==
    ASSUME NEW S \in SUBSET Nat, S # {}
    PROVE  \E m \in S : \A k \in S : m <= k
<1>1. PICK x \in S : \A y \in S : ~(<<y, x>> \in OpToRel(<, Nat))
  BY WFMin, NatLessThanWellFounded
<1>2. \A y \in S : ~(y < x)
  BY <1>1 DEF OpToRel
<1> QED BY <1>2

(* A new range lies above all ids given out so far. *)
LEMMA FreeRangeFacts ==
    ASSUME lastId \in 1 .. PID_MAX, owners \subseteq OwnerRec, FreeRange # NoRange
    PROVE  /\ FreeRange.start \in Nat /\ FreeRange.end \in Nat
           /\ lastId < FreeRange.start /\ FreeRange.start <= FreeRange.end
           /\ FreeRange.end <= PID_MAX
<1> DEFINE free == {id \in lastId + 1 .. PID_MAX : \A r \in owners : ~InIdRange(id, r)}
           start == CHOOSE id \in free : \A x \in free : id <= x
           above == {r.start - 1 : r \in {x \in owners : x.start > start}} \cup {RangeEnd(start)}
           end == CHOOSE e \in above : \A x \in above : e <= x
<1>0. PID_MAX \in Nat /\ MAX_RANGE_SIZE \in Nat \ {0}
  BY IdAssumption
<1>1. free # {} /\ FreeRange = IdRange(start, end, 0)
  BY DEF FreeRange
<1>2. free \in SUBSET Nat
  BY <1>0
<1>3. start \in free
  <2>1. \E m \in free : \A k \in free : m <= k
    BY <1>1, <1>2, Smallest
  <2> QED BY <2>1
<1>4. start \in Nat /\ lastId < start /\ start <= PID_MAX
  BY <1>0, <1>3
<1> HIDE DEF start, free
<1>5. RangeEnd(start) \in Nat /\ start <= RangeEnd(start) /\ RangeEnd(start) <= PID_MAX
  BY <1>0, <1>4 DEF RangeEnd
<1>6. \A x \in above : x \in Nat /\ start <= x
  <2>1. ASSUME NEW r \in owners, r.start > start PROVE r.start - 1 \in Nat /\ start <= r.start - 1
    <3>1. r.start \in Nat
      BY DEF OwnerRec
    <3> QED BY <1>4, <2>1, <3>1
  <2> QED BY <1>5, <2>1
<1>7. end \in above /\ \A x \in above : end <= x
  <2>1. above \in SUBSET Nat /\ above # {}
    BY <1>6
  <2>2. \E m \in above : \A k \in above : m <= k
    BY <2>1, Smallest
  <2> QED BY <2>2
<1>8. end \in Nat /\ start <= end /\ end <= RangeEnd(start)
  BY <1>6, <1>7
<1> HIDE DEF end
<1>9. FreeRange.start = start /\ FreeRange.end = end
  BY <1>1 DEF IdRange
<1> QED BY <1>0, <1>4, <1>5, <1>8, <1>9

(* The tree o2 is the tree o, with the range x cut around an id that goes  *)
(* to process q.                                                           *)
CutInto(o, o2, x, id, q) ==
    \A y : y \in o2 <=>
         \/ y \in o /\ y # x
         \/ y = Owned(id, id, q)
         \/ x.start < id /\ y = Owned(x.start, id - 1, x.owner)
         \/ id < x.end /\ y = Owned(id + 1, x.end, x.owner)

(* What change_id_owner makes of the tree. *)
LEMMA CutFacts ==
    ASSUME NEW o \in SUBSET OwnerRec, NEW l \in Nat, TreeOK(o, l), NEW x \in o,
           NEW id \in Nat, InIdRange(id, x), NEW q \in IdProcs,
           NEW o2, o2 = ChangeOwner(o, id, q)
    PROVE  CutInto(o, o2, x, id, q) /\ o2 \in SUBSET OwnerRec /\ TreeOK(o2, l)
<1> DEFINE c == ChangeOwner(o, id, q)
<1>1. \A r \in o : r.start \in Nat /\ r.end \in Nat /\ r.owner \in IdProcs
  BY DEF OwnerRec
<1>2. \A r \in o : InIdRange(id, r) => r = x
  BY <1>1 DEF TreeOK, Apart, InIdRange
<1>3. (CHOOSE r \in o : InIdRange(id, r)) = x
  BY <1>2
<1>4. \A y : y \in c <=>
         \/ y \in o /\ y # x
         \/ y = Owned(id, id, q)
         \/ x.start < id /\ y = Owned(x.start, id - 1, x.owner)
         \/ id < x.end /\ y = Owned(id + 1, x.end, x.owner)
  BY <1>3 DEF ChangeOwner
<1>5. 1 <= x.start /\ x.start <= id /\ id <= x.end /\ x.end <= l
  BY DEF TreeOK, InIdRange
<1> HIDE DEF c
<1>6. /\ x.start < id => /\ Owned(x.start, id - 1, x.owner) \in OwnerRec
      /\ id < x.end => Owned(id + 1, x.end, x.owner) \in OwnerRec
      /\ Owned(id, id, q) \in OwnerRec
  BY <1>1, <1>5, OwnedFacts
<1>7. c \in SUBSET OwnerRec
  BY <1>4, <1>6
<1>8. \A y \in c : \/ y \in o /\ y # x
                   \/ y.start = id /\ y.end = id
                   \/ x.start < id /\ y.start = x.start /\ y.end = id - 1
                   \/ id < x.end /\ y.start = id + 1 /\ y.end = x.end
  BY <1>4, OwnedFacts
<1>9. \A y \in c : 1 <= y.start /\ y.start <= y.end /\ y.end <= l
  BY <1>1, <1>5, <1>8 DEF TreeOK
<1>10. ASSUME NEW y \in c, NEW z \in c, y # z PROVE Apart(y, z)
  <2>1. \A r \in o : r # x => Apart(r, x)
    BY DEF TreeOK
  <2>2. CASE y \in o /\ y # x /\ z \in o /\ z # x
    BY <1>10, <2>2 DEF TreeOK
  <2>3. CASE y \in o /\ y # x /\ ~(z \in o /\ z # x)
    <3>1. Apart(y, x) /\ x.start <= z.start /\ z.end <= x.end /\ z.start \in Nat /\ z.end \in Nat
      BY <1>1, <1>5, <1>7, <1>8, <2>1, <2>3 DEF OwnerRec
    <3> QED BY <1>1, <2>3, <3>1 DEF Apart
  <2>4. CASE z \in o /\ z # x /\ ~(y \in o /\ y # x)
    <3>1. Apart(z, x) /\ x.start <= y.start /\ y.end <= x.end /\ y.start \in Nat /\ y.end \in Nat
      BY <1>1, <1>5, <1>7, <1>8, <2>1, <2>4 DEF OwnerRec
    <3> QED BY <1>1, <2>4, <3>1 DEF Apart
  <2>5. CASE ~(y \in o /\ y # x) /\ ~(z \in o /\ z # x)
    <3>1. /\ y = Owned(id, id, q) \/ (x.start < id /\ y = Owned(x.start, id - 1, x.owner))
             \/ (id < x.end /\ y = Owned(id + 1, x.end, x.owner))
          /\ z = Owned(id, id, q) \/ (x.start < id /\ z = Owned(x.start, id - 1, x.owner))
             \/ (id < x.end /\ z = Owned(id + 1, x.end, x.owner))
      BY <1>4, <2>5
    <3> QED BY <1>1, <1>5, <1>10, <3>1, OwnedFacts DEF Apart
  <2> QED BY <2>2, <2>3, <2>4, <2>5
<1>11. TreeOK(c, l)
  BY <1>9, <1>10 DEF TreeOK
<1> QED BY <1>4, <1>7, <1>11 DEF c, CutInto

-----------------------------------------------------------------------------
(* Steps of others *)

(* The claims of a process stand as long as its entries do. *)
LEMMA OtherClaims ==
    ASSUME NEW o \in SUBSET OwnerRec, NEW o2, NEW q \in IdProcs, NEW cl, NEW rq, NEW rp,
           ClaimsOK(o, q, cl, rq, rp), \A x \in o : x.owner \in {q, cl.child} => x \in o2
    PROVE  ClaimsOK(o2, q, cl, rq, rp)
<1>1. \A s, e : (Owned(s, e, q) \in o => Owned(s, e, q) \in o2)
                /\ (Owned(s, e, cl.child) \in o => Owned(s, e, cl.child) \in o2)
  BY OwnedFacts
<1> QED BY <1>1 DEF ClaimsOK

(* The tree agrees with a process as long as its entries stay. *)
LEMMA OtherLeader ==
    ASSUME NEW o \in SUBSET OwnerRec, NEW o2, NEW q \in IdProcs, NEW m, NEW cl, NEW rq, NEW rp,
           LeaderOK(o, q, m, cl, rq, rp), \A x : x.owner = q => (x \in o <=> x \in o2)
    PROVE  LeaderOK(o2, q, m, cl, rq, rp)
<1>1. \A s, e : Owned(s, e, q) \in o <=> Owned(s, e, q) \in o2
  BY OwnedFacts
<1>2. ASSUME NEW r \in Ranges(m) PROVE Covered(o2, q, r, rq)
  BY <1>1 DEF LeaderOK, Covered
<1> QED BY <1>2 DEF LeaderOK

(* An id that process q has left is in a range that the tree has for q. *)
LEMMA IdsAreCovered ==
    ASSUME NEW o \in SUBSET OwnerRec, NEW q \in IdProcs, NEW m \in MineRec, NEW cl, NEW rq, NEW rp,
           NEW l \in Nat, RangesOK(m, cl, rq, rp, l), LeaderOK(o, q, m, cl, rq, rp),
           NEW r \in Ranges(m), NEW id \in Nat, InIdRange(id, r)
    PROVE  \E x \in o : x.owner = q /\ InIdRange(id, x)
<1>1. r.start \in Nat /\ r.end \in Nat /\ r.start <= r.end
  BY DEF Ranges, MineRec, RangeRec, RangesOK
<1>2. CASE Owned(r.start, r.end, q) \in o
  BY <1>2, OwnedFacts DEF InIdRange
<1>3. CASE Owned(r.start, r.end, q) \notin o
  <2>1. PICK i \in Nat, c \in IdProcs, x \in o :
           x.owner = q /\ InIdRange(i, x) /\ CutOf(r, x, i)
    BY <1>3 DEF LeaderOK, Covered
  <2>2. x.start \in Nat /\ x.end \in Nat
    BY DEF OwnerRec
  <2>3. InIdRange(id, x)
    BY <1>1, <2>1, <2>2 DEF InIdRange, CutOf
  <2> QED BY <2>1, <2>3
<1> QED BY <1>2, <1>3

(* The ids of process q are not touched when an id outside of the tree's   *)
(* ranges for q is given out.                                              *)
LEMMA OtherIds ==
    ASSUME NEW o \in SUBSET OwnerRec, NEW q \in IdProcs, NEW m \in MineRec, NEW cl, NEW rq, NEW rp,
           NEW th \in SUBSET (1 .. PID_MAX), NEW l \in Nat, NEW tg, NEW tg2,
           ClaimsOK(o, q, cl, rq, rp), RangesOK(m, cl, rq, rp, l), LeaderOK(o, q, m, cl, rq, rp),
           IdsOK(m, th, rp, tg),
           \A id \in Nat, x \in o : x.owner = q /\ InIdRange(id, x) => tg2[id] = tg[id]
    PROVE  IdsOK(m, th, rp, tg2)
<1>0. \A r \in Ranges(m), id \in Nat : InIdRange(id, r) => tg2[id] = tg[id]
  BY IdsAreCovered
<1>1. \A id \in th : tg2[id] = 1 /\ \E r \in Ranges(m) : InIdRange(id, r)
  <2>1. \A id \in th : id \in Nat
    BY IdAssumption
  <2> QED BY <1>0, <2>1 DEF IdsOK
<1>2. ASSUME m.last # NoRange
      PROVE  /\ m.last.start <= m.lastUsed + 1 /\ m.lastUsed < m.last.end
             /\ \A id \in m.lastUsed + 1 .. m.last.end : tg2[id] = 0
  <2>1. /\ m.last \in Ranges(m) /\ m.last.start \in Nat /\ m.last.end \in Nat /\ m.lastUsed \in Nat
        /\ m.last.start <= m.lastUsed + 1 /\ m.lastUsed < m.last.end
        /\ \A id \in m.lastUsed + 1 .. m.last.end : tg[id] = 0
    BY <1>2 DEF Ranges, MineRec, RangeRec, IdsOK
  <2>2. \A id \in m.lastUsed + 1 .. m.last.end : id \in Nat /\ InIdRange(id, m.last)
    BY <2>1 DEF InIdRange
  <2> QED BY <1>0, <2>1, <2>2
<1>3. ASSUME NEW s \in Nat, NEW e \in Nat, AllocReply(s, e) \in rp, s # 0, NEW id \in s .. e
      PROVE  tg2[id] = 0
  <2>1. Owned(s, e, q) \in o /\ tg[id] = 0 /\ id \in Nat
    BY <1>3 DEF ClaimsOK, IdsOK
  <2>2. InIdRange(id, Owned(s, e, q)) /\ Owned(s, e, q).owner = q
    BY OwnedFacts DEF InIdRange
  <2> QED BY <2>1, <2>2
<1> QED BY <1>1, <1>2, <1>3 DEF IdsOK

-----------------------------------------------------------------------------
(* Steps of get_new_id *)

NoneIn(rp) == \A s, e \in Nat : AllocReply(s, e) \notin rp

(* Threads outside of a range are not counted in it. *)
LEMMA NoThreads ==
    ASSUME NEW th, NEW r, \A id \in th : ~InIdRange(id, r)
    PROVE  Cardinality(ThreadsIn(th, r)) = 0
<1>1. ThreadsIn(th, r) = {}
  BY DEF ThreadsIn
<1> QED BY <1>1, FS_EmptySet

(* The threads in one range count as many as those in another. *)
LEMMA SameThreads ==
    ASSUME NEW th, NEW r, NEW s, \A id \in th : InIdRange(id, r) <=> InIdRange(id, s)
    PROVE  Cardinality(ThreadsIn(th, r)) = Cardinality(ThreadsIn(th, s))
<1>1. ThreadsIn(th, r) = ThreadsIn(th, s)
  BY DEF ThreadsIn
<1> QED BY <1>1

(* The bounds of a range of a process are natural numbers. *)
LEMMA RangeFacts ==
    ASSUME NEW m \in MineRec
    PROVE  /\ \A r \in Ranges(m) : r.start \in Nat /\ r.end \in Nat /\ r.taken \in Nat /\ r \in RangeRec
           /\ m.lastUsed \in Nat /\ m.last \in RangeRec /\ m.used \in SUBSET RangeRec
           /\ m.last.start \in Nat /\ m.last.end \in Nat /\ m.last.taken \in Nat
  BY DEF Ranges, MineRec, RangeRec

(* The fields of a range. *)
LEMMA NewRangeFacts ==
    ASSUME NEW s, NEW e, NEW t
    PROVE  /\ IdRange(s, e, t).start = s /\ IdRange(s, e, t).end = e /\ IdRange(s, e, t).taken = t
           /\ s \in Nat /\ e \in Nat /\ t \in Nat => IdRange(s, e, t) \in RangeRec
  BY DEF IdRange, RangeRec

(* A range with one field changed. *)
LEMMA SameBounds ==
    ASSUME NEW r \in RangeRec
    PROVE  /\ \A t : [r EXCEPT !.taken = t] = IdRange(r.start, r.end, t)
           /\ \A s : [r EXCEPT !.start = s] = IdRange(s, r.end, r.taken)
           /\ \A e : [r EXCEPT !.end = e] = IdRange(r.start, e, r.taken)
           /\ r = IdRange(r.start, r.end, r.taken)
  BY DEF IdRange, RangeRec

(* The fields of what a process has. *)
LEMMA MineFacts ==
    /\ \A a, b, c : /\ FreshRanges(a, b, c).last = a /\ FreshRanges(a, b, c).used = b
                    /\ FreshRanges(a, b, c).lastUsed = c
    /\ \A a \in RangeRec, b \in SUBSET RangeRec, c \in Nat : FreshRanges(a, b, c) \in MineRec
<1>1. \A a, b, c : /\ FreshRanges(a, b, c).last = a /\ FreshRanges(a, b, c).used = b
                   /\ FreshRanges(a, b, c).lastUsed = c
  BY DEF FreshRanges
<1>2. \A a \in RangeRec, b \in SUBSET RangeRec, c \in Nat : FreshRanges(a, b, c) \in MineRec
  BY DEF FreshRanges, MineRec
<1> QED BY <1>1, <1>2

(* A range arrives from the leader. *)
LEMMA GotRangeOK ==
    ASSUME NEW o \in SUBSET OwnerRec, NEW p \in IdProcs, NEW m \in MineRec, NEW cl \in CloneRec,
           NEW rq, NEW rp, NEW th \in SUBSET (1 .. PID_MAX), NEW l \in Nat, NEW tg,
           NEW s \in Nat, NEW e \in Nat,
           TreeOK(o, l), ClaimsOK(o, p, cl, rq, rp), LiveOK(o, p, m, th, cl, rq, rp, l, tg),
           RepliesOK(rp), AllocReply(s, e) \in rp, s # 0, m.last = NoRange,
           \A s2, e2 \in Nat : AllocReply(s2, e2) \in rp => s2 = s /\ e2 = e,
           NEW m2, m2 = FreshRanges(IdRange(s, e, 0), m.used, s - 1),
           NEW rp2, rp2 = {r \in rp : r.to # "alloc"}
    PROVE  /\ m2 \in MineRec /\ m2.last # NoRange /\ NoneIn(rp2)
           /\ ClaimsOK(o, p, cl, rq, rp2) /\ LiveOK(o, p, m2, th, cl, rq, rp2, l, tg)
<1> DEFINE n == IdRange(s, e, 0)
<1>1. n.start = s /\ n.end = e /\ n.taken = 0 /\ n \in RangeRec /\ n # NoRange
  BY DEF IdRange, RangeRec, NoRange
<1>2. m2 = FreshRanges(n, m.used, s - 1) /\ s - 1 \in Nat
  OBVIOUS
<1> HIDE DEF n
<1>3. m2.last = n /\ m2.used = m.used /\ m2.lastUsed = s - 1 /\ m2 \in MineRec
  BY <1>1, <1>2, RangeFacts, MineFacts
<1>4. Ranges(m2) = Ranges(m) \cup {n} /\ Ranges(m) = m.used
  BY <1>1, <1>3 DEF Ranges, RangesOK, LiveOK
<1>5. NoneIn(rp2) /\ (MoveReply \in rp2 <=> MoveReply \in rp) /\ (BackReply \in rp2 <=> BackReply \in rp)
  BY ReplyFacts DEF NoneIn
<1>6. Owned(s, e, p) \in o /\ 1 <= s /\ s <= e /\ e <= l
  <2>1. Owned(s, e, p) \in o
    BY DEF ClaimsOK
  <2>2. Owned(s, e, p).start = s /\ Owned(s, e, p).end = e
    BY OwnedFacts
  <2> QED BY <2>1, <2>2 DEF TreeOK
<1>7. ClaimsOK(o, p, cl, rq, rp2)
  BY <1>5 DEF ClaimsOK, NoneIn
<1>8. \A r \in Ranges(m) : (r.end < s \/ e < r.start) /\ 1 <= r.start /\ r.start <= r.end /\ r.end <= l
                           /\ r.start \in Nat /\ r.end \in Nat
  BY RangeFacts DEF LiveOK, RangesOK
<1>9. RangesOK(m2, cl, rq, rp2, l)
  <2>1. n \notin m.used
    BY <1>1, <1>4, <1>6, <1>8
  <2>2. \A r, t \in Ranges(m2) : r = t \/ Apart(r, t)
    BY <1>1, <1>4, <1>8 DEF LiveOK, RangesOK, Apart
  <2>3. \A r \in Ranges(m2) : 1 <= r.start /\ r.start <= r.end /\ r.end <= l
    BY <1>1, <1>4, <1>6, <1>8
  <2>4. \A r \in Ranges(m2), s2, e2 \in Nat : ReleaseMsg(s2, e2) \in rq => r.end < s2 \/ e2 < r.start
    BY <1>1, <1>4 DEF LiveOK, RangesOK, ClaimsOK
  <2>5. InHand(cl) => \A r \in Ranges(m2) : ~InIdRange(cl.id, r)
    <3>1. ASSUME InHand(cl) PROVE ~InIdRange(cl.id, n)
      <4>1. (cl.id < s \/ e < cl.id) /\ cl.id \in Nat
        BY <3>1 DEF ClaimsOK, CloneRec
      <4> QED BY <1>1, <4>1 DEF InIdRange
    <3> QED BY <1>4, <3>1 DEF LiveOK, RangesOK
  <2> QED BY <1>3, <1>5, <2>1, <2>2, <2>3, <2>4, <2>5 DEF RangesOK, NoneIn
<1>10. LeaderOK(o, p, m2, cl, rq, rp2)
  <2>1. \A r \in Ranges(m2) : Covered(o, p, r, rq)
    BY <1>1, <1>4, <1>6 DEF LiveOK, LeaderOK, Covered
  <2>2. \A s2, e2 : HasRange(m, s2, e2) => HasRange(m2, s2, e2)
    BY <1>4 DEF HasRange
  <2>3. HasRange(m2, s, e)
    BY <1>1, <1>4 DEF HasRange
  <2>4. ASSUME NEW x \in o, x.owner = p PROVE Explained(x, m2, cl, rq, rp2)
    <3>1. Explained(x, m, cl, rq, rp) /\ x.start \in Nat /\ x.end \in Nat
      BY <2>4 DEF LiveOK, LeaderOK, OwnerRec
    <3>2. CASE AllocReply(x.start, x.end) \in rp
      BY <2>3, <3>1, <3>2 DEF Explained
    <3> QED BY <1>5, <2>2, <3>1, <3>2 DEF Explained
  <2> QED BY <2>1, <2>4 DEF LeaderOK
<1>11. IdsOK(m2, th, rp2, tg)
  <2>1. \A id \in s .. e : tg[id] = 0
    BY DEF LiveOK, IdsOK
  <2>2. \A id \in th : tg[id] = 1 /\ id \in Nat
    BY IdAssumption DEF LiveOK, IdsOK
  <2>3. \A id \in th : ~InIdRange(id, n)
    <3>1. \A id \in th : id \notin s .. e
      BY <2>1, <2>2
    <3> QED BY <1>1, <2>2, <3>1 DEF InIdRange
  <2>4. n.taken = Cardinality(ThreadsIn(th, n))
    BY <1>1, <2>3, NoThreads
  <2> QED BY <1>1, <1>3, <1>4, <1>5, <1>6, <2>1, <2>4 DEF LiveOK, IdsOK, NoneIn
<1> QED BY <1>1, <1>3, <1>5, <1>7, <1>9, <1>10, <1>11 DEF LiveOK

(* A range that keeps its bounds may change its count. *)
LEMMA SwapRange ==
    ASSUME NEW o, NEW p, NEW m \in MineRec, NEW m2 \in MineRec, NEW cl, NEW rq, NEW rp, NEW l,
           RangesOK(m, cl, rq, rp, l), LeaderOK(o, p, m, cl, rq, rp),
           NEW r \in Ranges(m), NEW n, n.start = r.start, n.end = r.end,
           Ranges(m2) = (Ranges(m) \ {r}) \cup {n}, m2.last \notin m2.used
    PROVE  RangesOK(m2, cl, rq, rp, l) /\ LeaderOK(o, p, m2, cl, rq, rp)
<1>1. \A t \in Ranges(m2) : \E u \in Ranges(m) : t.start = u.start /\ t.end = u.end
  OBVIOUS
<1>2. \A u \in Ranges(m) : \E t \in Ranges(m2) : t.start = u.start /\ t.end = u.end
  OBVIOUS
<1>3. RangesOK(m2, cl, rq, rp, l)
  <2>1. \A t \in Ranges(m2) : 1 <= t.start /\ t.start <= t.end /\ t.end <= l
    BY <1>1 DEF RangesOK
  <2>2. ASSUME NEW t \in Ranges(m2), NEW u \in Ranges(m2), t # u PROVE Apart(t, u)
    <3>1. CASE t = n
      BY <2>2, <3>1 DEF RangesOK, Apart
    <3>2. CASE u = n
      BY <2>2, <3>2 DEF RangesOK, Apart
    <3>3. CASE t # n /\ u # n
      BY <2>2, <3>3 DEF RangesOK
    <3> QED BY <3>1, <3>2, <3>3
  <2>3. \A t \in Ranges(m2), s, e \in Nat : ReleaseMsg(s, e) \in rq => t.end < s \/ e < t.start
    BY <1>1 DEF RangesOK
  <2>4. \A t \in Ranges(m2), s, e \in Nat : AllocReply(s, e) \in rp => t.end < s \/ e < t.start
    BY <1>1 DEF RangesOK
  <2>5. InHand(cl) => \A t \in Ranges(m2) : ~InIdRange(cl.id, t)
    BY <1>1 DEF RangesOK, InIdRange
  <2> QED BY <2>1, <2>2, <2>3, <2>4, <2>5 DEF RangesOK
<1>4. \A t \in Ranges(m2) : Covered(o, p, t, rq)
  BY <1>1 DEF LeaderOK, Covered, CutOf
<1>5. \A s, e : HasRange(m, s, e) => HasRange(m2, s, e)
  BY <1>2 DEF HasRange
<1>6. \A x \in o : x.owner = p => Explained(x, m2, cl, rq, rp)
  BY <1>5 DEF LeaderOK, Explained
<1> QED BY <1>3, <1>4, <1>6 DEF LeaderOK

(* What get_new_id makes of the ranges when the id stays. *)
LEMMA TakeOwnFacts ==
    ASSUME NEW m \in MineRec, NEW cl, NEW rq, NEW rp, NEW l, RangesOK(m, cl, rq, rp, l),
           m.last # NoRange, m.lastUsed < m.last.end,
           NEW n, n = IdRange(m.last.start, m.last.end, m.last.taken + 1), NEW m2, m2 = TakeOwn(m)
    PROVE  /\ n.start = m.last.start /\ n.end = m.last.end /\ n.taken = m.last.taken + 1
           /\ m2 \in MineRec /\ m2.lastUsed = m.lastUsed + 1
           /\ Ranges(m2) = (Ranges(m) \ {m.last}) \cup {n} /\ m2.last \notin m2.used
           /\ m2.last # NoRange => m2.last = n /\ m2.lastUsed < n.end
<1>1. /\ m.last \in RangeRec /\ m.last.start \in Nat /\ m.last.end \in Nat
      /\ m.last.taken \in Nat /\ m.lastUsed \in Nat /\ m.used \in SUBSET RangeRec
  BY RangeFacts
<1>2. n.start = m.last.start /\ n.end = m.last.end /\ n.taken = m.last.taken + 1 /\ n \in RangeRec
  BY <1>1, NewRangeFacts
<1>3. /\ m.last \in Ranges(m) /\ m.last \notin m.used /\ 1 <= m.last.start
      /\ m.last.start <= m.last.end
      /\ Ranges(m) = m.used \cup {m.last}
  BY DEF Ranges, RangesOK
<1>4. \A r \in m.used : r.start \in Nat /\ r.end \in Nat /\ 1 <= r.start /\ Apart(r, m.last)
  BY <1>3, RangeFacts DEF RangesOK
<1>5. NoRange \notin m.used /\ n # NoRange /\ n \notin m.used /\ NoRange \in RangeRec
  <2>1. NoRange.start = 0 /\ NoRange \in RangeRec
    BY DEF NoRange, RangeRec
  <2>2. n \notin m.used
    BY <1>1, <1>2, <1>3, <1>4 DEF Apart
  <2> QED BY <1>1, <1>2, <1>3, <1>4, <2>1, <2>2
<1>6. m2 = IF m.lastUsed + 1 = n.end THEN FreshRanges(NoRange, m.used \cup {n}, m.lastUsed + 1)
           ELSE FreshRanges(n, m.used, m.lastUsed + 1)
  <2>1. [m.last EXCEPT !.taken = @ + 1] = n
    BY <1>1, SameBounds
  <2> QED BY <2>1 DEF TakeOwn, FreshRanges
<1>7. CASE m.lastUsed + 1 = n.end
  <2>1. m2.last = NoRange /\ m2.used = m.used \cup {n} /\ m2.lastUsed = m.lastUsed + 1 /\ m2 \in MineRec
    BY <1>1, <1>2, <1>5, <1>6, <1>7, MineFacts
  <2> QED BY <1>2, <1>3, <1>5, <2>1 DEF Ranges
<1>8. CASE m.lastUsed + 1 # n.end
  <2>1. m2.last = n /\ m2.used = m.used /\ m2.lastUsed = m.lastUsed + 1 /\ m2 \in MineRec
    BY <1>1, <1>2, <1>6, <1>8, MineFacts
  <2>2. m.lastUsed + 1 < n.end
    BY <1>1, <1>2, <1>8
  <2> QED BY <1>2, <1>3, <1>5, <2>1, <2>2 DEF Ranges
<1> QED BY <1>7, <1>8

NextId(m) == m.lastUsed + 1

(* The id, and no other, was given out. *)
NowGiven(tg, tg2, id) == tg2[id] = 1 /\ \A i \in 1 .. PID_MAX : i # id => tg2[i] = tg[i]

(* The next id of a process was not given out yet. *)
LEMMA NextIdFacts ==
    ASSUME NEW o \in SUBSET OwnerRec, NEW p \in IdProcs, NEW m \in MineRec, NEW cl, NEW rq, NEW rp,
           NEW th, NEW l, l \in 1 .. PID_MAX, NEW tg,
           LiveOK(o, p, m, th, cl, rq, rp, l, tg), m.last # NoRange
    PROVE  /\ NextId(m) \in 1 .. PID_MAX /\ tg[NextId(m)] = 0
           /\ InIdRange(NextId(m), m.last) /\ m.last \in Ranges(m)
           /\ \E x \in o : x.owner = p /\ InIdRange(NextId(m), x)
<1> DEFINE id == NextId(m)
<1>0. PID_MAX \in Nat /\ l \in Nat
  BY IdAssumption
<1>1. /\ m.last.start \in Nat /\ m.last.end \in Nat /\ m.lastUsed \in Nat
      /\ m.last.start <= id /\ id <= m.last.end
      /\ \A i \in id .. m.last.end : tg[i] = 0
  BY RangeFacts DEF LiveOK, IdsOK, NextId
<1> HIDE DEF id
<1>2. m.last \in Ranges(m) /\ 1 <= m.last.start /\ m.last.end <= l
  BY DEF Ranges, LiveOK, RangesOK
<1>3. id \in 1 .. PID_MAX /\ tg[id] = 0 /\ InIdRange(id, m.last)
  <2>1. id \in Nat
    BY <1>1 DEF id, NextId
  <2> QED BY <1>0, <1>1, <1>2, <2>1 DEF InIdRange
<1>4. \E x \in o : x.owner = p /\ InIdRange(id, x)
  BY <1>0, <1>2, <1>3, IdsAreCovered DEF LiveOK
<1> QED BY <1>2, <1>3, <1>4 DEF id

(* The history after an id that was never given was given out. *)
LEMMA GivenFacts ==
    ASSUME NEW tg \in [1 .. PID_MAX -> 0 .. 1], NEW id \in 1 .. PID_MAX, tg[id] = 0,
           NEW tg2, tg2 = [tg EXCEPT ![id] = @ + 1]
    PROVE  /\ tg2 \in [1 .. PID_MAX -> 0 .. 1] /\ tg2[id] = 1
           /\ \A i \in 1 .. PID_MAX : i # id => tg2[i] = tg[i]
  OBVIOUS

(* One more thread in a range, or one less. *)
LEMMA OneMoreThread ==
    ASSUME NEW th, IsFiniteSet(th), NEW id, id \notin th, NEW r, NEW n, n.start = r.start, n.end = r.end
    PROVE  /\ InIdRange(id, r) => Cardinality(ThreadsIn(th \cup {id}, n)) = Cardinality(ThreadsIn(th, r)) + 1
           /\ ~InIdRange(id, r) => Cardinality(ThreadsIn(th \cup {id}, n)) = Cardinality(ThreadsIn(th, r))
<1>1. IsFiniteSet(ThreadsIn(th, r)) /\ id \notin ThreadsIn(th, r)
  <2>1. ThreadsIn(th, r) \subseteq th
    BY DEF ThreadsIn
  <2> QED BY <2>1, FS_Subset
<1>2. CASE InIdRange(id, r)
  <2>1. ThreadsIn(th \cup {id}, n) = ThreadsIn(th, r) \cup {id}
    BY <1>2 DEF ThreadsIn, InIdRange
  <2> QED BY <1>1, <1>2, <2>1, FS_AddElement
<1>3. CASE ~InIdRange(id, r)
  <2>1. ThreadsIn(th \cup {id}, n) = ThreadsIn(th, r)
    BY <1>3 DEF ThreadsIn, InIdRange
  <2> QED BY <1>3, <2>1
<1> QED BY <1>2, <1>3

(* get_new_id gives the next id to a thread. *)
LEMMA TakeOwnOK ==
    ASSUME NEW o \in SUBSET OwnerRec, NEW p \in IdProcs, NEW m \in MineRec, NEW cl, NEW rq, NEW rp,
           NEW th \in SUBSET (1 .. PID_MAX), NEW l \in 1 .. PID_MAX, NEW tg,
           LiveOK(o, p, m, th, cl, rq, rp, l, tg), m.last # NoRange, NoneIn(rp),
           NEW tg2, NowGiven(tg, tg2, NextId(m))
    PROVE  /\ TakeOwn(m) \in MineRec
           /\ LiveOK(o, p, TakeOwn(m), th \cup {NextId(m)}, cl, rq, rp, l, tg2)
<1> PICK id : id = m.lastUsed + 1
  OBVIOUS
<1> id = NextId(m)
  BY DEF NextId
<1> PICK m2 : m2 = TakeOwn(m)
  OBVIOUS
<1> PICK th2 : th2 = th \cup {id}
  OBVIOUS
<1> tg2[id] = 1 /\ \A i \in 1 .. PID_MAX : i # id => tg2[i] = tg[i]
  BY DEF NowGiven
<1> DEFINE n == IdRange(m.last.start, m.last.end, m.last.taken + 1)
<1>0. PID_MAX \in Nat /\ \A i \in th : i \in 1 .. PID_MAX
  BY IdAssumption
<1>1. /\ m.lastUsed < m.last.end /\ m.last.start <= id /\ m.last.start \in Nat
      /\ m.last.end \in Nat /\ m.lastUsed \in Nat
      /\ \A i \in id .. m.last.end : tg[i] = 0
  BY RangeFacts DEF LiveOK, IdsOK
<1>2. /\ id \in 1 .. PID_MAX /\ tg[id] = 0 /\ InIdRange(id, m.last) /\ m.last \in Ranges(m)
      /\ tg2[id] = 1 /\ \A i \in 1 .. PID_MAX : i # id => tg2[i] = tg[i]
  <2>1. id = NextId(m)
    BY DEF NextId
  <2> QED BY <2>1, NextIdFacts
<1>3. RangesOK(m, cl, rq, rp, l) /\ LeaderOK(o, p, m, cl, rq, rp) /\ IdsOK(m, th, rp, tg)
  BY DEF LiveOK
<1>4. /\ n.start = m.last.start /\ n.end = m.last.end /\ n.taken = m.last.taken + 1
      /\ m2 \in MineRec /\ m2.lastUsed = m.lastUsed + 1
      /\ Ranges(m2) = (Ranges(m) \ {m.last}) \cup {n} /\ m2.last \notin m2.used
      /\ m2.last # NoRange => m2.last = n /\ m2.lastUsed < n.end
  BY <1>1, <1>3, TakeOwnFacts
<1> HIDE DEF n
<1>5. RangesOK(m2, cl, rq, rp, l) /\ LeaderOK(o, p, m2, cl, rq, rp)
  BY <1>2, <1>3, <1>4, SwapRange
<1>6. id \notin th /\ IsFiniteSet(th)
  BY <1>2, <1>3 DEF IdsOK
<1>7. IsFiniteSet(th2)
  BY <1>6, FS_AddElement
<1>8. \A i \in th2 : tg2[i] = 1 /\ \E r \in Ranges(m2) : InIdRange(i, r)
  <2>1. InIdRange(id, n) /\ \A i \in th : InIdRange(i, m.last) => InIdRange(i, n)
    BY <1>2, <1>4 DEF InIdRange
  <2>2. \A i \in th : tg[i] = 1 /\ \E r \in Ranges(m) : InIdRange(i, r)
    BY <1>3 DEF IdsOK
  <2>3. \A i \in th : \E r \in Ranges(m2) : InIdRange(i, r)
    BY <1>4, <2>1, <2>2
  <2>4. \A i \in th : tg2[i] = 1
    BY <1>0, <1>2, <1>6, <2>2
  <2> QED BY <1>2, <1>4, <2>1, <2>3, <2>4
<1>9. ASSUME NEW r \in Ranges(m2) PROVE r.taken = Cardinality(ThreadsIn(th2, r))
  <2>1. CASE r = n
    <3>1. m.last.taken = Cardinality(ThreadsIn(th, m.last))
      BY <1>2, <1>3 DEF IdsOK
    <3>2. Cardinality(ThreadsIn(th2, n)) = Cardinality(ThreadsIn(th, m.last)) + 1
      BY <1>2, <1>4, <1>6, OneMoreThread
    <3> QED BY <1>4, <2>1, <3>1, <3>2
  <2>2. CASE r # n
    <3>1. r \in Ranges(m) /\ r # m.last
      BY <1>4, <2>2
    <3>2. Apart(r, m.last) /\ r.taken = Cardinality(ThreadsIn(th, r))
      BY <1>2, <1>3, <3>1 DEF RangesOK, IdsOK
    <3>3. ~InIdRange(id, r)
      BY <1>1, <1>2, <3>1, <3>2, RangeFacts DEF InIdRange, Apart
    <3> QED BY <1>6, <3>2, <3>3, OneMoreThread
  <2> QED BY <2>1, <2>2
<1>10. ASSUME m2.last # NoRange
       PROVE  /\ m2.last.start <= m2.lastUsed + 1 /\ m2.lastUsed < m2.last.end
              /\ \A i \in m2.lastUsed + 1 .. m2.last.end : tg2[i] = 0
  <2>1. m2.last.start = m.last.start /\ m2.last.end = m.last.end /\ m2.lastUsed = id /\ id < m.last.end
    BY <1>4, <1>10
  <2>2. m.last.end <= PID_MAX /\ 1 <= m.last.start
    BY <1>0, <1>1, <1>2, <1>3 DEF RangesOK
  <2>3. \A i \in id + 1 .. m.last.end : i \in 1 .. PID_MAX /\ i # id /\ tg[i] = 0
    BY <1>0, <1>1, <1>2, <2>2
  <2>4. \A i \in id + 1 .. m.last.end : tg2[i] = 0
    BY <1>2, <2>3
  <2> QED BY <1>1, <1>2, <2>1, <2>4
<1>11. IdsOK(m2, th2, rp, tg2)
  BY <1>7, <1>8, <1>9, <1>10 DEF IdsOK, NoneIn
<1> QED BY <1>2, <1>3, <1>4, <1>5, <1>11 DEF LiveOK, RangesOK

(* What get_new_id makes of the ranges when the id leaves: the last range  *)
(* falls into what lies before the id and what lies after it.              *)
LEMMA TakeForOtherFacts ==
    ASSUME NEW m \in MineRec, NEW cl, NEW rq, NEW rp, NEW l, RangesOK(m, cl, rq, rp, l),
           m.last # NoRange, NEW id, id = m.lastUsed + 1, m.last.start <= id, id <= m.last.end,
           NEW m2, m2 = TakeForOther(m)
    PROVE  /\ m2 \in MineRec /\ m2.lastUsed = id /\ m2.last \notin m2.used
           /\ \A r \in Ranges(m2) :
                 \/ r \in Ranges(m) /\ r # m.last
                 \/ r.start = m.last.start /\ r.end = id - 1 /\ r.taken = m.last.taken /\ r.start < id
                 \/ r.start = id + 1 /\ r.end = m.last.end /\ id < r.end
                    /\ r.taken = (IF m.last.start = id THEN m.last.taken ELSE 0)
           /\ \A r \in Ranges(m) : r # m.last => r \in Ranges(m2)
           /\ m.last.start = id \/ HasRange(m2, m.last.start, id - 1)
           /\ m.last.end = id \/ HasRange(m2, id + 1, m.last.end)
           /\ m2.last # NoRange => /\ m2.last.start = id + 1 /\ m2.last.end = m.last.end
                                   /\ id < m.last.end
<1> DEFINE r == m.last
           s == r.start   e == r.end
           a == IdRange(s, id - 1, r.taken)
           b == IdRange(id + 1, e, IF s = id THEN r.taken ELSE 0)
<1>1. /\ r \in RangeRec /\ s \in Nat /\ e \in Nat /\ r.taken \in Nat
      /\ m.lastUsed \in Nat /\ id \in Nat \ {0} /\ m.used \in SUBSET RangeRec
  BY RangeFacts
<1>2. /\ r \in Ranges(m) /\ r \notin m.used /\ 1 <= s /\ Ranges(m) = m.used \cup {r}
  BY DEF Ranges, RangesOK
<1>3. \A t \in m.used : t.start \in Nat /\ t.end \in Nat /\ 1 <= t.start /\ t.start <= t.end /\ Apart(t, r)
  BY <1>2, RangeFacts DEF RangesOK
<1>4. a.start = s /\ a.end = id - 1 /\ a.taken = r.taken /\ a \in RangeRec
  BY <1>1, NewRangeFacts
<1>5. /\ b.start = id + 1 /\ b.end = e /\ b.taken = (IF s = id THEN r.taken ELSE 0)
      /\ b \in RangeRec
  <2>1. (IF s = id THEN r.taken ELSE 0) \in Nat
    BY <1>1
  <2> QED BY <1>1, <2>1, NewRangeFacts
<1>6. NoRange \in RangeRec /\ NoRange.start = 0
  BY DEF NoRange, RangeRec
<1>7. m2 = CASE s = e -> FreshRanges(NoRange, m.used, id)
             [] s # e /\ s = id -> FreshRanges(b, m.used, id)
             [] s # e /\ s # id /\ e = id -> FreshRanges(NoRange, m.used \cup {a}, id)
             [] OTHER -> FreshRanges(b, m.used \cup {a}, id)
  <2>1. /\ s = id => [r EXCEPT !.start = @ + 1] = b
        /\ e = id => [r EXCEPT !.end = @ - 1] = a
        /\ s # id => IdRange(id + 1, e, 0) = b
    <3>1. /\ [r EXCEPT !.start = @ + 1] = IdRange(r.start + 1, r.end, r.taken)
          /\ [r EXCEPT !.end = @ - 1] = IdRange(r.start, r.end - 1, r.taken)
      BY <1>1, SameBounds
    <3> QED BY <3>1
  <2> HIDE DEF a, b
  <2> QED BY <2>1 DEF TakeForOther, FreshRanges, a
<1> HIDE DEF a, b
<1>8. NoRange \notin m.used /\ a # NoRange /\ b # NoRange
  BY <1>1, <1>2, <1>3, <1>4, <1>5, <1>6
<1>9. id < e => b \notin m.used /\ b # a
  BY <1>1, <1>3, <1>4, <1>5 DEF Apart
<1> HIDE DEF r, s, e
<1>10. CASE s = e
  <2>1. m2.last = NoRange /\ m2.used = m.used /\ m2.lastUsed = id /\ m2 \in MineRec
    BY <1>1, <1>6, <1>7, <1>10, MineFacts
  <2>2. s = id /\ e = id /\ Ranges(m2) = m.used
    BY <1>1, <1>8, <1>10, <2>1 DEF Ranges, r, s, e
  <2> QED BY <1>2, <1>8, <2>1, <2>2 DEF r, s, e
<1>11. CASE s # e /\ s = id
  <2>1. m2.last = b /\ m2.used = m.used /\ m2.lastUsed = id /\ m2 \in MineRec
    BY <1>1, <1>5, <1>7, <1>11, MineFacts
  <2>2. id < e /\ Ranges(m2) = m.used \cup {b}
    BY <1>1, <1>8, <1>11, <2>1 DEF Ranges, r, s, e
  <2> QED BY <1>2, <1>5, <1>9, <1>11, <2>1, <2>2 DEF r, s, e, HasRange
<1>12. CASE s # e /\ s # id /\ e = id
  <2>1. m2.last = NoRange /\ m2.used = m.used \cup {a} /\ m2.lastUsed = id /\ m2 \in MineRec
    BY <1>1, <1>4, <1>6, <1>7, <1>12, MineFacts
  <2>2. s < id /\ Ranges(m2) = m.used \cup {a}
    BY <1>1, <1>8, <1>12, <2>1 DEF Ranges, r, s, e
  <2> QED BY <1>2, <1>4, <1>8, <1>12, <2>1, <2>2 DEF r, s, e, HasRange
<1>13. CASE s # e /\ s # id /\ e # id
  <2>1. m2.last = b /\ m2.used = m.used \cup {a} /\ m2.lastUsed = id /\ m2 \in MineRec
    BY <1>1, <1>4, <1>5, <1>7, <1>13, MineFacts
  <2>2. s < id /\ id < e /\ Ranges(m2) = m.used \cup {a, b}
    BY <1>1, <1>8, <1>13, <2>1 DEF Ranges, r, s, e
  <2> QED BY <1>2, <1>4, <1>5, <1>9, <1>13, <2>1, <2>2 DEF r, s, e, HasRange
<1> QED BY <1>10, <1>11, <1>12, <1>13

NoChange(rq) == \A i \in Nat, c \in IdProcs : MoveMsg(i, c) \notin rq /\ BackMsg(i, c) \notin rq

ForChild(cl, q, id) == cl.step = "id" /\ cl.child = q /\ cl.id = id

(* get_new_id gives the next id to a new process and tells the leader. *)
LEMMA TakeForOtherOK ==
    ASSUME NEW o \in SUBSET OwnerRec, NEW p \in IdProcs, NEW q \in IdProcs, NEW m \in MineRec,
           NEW cl, NEW rq, NEW rp, NEW th \in SUBSET (1 .. PID_MAX), NEW l \in 1 .. PID_MAX, NEW tg,
           ClaimsOK(o, p, cl, rq, rp), LiveOK(o, p, m, th, cl, rq, rp, l, tg),
           m.last # NoRange, NoneIn(rp), MoveReply \notin rp, BackReply \notin rp,
           NoChange(rq), NEW tg2, NowGiven(tg, tg2, NextId(m)), NEW cl2, ForChild(cl2, q, NextId(m))
    PROVE  /\ TakeForOther(m) \in MineRec
           /\ ClaimsOK(o, p, cl2, rq \cup {MoveMsg(NextId(m), q)}, rp)
           /\ LiveOK(o, p, TakeForOther(m), th, cl2, rq \cup {MoveMsg(NextId(m), q)}, rp, l, tg2)
<1> PICK id : id = m.lastUsed + 1
  OBVIOUS
<1> id = NextId(m)
  BY DEF NextId
<1> cl2.step = "id" /\ cl2.child = q /\ cl2.id = id
  BY DEF ForChild
<1> \A i \in Nat, c \in IdProcs : MoveMsg(i, c) \notin rq /\ BackMsg(i, c) \notin rq
  BY DEF NoChange
<1> PICK m2 : m2 = TakeForOther(m)
  OBVIOUS
<1> PICK rq2 : rq2 = rq \cup {MoveMsg(id, q)}
  OBVIOUS
<1> tg2[id] = 1 /\ \A i \in 1 .. PID_MAX : i # id => tg2[i] = tg[i]
  BY DEF NowGiven
<1> DEFINE r == m.last
<1>0. PID_MAX \in Nat /\ (\A i \in th : i \in 1 .. PID_MAX) /\ l \in Nat /\ l <= PID_MAX
  BY IdAssumption
<1>1. /\ r.start <= id /\ id <= r.end /\ r.start \in Nat
      /\ r.end \in Nat /\ m.lastUsed \in Nat
      /\ \A i \in id .. r.end : tg[i] = 0
  BY RangeFacts DEF LiveOK, IdsOK
<1>2. /\ id \in 1 .. PID_MAX /\ tg[id] = 0 /\ InIdRange(id, r) /\ r \in Ranges(m)
  <2>1. id = NextId(m)
    BY DEF NextId
  <2> QED BY <2>1, NextIdFacts
<1>3. RangesOK(m, cl, rq, rp, l) /\ LeaderOK(o, p, m, cl, rq, rp) /\ IdsOK(m, th, rp, tg)
  BY DEF LiveOK
<1>4. /\ m2 \in MineRec /\ m2.lastUsed = id /\ m2.last \notin m2.used
      /\ \A t \in Ranges(m2) :
             \/ t \in Ranges(m) /\ t # r
             \/ t.start = r.start /\ t.end = id - 1 /\ t.taken = r.taken /\ t.start < id
             \/ t.start = id + 1 /\ t.end = r.end /\ id < t.end
                /\ t.taken = (IF r.start = id THEN r.taken ELSE 0)
      /\ \A t \in Ranges(m) : t # r => t \in Ranges(m2)
      /\ r.start = id \/ HasRange(m2, r.start, id - 1)
      /\ r.end = id \/ HasRange(m2, id + 1, r.end)
      /\ m2.last # NoRange => m2.last.start = id + 1 /\ m2.last.end = r.end /\ id < r.end
  BY <1>1, <1>3, TakeForOtherFacts
<1>5. /\ MoveMsg(id, q) \in rq2
      /\ \A i \in Nat, c \in IdProcs : MoveMsg(i, c) \in rq2 => i = id /\ c = q
      /\ \A i \in Nat, c \in IdProcs : BackMsg(i, c) \notin rq2
      /\ \A s, e : ReleaseMsg(s, e) \in rq2 <=> ReleaseMsg(s, e) \in rq
  BY MsgFacts
<1>6. id \in Nat /\ InHand(cl2) /\ cl2.step # "create"
  BY <1>1 DEF InHand
<1> HIDE DEF r
<1>7. Owned(r.start, r.end, p) \in o
  BY <1>2, <1>3 DEF LeaderOK, Covered
<1>8. InIdRange(id, Owned(r.start, r.end, p)) /\ Owned(r.start, r.end, p).owner = p
  BY <1>2, OwnedFacts DEF InIdRange
<1>9. 1 <= r.start /\ r.end <= l
  BY <1>2, <1>3 DEF RangesOK
<1>10. \A t \in Ranges(m) : /\ t.start \in Nat /\ t.end \in Nat /\ 1 <= t.start /\ t.start <= t.end
                            /\ t.end <= l /\ (t = r \/ Apart(t, r))
  BY <1>2, <1>3, RangeFacts DEF RangesOK
<1>11. \A s, e \in Nat : ReleaseMsg(s, e) \in rq => r.end < s \/ e < r.start
  BY <1>2, <1>3 DEF RangesOK
<1>12. ClaimsOK(o, p, cl2, rq2, rp)
  <2>1. \A s, e \in Nat : ReleaseMsg(s, e) \in rq2 => Owned(s, e, p) \in o
    BY <1>5 DEF ClaimsOK
  <2>2. \A i \in Nat, c \in IdProcs : MoveMsg(i, c) \in rq2 =>
           \E x \in o : x.owner = p /\ InIdRange(i, x)
    BY <1>5, <1>7, <1>8
  <2>3. \A s, e \in Nat : ReleaseMsg(s, e) \in rq2 => id < s \/ e < id
    BY <1>1, <1>5, <1>6, <1>11
  <2> QED BY <1>5, <1>6, <2>1, <2>2, <2>3 DEF ClaimsOK, NoneIn
<1>13. \A t \in Ranges(m2) : /\ t.start \in Nat /\ t.end \in Nat /\ 1 <= t.start /\ t.start <= t.end
                             /\ t.end <= l
  <2>1. \A t \in Ranges(m2) : t.start \in Nat /\ t.end \in Nat
    BY <1>4, RangeFacts
  <2> QED BY <1>0, <1>1, <1>4, <1>6, <1>9, <1>10, <2>1
<1>14. RangesOK(m2, cl2, rq2, rp, l)
  <2>1. ASSUME NEW t \in Ranges(m2), NEW u \in Ranges(m2) PROVE t = u \/ Apart(t, u)
    <3>1. CASE t \in Ranges(m) /\ t # r /\ u \in Ranges(m) /\ u # r
      BY <1>3, <3>1 DEF RangesOK
    <3>2. CASE t \in Ranges(m) /\ t # r /\ ~(u \in Ranges(m) /\ u # r)
      <4>1. Apart(t, r) /\ r.start <= u.start /\ u.end <= r.end
        BY <1>1, <1>4, <1>6, <1>10, <3>2
      <4> QED BY <1>1, <1>13, <4>1 DEF Apart
    <3>3. CASE u \in Ranges(m) /\ u # r /\ ~(t \in Ranges(m) /\ t # r)
      <4>1. Apart(u, r) /\ r.start <= t.start /\ t.end <= r.end
        BY <1>1, <1>4, <1>6, <1>10, <3>3
      <4> QED BY <1>1, <1>13, <4>1 DEF Apart
    <3>4. CASE ~(u \in Ranges(m) /\ u # r) /\ ~(t \in Ranges(m) /\ t # r)
      <4>1. /\ (t.start = r.start /\ t.end = id - 1 /\ t.taken = r.taken)
               \/ (t.start = id + 1 /\ t.end = r.end /\ t.taken = (IF r.start = id THEN r.taken ELSE 0))
            /\ (u.start = r.start /\ u.end = id - 1 /\ u.taken = r.taken)
               \/ (u.start = id + 1 /\ u.end = r.end /\ u.taken = (IF r.start = id THEN r.taken ELSE 0))
        BY <1>4, <3>4
      <4>2. t \in RangeRec /\ u \in RangeRec
        BY <1>4, RangeFacts
      <4>3. t.start = u.start /\ t.end = u.end /\ t.taken = u.taken => t = u
        BY <4>2 DEF RangeRec
      <4> QED BY <1>1, <1>6, <1>13, <4>1, <4>3 DEF Apart
    <3> QED BY <3>1, <3>2, <3>3, <3>4
  <2>2. ASSUME NEW t \in Ranges(m2), NEW s \in Nat, NEW e \in Nat, ReleaseMsg(s, e) \in rq2
        PROVE  t.end < s \/ e < t.start
    <3>1. CASE t \in Ranges(m)
      BY <1>3, <1>5, <2>2, <3>1 DEF RangesOK
    <3>2. CASE t \notin Ranges(m)
      <4>1. (r.end < s \/ e < r.start) /\ r.start <= t.start /\ t.end <= r.end
        BY <1>1, <1>4, <1>5, <1>6, <1>11, <2>2, <3>2
      <4> QED BY <1>1, <1>13, <4>1
    <3> QED BY <3>1, <3>2
  <2>3. ASSUME NEW t \in Ranges(m2) PROVE ~InIdRange(id, t)
    <3>1. CASE t \in Ranges(m) /\ t # r
      BY <1>1, <1>6, <1>10, <3>1 DEF Apart, InIdRange
    <3>2. CASE ~(t \in Ranges(m) /\ t # r)
      <4>1. t.end = id - 1 \/ t.start = id + 1
        BY <1>4, <3>2
      <4> QED BY <1>6, <1>13, <4>1 DEF InIdRange
    <3> QED BY <3>1, <3>2
  <2> QED BY <1>4, <1>13, <2>1, <2>2, <2>3 DEF RangesOK, NoneIn
<1>15. LeaderOK(o, p, m2, cl2, rq2, rp)
  <2>1. ASSUME NEW t \in Ranges(m2) PROVE Covered(o, p, t, rq2)
    <3>1. CASE t \in Ranges(m)
      BY <1>3, <3>1 DEF LeaderOK, Covered
    <3>2. CASE t \notin Ranges(m)
      <4>1. CutOf(t, Owned(r.start, r.end, p), id)
        BY <1>4, <3>2, OwnedFacts DEF CutOf
      <4> QED BY <1>5, <1>6, <1>7, <1>8, <4>1 DEF Covered
    <3> QED BY <3>1, <3>2
  <2>2. ASSUME NEW x \in o, x.owner = p PROVE Explained(x, m2, cl2, rq2, rp)
    <3>1. Explained(x, m, cl, rq, rp) /\ x.start \in Nat /\ x.end \in Nat
      BY <1>3, <2>2 DEF LeaderOK, OwnerRec
    <3>2. HasRange(m, x.start, x.end) \/ ReleaseMsg(x.start, x.end) \in rq
      BY <3>1 DEF Explained, NoneIn
    <3>3. CASE ReleaseMsg(x.start, x.end) \in rq
      BY <1>5, <3>3 DEF Explained
    <3>4. ASSUME NEW t \in Ranges(m), t # r, t.start = x.start, t.end = x.end
          PROVE  HasRange(m2, x.start, x.end)
      BY <1>4, <3>4 DEF HasRange
    <3>5. CASE r.start = x.start /\ r.end = x.end
      <4>1. InIdRange(id, x)
        BY <1>2, <3>5 DEF InIdRange
      <4> QED BY <1>4, <1>5, <1>6, <3>5, <4>1 DEF Explained
    <3> QED BY <3>2, <3>3, <3>4, <3>5 DEF Explained, HasRange
  <2> QED BY <2>1, <2>2 DEF LeaderOK
<1>16. IdsOK(m2, th, rp, tg2)
  <2>1. \A i \in th : tg[i] = 1 /\ i \in Nat /\ i # id /\ tg2[i] = 1
    BY <1>0, <1>2, <1>3 DEF IdsOK
  <2>2. ASSUME NEW i \in th PROVE \E t \in Ranges(m2) : InIdRange(i, t)
    <3>1. PICK t \in Ranges(m) : InIdRange(i, t)
      BY <1>3 DEF IdsOK
    <3>2. CASE t = r
      <4>1. i < id
        <5>1. i \notin id .. r.end
          BY <1>1, <2>1
        <5> QED BY <1>1, <1>6, <2>1, <3>1, <3>2, <5>1 DEF InIdRange
      <4>2. HasRange(m2, r.start, id - 1)
        BY <1>1, <1>4, <1>6, <2>1, <3>1, <3>2, <4>1 DEF InIdRange
      <4>3. PICK u \in Ranges(m2) : u.start = r.start /\ u.end = id - 1
        BY <4>2 DEF HasRange
      <4> QED BY <1>6, <2>1, <3>1, <3>2, <4>1, <4>3 DEF InIdRange
    <3> QED BY <1>4, <3>1, <3>2
  <2>3. \A i \in th : InIdRange(i, r) => i < id
    <3>1. \A i \in th : i \notin id .. r.end
      BY <1>1, <2>1
    <3> QED BY <1>1, <1>6, <2>1, <3>1 DEF InIdRange
  <2>4. ASSUME NEW t \in Ranges(m2) PROVE t.taken = Cardinality(ThreadsIn(th, t))
    <3>1. CASE t \in Ranges(m) /\ t # r
      BY <1>3, <3>1 DEF IdsOK
    <3>2. r.taken = Cardinality(ThreadsIn(th, r))
      BY <1>2, <1>3 DEF IdsOK
    <3>3. CASE t.start = r.start /\ t.end = id - 1 /\ t.taken = r.taken
      <4>1. \A i \in th : InIdRange(i, r) <=> InIdRange(i, t)
        BY <1>1, <1>6, <2>1, <2>3, <3>3 DEF InIdRange
      <4> QED BY <3>2, <3>3, <4>1, SameThreads
    <3>4. CASE t.start = id + 1 /\ t.end = r.end /\ t.taken = (IF r.start = id THEN r.taken ELSE 0)
      <4>1. \A i \in th : ~InIdRange(i, t)
        BY <1>1, <1>6, <2>1, <2>3, <3>4 DEF InIdRange
      <4>2. CASE r.start = id
        <5>1. \A i \in th : InIdRange(i, r) <=> InIdRange(i, t)
          BY <1>6, <2>1, <2>3, <4>1, <4>2 DEF InIdRange
        <5> QED BY <3>2, <3>4, <4>2, <5>1, SameThreads
      <4>3. CASE r.start # id
        BY <3>4, <4>1, <4>3, NoThreads
      <4> QED BY <4>2, <4>3
    <3> QED BY <1>4, <3>1, <3>3, <3>4
  <2>5. ASSUME m2.last # NoRange
        PROVE  /\ m2.last.start <= m2.lastUsed + 1 /\ m2.lastUsed < m2.last.end
               /\ \A i \in m2.lastUsed + 1 .. m2.last.end : tg2[i] = 0
    <3>1. m2.last.start = id + 1 /\ m2.last.end = r.end /\ m2.lastUsed = id /\ id < r.end
      BY <1>4, <2>5
    <3>2. \A i \in id + 1 .. r.end : i \in 1 .. PID_MAX /\ i # id /\ tg[i] = 0
      BY <1>0, <1>1, <1>6, <1>9
    <3>3. \A i \in id + 1 .. r.end : tg2[i] = 0
      BY <3>2
    <3> QED BY <1>6, <3>1, <3>3
  <2>6. IsFiniteSet(th)
    BY <1>3 DEF IdsOK
  <2> QED BY <2>1, <2>2, <2>4, <2>5, <2>6 DEF IdsOK, NoneIn
<1> QED BY <1>4, <1>12, <1>14, <1>15, <1>16 DEF LiveOK

-----------------------------------------------------------------------------
(* Steps of release_id *)

(* A range counts one thread less when one of its threads ends. *)
LEMMA OneLessThread ==
    ASSUME NEW th, IsFiniteSet(th), NEW id \in th, NEW r, NEW n, n.start = r.start, n.end = r.end
    PROVE  /\ InIdRange(id, r) => /\ Cardinality(ThreadsIn(th, r)) \in Nat \ {0}
                                  /\ Cardinality(ThreadsIn(th \ {id}, n)) = Cardinality(ThreadsIn(th, r)) - 1
           /\ ~InIdRange(id, r) => Cardinality(ThreadsIn(th \ {id}, n)) = Cardinality(ThreadsIn(th, r))
<1>1. IsFiniteSet(th \ {id}) /\ id \notin th \ {id} /\ (th \ {id}) \cup {id} = th
  BY FS_Subset
<1>2. IsFiniteSet(ThreadsIn(th \ {id}, n)) 
  <2>1. ThreadsIn(th \ {id}, n) \subseteq th
    BY DEF ThreadsIn
  <2> QED BY <2>1, FS_Subset
<1>3. Cardinality(ThreadsIn(th \ {id}, n)) \in Nat
  BY <1>2, FS_CardinalityType
<1>4. InIdRange(id, r) <=> InIdRange(id, n)
  BY DEF InIdRange
<1>5. /\ InIdRange(id, n) => Cardinality(ThreadsIn(th, r)) = Cardinality(ThreadsIn(th \ {id}, n)) + 1
      /\ ~InIdRange(id, n) => Cardinality(ThreadsIn(th, r)) = Cardinality(ThreadsIn(th \ {id}, n))
  <2> DEFINE t == th \ {id}
  <2>1. IsFiniteSet(t) /\ id \notin t /\ t \cup {id} = th
    BY <1>1
  <2> HIDE DEF t
  <2>2. /\ InIdRange(id, n) => Cardinality(ThreadsIn(t \cup {id}, r)) = Cardinality(ThreadsIn(t, n)) + 1
        /\ ~InIdRange(id, n) => Cardinality(ThreadsIn(t \cup {id}, r)) = Cardinality(ThreadsIn(t, n))
    BY <2>1, OneMoreThread
  <2>3. /\ InIdRange(id, n) => Cardinality(ThreadsIn(th, r)) = Cardinality(ThreadsIn(t, n)) + 1
        /\ ~InIdRange(id, n) => Cardinality(ThreadsIn(th, r)) = Cardinality(ThreadsIn(t, n))
    BY <2>1, <2>2
  <2> QED BY <2>3 DEF t
<1> DEFINE a == Cardinality(ThreadsIn(th \ {id}, n))
           b == Cardinality(ThreadsIn(th, r))
<1>6. /\ a \in Nat /\ (InIdRange(id, n) => b = a + 1) /\ (~InIdRange(id, n) => b = a)
  BY <1>3, <1>5
<1> HIDE DEF a, b
<1>7. /\ InIdRange(id, r) => b \in Nat \ {0} /\ a = b - 1
      /\ ~InIdRange(id, r) => a = b
  BY <1>4, <1>6
<1> QED BY <1>7 DEF a, b

(* release_id finds the count of the range above zero. *)
LEMMA ReleaseFacts ==
    ASSUME NEW m \in MineRec, NEW rp, NEW th, NEW tg, IdsOK(m, th, rp, tg),
           NEW id \in th, NEW r \in Ranges(m), InIdRange(id, r)
    PROVE  r.taken \in Nat \ {0}
<1>1. IsFiniteSet(th) /\ r.taken = Cardinality(ThreadsIn(th, r))
  BY DEF IdsOK
<1> QED BY <1>1, OneLessThread

(* release_id lowers the count of a range. *)
LEMMA LowerCount ==
    ASSUME NEW o \in SUBSET OwnerRec, NEW p \in IdProcs, NEW m \in MineRec, NEW m2 \in MineRec,
           NEW cl, NEW rq, NEW rp, NEW th \in SUBSET (1 .. PID_MAX), NEW l \in Nat, NEW tg,
           LiveOK(o, p, m, th, cl, rq, rp, l, tg),
           NEW id \in th, NEW r \in Ranges(m), InIdRange(id, r),
           NEW n, n.start = r.start, n.end = r.end, n.taken = r.taken - 1,
           Ranges(m2) = (Ranges(m) \ {r}) \cup {n}, m2.last \notin m2.used,
           m2.lastUsed = m.lastUsed,
           m2.last # NoRange =>
              m.last # NoRange /\ m2.last.start = m.last.start /\ m2.last.end = m.last.end
    PROVE  LiveOK(o, p, m2, th \ {id}, cl, rq, rp, l, tg)
<1>1. RangesOK(m, cl, rq, rp, l) /\ LeaderOK(o, p, m, cl, rq, rp) /\ IdsOK(m, th, rp, tg)
  BY DEF LiveOK
<1>2. RangesOK(m2, cl, rq, rp, l) /\ LeaderOK(o, p, m2, cl, rq, rp)
  BY <1>1, SwapRange
<1>3. IsFiniteSet(th) /\ IsFiniteSet(th \ {id})
  BY <1>1, FS_Subset DEF IdsOK
<1>4. \A i \in th : tg[i] = 1 /\ \E t \in Ranges(m2) : InIdRange(i, t)
  <2>1. \A i \in th : InIdRange(i, r) => InIdRange(i, n)
    BY DEF InIdRange
  <2> QED BY <1>1, <2>1 DEF IdsOK
<1>5. ASSUME NEW t \in Ranges(m2) PROVE t.taken = Cardinality(ThreadsIn(th \ {id}, t))
  <2>1. CASE t = n
    <3>1. r.taken = Cardinality(ThreadsIn(th, r))
      BY <1>1 DEF IdsOK
    <3> QED BY <1>3, <2>1, <3>1, OneLessThread
  <2>2. CASE t # n
    <3>1. t \in Ranges(m) /\ t # r /\ Apart(t, r) /\ t.taken = Cardinality(ThreadsIn(th, t))
      BY <1>1, <2>2 DEF RangesOK, IdsOK
    <3>2. id \in Nat
      BY IdAssumption
    <3>3. ~InIdRange(id, t)
      BY <3>1, <3>2, RangeFacts DEF Apart, InIdRange
    <3> QED BY <1>3, <3>1, <3>3, OneLessThread
  <2> QED BY <2>1, <2>2
<1>6. IdsOK(m2, th \ {id}, rp, tg)
  BY <1>1, <1>3, <1>4, <1>5 DEF IdsOK
<1> QED BY <1>2, <1>6 DEF LiveOK

(* release_id gives a range back. *)
LEMMA GiveBack ==
    ASSUME NEW o \in SUBSET OwnerRec, NEW p \in IdProcs, NEW m \in MineRec, NEW m2 \in MineRec,
           NEW cl, NEW rq, NEW rp, NEW th \in SUBSET (1 .. PID_MAX), NEW l \in Nat, NEW tg,
           ClaimsOK(o, p, cl, rq, rp), LiveOK(o, p, m, th, cl, rq, rp, l, tg), cl.id \in Nat,
           \A i \in Nat, c \in IdProcs : MoveMsg(i, c) \notin rq,
           NEW id \in th, NEW r \in Ranges(m), InIdRange(id, r), r.taken = 1,
           Ranges(m2) = Ranges(m) \ {r}, m2.last \notin m2.used,
           m2.lastUsed = m.lastUsed, m2.last = m.last,
           NEW rq2, rq2 = rq \cup {ReleaseMsg(r.start, r.end)}
    PROVE  ClaimsOK(o, p, cl, rq2, rp) /\ LiveOK(o, p, m2, th \ {id}, cl, rq2, rp, l, tg)
<1>1. RangesOK(m, cl, rq, rp, l) /\ LeaderOK(o, p, m, cl, rq, rp) /\ IdsOK(m, th, rp, tg)
  BY DEF LiveOK
<1>2. r.start \in Nat /\ r.end \in Nat /\ \A t \in Ranges(m) : t.start \in Nat /\ t.end \in Nat
  BY RangeFacts
<1>3. /\ \A i \in Nat, c \in IdProcs : MoveMsg(i, c) \notin rq2
      /\ \A i, c : BackMsg(i, c) \in rq2 <=> BackMsg(i, c) \in rq
      /\ \A s, e : ReleaseMsg(s, e) \in rq2 =>
            (ReleaseMsg(s, e) \in rq \/ (s = r.start /\ e = r.end))
      /\ ReleaseMsg(r.start, r.end) \in rq2 /\ \A s, e : ReleaseMsg(s, e) \in rq => ReleaseMsg(s, e) \in rq2
  BY MsgFacts
<1>4. Owned(r.start, r.end, p) \in o
  BY <1>1 DEF LeaderOK, Covered
<1>5. InHand(cl) => cl.id < r.start \/ r.end < cl.id
  BY <1>1, <1>2 DEF RangesOK, InIdRange
<1>6. \A s, e \in Nat : AllocReply(s, e) \in rp => r.end < s \/ e < r.start
  BY <1>1 DEF RangesOK
<1>7. ClaimsOK(o, p, cl, rq2, rp)
  <2>1. \A s, e \in Nat : ReleaseMsg(s, e) \in rq2 => Owned(s, e, p) \in o
    BY <1>3, <1>4 DEF ClaimsOK
  <2>2. \A s, e \in Nat : ReleaseMsg(s, e) \in rq2 /\ InHand(cl) => cl.id < s \/ e < cl.id
    BY <1>3, <1>5 DEF ClaimsOK
  <2>3. \A s, e, s2, e2 \in Nat : ReleaseMsg(s, e) \in rq2 /\ AllocReply(s2, e2) \in rp
          => e < s2 \/ e2 < s
    BY <1>3, <1>6 DEF ClaimsOK
  <2> QED BY <1>3, <2>1, <2>2, <2>3 DEF ClaimsOK
<1>8. RangesOK(m2, cl, rq2, rp, l)
  <2>1. ASSUME NEW t \in Ranges(m2), NEW s \in Nat, NEW e \in Nat, ReleaseMsg(s, e) \in rq2
        PROVE  t.end < s \/ e < t.start
    <3>1. t \in Ranges(m) /\ Apart(t, r)
      BY <1>1 DEF RangesOK
    <3>2. CASE ReleaseMsg(s, e) \in rq
      BY <1>1, <3>1, <3>2 DEF RangesOK
    <3>3. CASE s = r.start /\ e = r.end
      BY <3>1, <3>3 DEF Apart
    <3> QED BY <1>3, <2>1, <3>2, <3>3
  <2> QED BY <1>1, <2>1 DEF RangesOK
<1>9. LeaderOK(o, p, m2, cl, rq2, rp)
  <2>1. \A t \in Ranges(m2) : Covered(o, p, t, rq2)
    BY <1>1, <1>3 DEF LeaderOK, Covered
  <2>2. ASSUME NEW x \in o, x.owner = p PROVE Explained(x, m2, cl, rq2, rp)
    <3>1. Explained(x, m, cl, rq, rp)
      BY <1>1, <2>2 DEF LeaderOK
    <3>2. CASE HasRange(m, x.start, x.end)
      <4>1. PICK t \in Ranges(m) : t.start = x.start /\ t.end = x.end
        BY <3>2 DEF HasRange
      <4>2. CASE t = r
        BY <1>3, <4>1, <4>2 DEF Explained
      <4>3. CASE t # r
        BY <4>1, <4>3 DEF Explained, HasRange
      <4> QED BY <4>2, <4>3
    <3> QED BY <1>3, <3>1, <3>2 DEF Explained
  <2> QED BY <2>1, <2>2 DEF LeaderOK
<1>10. IsFiniteSet(th) /\ IsFiniteSet(th \ {id}) /\ \A i \in th : i \in Nat
  BY <1>1, FS_Subset, IdAssumption DEF IdsOK
<1>11. \A i \in th \ {id} : ~InIdRange(i, r)
  <2>1. Cardinality(ThreadsIn(th \ {id}, r)) = 0 /\ IsFiniteSet(ThreadsIn(th \ {id}, r))
    <3>1. Cardinality(ThreadsIn(th, r)) = 1
      BY <1>1 DEF IdsOK
    <3>2. ThreadsIn(th \ {id}, r) \subseteq th
      BY DEF ThreadsIn
    <3>3. IsFiniteSet(ThreadsIn(th \ {id}, r))
      BY <1>10, <3>2, FS_Subset
    <3>4. Cardinality(ThreadsIn(th \ {id}, r)) = Cardinality(ThreadsIn(th, r)) - 1
      BY <1>10, OneLessThread
    <3> QED BY <3>1, <3>3, <3>4
  <2>2. ThreadsIn(th \ {id}, r) = {}
    BY <2>1, FS_EmptySet
  <2> QED BY <2>2 DEF ThreadsIn
<1>12. ASSUME NEW t \in Ranges(m2) PROVE t.taken = Cardinality(ThreadsIn(th \ {id}, t))
  <2>1. t \in Ranges(m) /\ t # r /\ Apart(t, r) /\ t.taken = Cardinality(ThreadsIn(th, t))
    BY <1>1 DEF RangesOK, IdsOK
  <2>2. ~InIdRange(id, t)
    BY <1>2, <1>10, <2>1 DEF Apart, InIdRange
  <2> QED BY <1>10, <2>1, <2>2, OneLessThread
<1>13. \A i \in th \ {id} : tg[i] = 1 /\ \E t \in Ranges(m2) : InIdRange(i, t)
  BY <1>1, <1>11 DEF IdsOK
<1>14. IdsOK(m2, th \ {id}, rp, tg)
  BY <1>1, <1>10, <1>12, <1>13 DEF IdsOK
<1> QED BY <1>7, <1>8, <1>9, <1>14 DEF LiveOK

-----------------------------------------------------------------------------
(* Steps of the leader *)

(* alloc_id_range answers, with a range or without. *)
LEMMA AllocClaims ==
    ASSUME NEW o, NEW o2, NEW p \in IdProcs, NEW cl, NEW rq, NEW rp, NEW s \in Nat, NEW e \in Nat,
           ClaimsOK(o, p, cl, rq, rp), NoneIn(rp),
           o \subseteq o2, s # 0 => Owned(s, e, p) \in o2,
           \A s2, e2 \in Nat : ReleaseMsg(s2, e2) \in rq => e2 < s \/ e < s2,
           InHand(cl) => cl.id < s \/ e < cl.id,
           NEW rq2, rq2 = rq \ {AllocMsg}, NEW rp2, rp2 = rp \cup {AllocReply(s, e)}
    PROVE  ClaimsOK(o2, p, cl, rq2, rp2)
<1>1. /\ \A i, c : MoveMsg(i, c) \in rq2 <=> MoveMsg(i, c) \in rq
      /\ \A i, c : BackMsg(i, c) \in rq2 <=> BackMsg(i, c) \in rq
      /\ \A s2, e2 : ReleaseMsg(s2, e2) \in rq2 <=> ReleaseMsg(s2, e2) \in rq
  BY MsgFacts
<1>2. /\ MoveReply \in rp2 <=> MoveReply \in rp
      /\ BackReply \in rp2 <=> BackReply \in rp
      /\ \A s2, e2 \in Nat : AllocReply(s2, e2) \in rp2 <=> s2 = s /\ e2 = e
  BY ReplyFacts DEF NoneIn
<1>3. /\ \A s2, e2 \in Nat : ReleaseMsg(s2, e2) \in rq2 => Owned(s2, e2, p) \in o2
      /\ \A s2, e2 \in Nat : AllocReply(s2, e2) \in rp2 /\ s2 # 0 => Owned(s2, e2, p) \in o2
      /\ \A id \in Nat, q \in IdProcs : MoveMsg(id, q) \in rq2 =>
            \E x \in o2 : x.owner = p /\ InIdRange(id, x)
  BY <1>1, <1>2 DEF ClaimsOK
<1>4. /\ MoveReply \in rp2 \/ cl.step = "create" \/ BackMsg(cl.id, p) \in rq2 =>
            Owned(cl.id, cl.id, cl.child) \in o2
      /\ BackReply \in rp2 => Owned(cl.id, cl.id, p) \in o2
  BY <1>1, <1>2 DEF ClaimsOK
<1>5. /\ \A s2, e2 \in Nat : ReleaseMsg(s2, e2) \in rq2 /\ InHand(cl) => cl.id < s2 \/ e2 < cl.id
      /\ \A s2, e2, s3, e3 \in Nat : ReleaseMsg(s2, e2) \in rq2 /\ AllocReply(s3, e3) \in rp2
            => e2 < s3 \/ e3 < s2
      /\ \A s2, e2 \in Nat : AllocReply(s2, e2) \in rp2 /\ InHand(cl) => cl.id < s2 \/ e2 < cl.id
  BY <1>1, <1>2 DEF ClaimsOK
<1> QED BY <1>3, <1>4, <1>5 DEF ClaimsOK

(* The tree agrees with a process that was given a new range. *)
LEMMA AllocLive ==
    ASSUME NEW o, NEW o2, NEW p \in IdProcs, NEW m \in MineRec, NEW cl, NEW rq, NEW rp,
           NEW th, NEW l \in Nat, NEW l2 \in Nat, NEW tg, NEW s \in Nat, NEW e \in Nat,
           LiveOK(o, p, m, th, cl, rq, rp, l, tg), NoneIn(rp),
           o \subseteq o2, s # 0 => Owned(s, e, p) \in o2, l <= l2,
           \A x \in o2 : x \in o \/ x = Owned(s, e, p),
           \A r \in Ranges(m) : r.end < s \/ e < r.start,
           s # 0 => \A id \in s .. e : tg[id] = 0,
           NEW rq2, rq2 = rq \ {AllocMsg}, NEW rp2, rp2 = rp \cup {AllocReply(s, e)}
    PROVE  LiveOK(o2, p, m, th, cl, rq2, rp2, l2, tg)
<1>1. /\ \A i, c : MoveMsg(i, c) \in rq2 <=> MoveMsg(i, c) \in rq
      /\ \A s2, e2 : ReleaseMsg(s2, e2) \in rq2 <=> ReleaseMsg(s2, e2) \in rq
  BY MsgFacts
<1>2. /\ BackReply \in rp2 <=> BackReply \in rp
      /\ \A s2, e2 \in Nat : AllocReply(s2, e2) \in rp2 <=> s2 = s /\ e2 = e
      /\ AllocReply(s, e) \in rp2 /\ \A s2, e2 : AllocReply(s2, e2) \in rp => AllocReply(s2, e2) \in rp2
  BY ReplyFacts DEF NoneIn
<1>3. RangesOK(m, cl, rq, rp, l) /\ LeaderOK(o, p, m, cl, rq, rp) /\ IdsOK(m, th, rp, tg)
  BY DEF LiveOK
<1>4. RangesOK(m, cl, rq2, rp2, l2)
  <2>1. \A r \in Ranges(m) : 1 <= r.start /\ r.start <= r.end /\ r.end <= l2
    BY <1>3, RangeFacts DEF RangesOK
  <2> QED BY <1>1, <1>2, <1>3, <2>1 DEF RangesOK
<1>5. LeaderOK(o2, p, m, cl, rq2, rp2)
  <2>1. \A r \in Ranges(m) : Covered(o2, p, r, rq2)
    BY <1>1, <1>3 DEF LeaderOK, Covered
  <2>2. ASSUME NEW x \in o2, x.owner = p PROVE Explained(x, m, cl, rq2, rp2)
    <3>1. CASE x = Owned(s, e, p)
      BY <1>2, <3>1, OwnedFacts DEF Explained
    <3>2. CASE x \in o
      <4>1. Explained(x, m, cl, rq, rp)
        BY <1>3, <2>2, <3>2 DEF LeaderOK
      <4> QED BY <1>1, <1>2, <4>1 DEF Explained
    <3> QED BY <3>1, <3>2
  <2> QED BY <2>1, <2>2 DEF LeaderOK
<1>6. IdsOK(m, th, rp2, tg)
  BY <1>2, <1>3 DEF IdsOK
<1> QED BY <1>4, <1>5, <1>6 DEF LiveOK

(* release_id_range takes a range out of the tree. *)
LEMMA ReleaseClaims ==
    ASSUME NEW o \in SUBSET OwnerRec, NEW o2, NEW p \in IdProcs, NEW cl, NEW rq, NEW rp,
           NEW s \in Nat, NEW e \in Nat, s <= e, cl.id \in Nat,
           ClaimsOK(o, p, cl, rq, rp), ReleaseMsg(s, e) \in rq,
           \A x : x \in o2 <=> x \in o /\ x # Owned(s, e, p),
           InHand(cl) <=> cl.step \in {"id", "create", "back"},
           \A id \in Nat, q \in IdProcs : MoveMsg(id, q) \in rq => cl.step = "id" /\ cl.id = id,
           BackMsg(cl.id, p) \in rq => cl.step = "back",
           MoveReply \in rp => cl.step = "id", BackReply \in rp => cl.step = "back",
           NEW rq2, rq2 = rq \ {ReleaseMsg(s, e)}
    PROVE  ClaimsOK(o2, p, cl, rq2, rp)
<1>1. /\ \A i, c : MoveMsg(i, c) \in rq2 <=> MoveMsg(i, c) \in rq
      /\ \A i, c : BackMsg(i, c) \in rq2 <=> BackMsg(i, c) \in rq
      /\ \A s2, e2 : ReleaseMsg(s2, e2) \in rq2 => ReleaseMsg(s2, e2) \in rq /\ (s2 # s \/ e2 # e)
  BY MsgFacts
<1>2. InHand(cl) => cl.id < s \/ e < cl.id
  BY DEF ClaimsOK
<1>3. \A x \in o, i \in Nat : InIdRange(i, x) /\ (i < s \/ e < i) => x \in o2
  <2>1. \A i \in Nat : (i < s \/ e < i) => ~InIdRange(i, Owned(s, e, p))
    BY OwnedFacts DEF InIdRange
  <2> QED BY <2>1
<1>4. \A q : InIdRange(cl.id, Owned(cl.id, cl.id, q))
  BY OwnedFacts DEF InIdRange
<1>5. \A s2, e2 \in Nat : ReleaseMsg(s2, e2) \in rq2 => Owned(s2, e2, p) \in o2
  BY <1>1, OwnedEqual DEF ClaimsOK
<1>6. ASSUME NEW s2 \in Nat, NEW e2 \in Nat, AllocReply(s2, e2) \in rp, s2 # 0
      PROVE  Owned(s2, e2, p) \in o2
  <2>1. Owned(s2, e2, p) \in o /\ (e < s2 \/ e2 < s)
    BY <1>6 DEF ClaimsOK
  <2>2. s2 # s \/ e2 # e
    BY <2>1
  <2> QED BY <2>1, <2>2, OwnedEqual
<1>7. ASSUME NEW id \in Nat, NEW q \in IdProcs, MoveMsg(id, q) \in rq2
      PROVE  \E x \in o2 : x.owner = p /\ InIdRange(id, x)
  <2>1. cl.step = "id" /\ cl.id = id /\ InHand(cl) /\ \E x \in o : x.owner = p /\ InIdRange(id, x)
    BY <1>1, <1>7 DEF ClaimsOK
  <2> QED BY <1>2, <1>3, <2>1
<1>8. MoveReply \in rp \/ cl.step = "create" \/ BackMsg(cl.id, p) \in rq2 =>
          Owned(cl.id, cl.id, cl.child) \in o2
  <2>1. MoveReply \in rp \/ cl.step = "create" \/ BackMsg(cl.id, p) \in rq2 =>
          InHand(cl) /\ Owned(cl.id, cl.id, cl.child) \in o
    BY <1>1 DEF ClaimsOK
  <2> QED BY <1>2, <1>3, <1>4, <2>1
<1>9. BackReply \in rp => Owned(cl.id, cl.id, p) \in o2
  <2>1. BackReply \in rp => InHand(cl) /\ Owned(cl.id, cl.id, p) \in o
    BY DEF ClaimsOK
  <2> QED BY <1>2, <1>3, <1>4, <2>1
<1>10. /\ \A s2, e2 \in Nat : ReleaseMsg(s2, e2) \in rq2 /\ InHand(cl) => cl.id < s2 \/ e2 < cl.id
       /\ \A s2, e2, s3, e3 \in Nat : ReleaseMsg(s2, e2) \in rq2 /\ AllocReply(s3, e3) \in rp
             => e2 < s3 \/ e3 < s2
       /\ \A s2, e2 \in Nat : AllocReply(s2, e2) \in rp /\ InHand(cl) => cl.id < s2 \/ e2 < cl.id
  BY <1>1 DEF ClaimsOK
<1> QED BY <1>5, <1>6, <1>7, <1>8, <1>9, <1>10 DEF ClaimsOK

(* The tree agrees with a process whose range was taken back. *)
LEMMA ReleaseLive ==
    ASSUME NEW o \in SUBSET OwnerRec, NEW o2, NEW p \in IdProcs, NEW m \in MineRec, NEW cl, NEW rq, NEW rp,
           NEW th, NEW l, NEW tg,
           NEW s \in Nat, NEW e \in Nat, s <= e, cl.id \in Nat,
           ClaimsOK(o, p, cl, rq, rp), ReleaseMsg(s, e) \in rq,
           LiveOK(o, p, m, th, cl, rq, rp, l, tg),
           \A x : x \in o2 <=> x \in o /\ x # Owned(s, e, p),
           \A id \in Nat, q \in IdProcs : MoveMsg(id, q) \in rq => cl.step = "id" /\ cl.id = id,
           NEW rq2, rq2 = rq \ {ReleaseMsg(s, e)}
    PROVE  LiveOK(o2, p, m, th, cl, rq2, rp, l, tg)
<1>1. /\ \A i, c : MoveMsg(i, c) \in rq2 <=> MoveMsg(i, c) \in rq
      /\ \A s2, e2 : ReleaseMsg(s2, e2) \in rq2 => ReleaseMsg(s2, e2) \in rq
      /\ \A s2, e2 : ReleaseMsg(s2, e2) \in rq => (ReleaseMsg(s2, e2) \in rq2 \/ (s2 = s /\ e2 = e))
  BY MsgFacts
<1>2. RangesOK(m, cl, rq, rp, l) /\ LeaderOK(o, p, m, cl, rq, rp) /\ IdsOK(m, th, rp, tg)
  BY DEF LiveOK
<1>3. RangesOK(m, cl, rq2, rp, l)
  BY <1>1, <1>2 DEF RangesOK
<1>4. ASSUME NEW r \in Ranges(m) PROVE Covered(o2, p, r, rq2)
  <2>1. r.start \in Nat /\ r.end \in Nat /\ r.start <= r.end /\ (r.end < s \/ e < r.start)
    BY <1>2, RangeFacts DEF RangesOK
  <2>2. CASE Owned(r.start, r.end, p) \in o
    <3>1. r.start # s \/ r.end # e
      BY <2>1
    <3> QED BY <2>2, <3>1, OwnedEqual DEF Covered
  <2>3. CASE Owned(r.start, r.end, p) \notin o
    <3>1. PICK id \in Nat, q \in IdProcs, x \in o :
             MoveMsg(id, q) \in rq /\ x.owner = p /\ InIdRange(id, x) /\ CutOf(r, x, id)
      BY <1>2, <2>3 DEF LeaderOK, Covered
    <3>2. id < s \/ e < id
      BY <3>1 DEF ClaimsOK, InHand
    <3>3. x \in o2
      BY <3>1, <3>2, OwnedFacts DEF InIdRange
    <3> QED BY <1>1, <3>1, <3>3 DEF Covered
  <2> QED BY <2>2, <2>3
<1>5. ASSUME NEW x \in o2, x.owner = p PROVE Explained(x, m, cl, rq2, rp)
  <2>1. Explained(x, m, cl, rq, rp) /\ x \in OwnerRec /\ x # Owned(s, e, p)
    BY <1>2, <1>5 DEF LeaderOK
  <2>2. ~(x.start = s /\ x.end = e)
    BY <1>5, <2>1, OwnedFacts
  <2> QED BY <1>1, <2>1, <2>2 DEF Explained
<1>6. LeaderOK(o2, p, m, cl, rq2, rp)
  BY <1>4, <1>5 DEF LeaderOK
<1> QED BY <1>2, <1>3, <1>6 DEF LiveOK

(* change_id_owner moves an id of process p to its new child q. *)
LEMMA MoveClaims ==
    ASSUME NEW o \in SUBSET OwnerRec, NEW l \in Nat, TreeOK(o, l), NEW p \in IdProcs, NEW q \in IdProcs,
           NEW x \in o, NEW id \in Nat, InIdRange(id, x), NEW o2, o2 = ChangeOwner(o, id, q),
           NEW cl, NEW rq, NEW rp, cl.step = "id", cl.child = q, cl.id = id, ClaimsOK(o, p, cl, rq, rp),
           \A i \in Nat, c \in IdProcs : MoveMsg(i, c) \in rq => i = id /\ c = q,
           BackMsg(id, p) \notin rq, BackReply \notin rp,
           NEW rq2, rq2 = rq \ {MoveMsg(id, q)}, NEW rp2, rp2 = rp \cup {MoveReply}
    PROVE  ClaimsOK(o2, p, cl, rq2, rp2)
<1>1. /\ \A i \in Nat, c \in IdProcs : MoveMsg(i, c) \notin rq2
      /\ BackMsg(cl.id, p) \notin rq2
      /\ \A s, e : ReleaseMsg(s, e) \in rq2 <=> ReleaseMsg(s, e) \in rq
  BY MsgFacts
<1>2. /\ BackReply \notin rp2 /\ cl.step # "create"
      /\ \A s, e : AllocReply(s, e) \in rp2 <=> AllocReply(s, e) \in rp
  BY ReplyFacts
<1>3. Owned(id, id, q) \in o2 /\ \A y \in o : y # x => y \in o2
  <2>1. CutInto(o, o2, x, id, q)
    BY CutFacts
  <2> QED BY <2>1 DEF CutInto
<1>4. InHand(cl) /\ cl.id = id
  BY DEF InHand
<1>5. \A s, e \in Nat : id < s \/ e < id => Owned(s, e, p) # x
  BY OwnedFacts DEF InIdRange
<1>6. /\ \A s, e \in Nat : ReleaseMsg(s, e) \in rq2 => Owned(s, e, p) \in o2
      /\ \A s, e \in Nat : AllocReply(s, e) \in rp2 /\ s # 0 => Owned(s, e, p) \in o2
  <2>1. \A s, e \in Nat : ReleaseMsg(s, e) \in rq => Owned(s, e, p) \in o /\ (id < s \/ e < id)
    BY <1>4 DEF ClaimsOK
  <2>2. \A s, e \in Nat : AllocReply(s, e) \in rp /\ s # 0 => Owned(s, e, p) \in o /\ (id < s \/ e < id)
    BY <1>4 DEF ClaimsOK
  <2> QED BY <1>1, <1>2, <1>3, <1>5, <2>1, <2>2
<1>7. /\ \A s, e \in Nat : ReleaseMsg(s, e) \in rq2 /\ InHand(cl) => cl.id < s \/ e < cl.id
      /\ \A s, e, s3, e3 \in Nat : ReleaseMsg(s, e) \in rq2 /\ AllocReply(s3, e3) \in rp2
            => e < s3 \/ e3 < s
      /\ \A s, e \in Nat : AllocReply(s, e) \in rp2 /\ InHand(cl) => cl.id < s \/ e < cl.id
  BY <1>1, <1>2 DEF ClaimsOK
<1> QED BY <1>1, <1>2, <1>3, <1>6, <1>7 DEF ClaimsOK

(* The range x of process p in the tree is cut around id, which goes to q. *)
TreeCut(o, o2, x, id, p, q) ==
    /\ \A y \in o : y # x => y \in o2
    /\ x.start < id => Owned(x.start, id - 1, p) \in o2
    /\ id < x.end => Owned(id + 1, x.end, p) \in o2
    /\ \A y \in o2 : \/ y \in o /\ y # x
                     \/ y = Owned(id, id, q)
                     \/ x.start < id /\ y = Owned(x.start, id - 1, p)
                     \/ id < x.end /\ y = Owned(id + 1, x.end, p)

(* The tree agrees with a process after the cut that it asked for. *)
LEMMA MoveLive ==
    ASSUME NEW o \in SUBSET OwnerRec, NEW l \in Nat, TreeOK(o, l), NEW p \in IdProcs, NEW q \in IdProcs, q # p,
           NEW x \in o, x.owner = p, NEW id \in Nat, InIdRange(id, x), NEW o2,
           TreeCut(o, o2, x, id, p, q),
           NEW m \in MineRec, NEW th, NEW tg,
           NEW cl, NEW rq, NEW rp, cl.step = "id", cl.child = q, cl.id = id, ClaimsOK(o, p, cl, rq, rp),
           LiveOK(o, p, m, th, cl, rq, rp, l, tg), MoveMsg(id, q) \in rq,
           \A i \in Nat, c \in IdProcs : MoveMsg(i, c) \in rq => i = id /\ c = q,
           BackReply \notin rp,
           NEW rq2, rq2 = rq \ {MoveMsg(id, q)}, NEW rp2, rp2 = rp \cup {MoveReply}
    PROVE  LiveOK(o2, p, m, th, cl, rq2, rp2, l, tg)
<1>1. /\ \A i \in Nat, c \in IdProcs : MoveMsg(i, c) \notin rq2
      /\ \A s, e : ReleaseMsg(s, e) \in rq2 <=> ReleaseMsg(s, e) \in rq
  BY MsgFacts
<1>2. /\ BackReply \notin rp2 /\ InHand(cl)
      /\ \A s, e : AllocReply(s, e) \in rp2 <=> AllocReply(s, e) \in rp
  BY ReplyFacts DEF InHand
<1>3. RangesOK(m, cl, rq, rp, l) /\ LeaderOK(o, p, m, cl, rq, rp) /\ IdsOK(m, th, rp, tg)
  BY DEF LiveOK
<1>4. RangesOK(m, cl, rq2, rp2, l)
  BY <1>1, <1>2, <1>3 DEF RangesOK
<1>5. IdsOK(m, th, rp2, tg)
  BY <1>2, <1>3 DEF IdsOK
<1>6. /\ \A y \in o : y # x => y \in o2
      /\ x.start < id => Owned(x.start, id - 1, p) \in o2
      /\ id < x.end => Owned(id + 1, x.end, p) \in o2
  BY DEF TreeCut
<1>7. \A y \in o : y.start \in Nat /\ y.end \in Nat /\ (InIdRange(id, y) => y = x)
  BY DEF OwnerRec, TreeOK, Apart, InIdRange
<1>8. \A r \in Ranges(m) : r.start \in Nat /\ r.end \in Nat /\ r.start <= r.end /\ ~InIdRange(id, r)
  BY <1>2, <1>3, RangeFacts DEF RangesOK
<1>9. ASSUME NEW r \in Ranges(m) PROVE Covered(o2, p, r, rq2)
  <2>1. CASE Owned(r.start, r.end, p) \in o
    <3>1. ~InIdRange(id, Owned(r.start, r.end, p))
      BY <1>8, OwnedFacts DEF InIdRange
    <3> QED BY <1>6, <2>1, <3>1 DEF Covered
  <2>2. CASE Owned(r.start, r.end, p) \notin o
    <3>1. PICK i \in Nat, c \in IdProcs, y \in o :
             MoveMsg(i, c) \in rq /\ y.owner = p /\ InIdRange(i, y) /\ CutOf(r, y, i)
      BY <1>3, <2>2 DEF LeaderOK, Covered
    <3>2. i = id /\ y = x
      BY <1>7, <3>1
    <3>3. CASE r.start = x.start /\ r.end = id - 1
      <4>1. x.start < id
        BY <1>7, <1>8, <3>3
      <4> QED BY <1>6, <3>3, <4>1 DEF Covered
    <3>4. CASE r.start = id + 1 /\ r.end = x.end
      <4>1. id < x.end
        BY <1>7, <1>8, <3>4
      <4> QED BY <1>6, <3>4, <4>1 DEF Covered
    <3> QED BY <3>1, <3>2, <3>3, <3>4 DEF CutOf
  <2> QED BY <2>1, <2>2
<1>10. (x.start = id \/ HasRange(m, x.start, id - 1)) /\ (x.end = id \/ HasRange(m, id + 1, x.end))
  <2>1. Explained(x, m, cl, rq, rp)
    BY <1>3 DEF LeaderOK
  <2>2. ~HasRange(m, x.start, x.end)
    BY <1>8 DEF HasRange, InIdRange
  <2>3. ReleaseMsg(x.start, x.end) \notin rq
    BY <1>2, <1>7 DEF ClaimsOK, InIdRange
  <2>4. AllocReply(x.start, x.end) \notin rp
    BY <1>2, <1>7 DEF ClaimsOK, InIdRange
  <2>5. PICK i \in Nat, c \in IdProcs :
           /\ MoveMsg(i, c) \in rq /\ InIdRange(i, x)
           /\ x.start = i \/ HasRange(m, x.start, i - 1)
           /\ i = x.end \/ HasRange(m, i + 1, x.end)
    BY <2>1, <2>2, <2>3, <2>4 DEF Explained
  <2> QED BY <2>5
<1>11. ASSUME NEW y \in o2, y.owner = p PROVE Explained(y, m, cl, rq2, rp2)
  <2>1. CASE y \in o /\ y # x
    <3>1. Explained(y, m, cl, rq, rp)
      BY <1>3, <1>11, <2>1 DEF LeaderOK
    <3> QED BY <1>1, <1>2, <1>7, <2>1, <3>1 DEF Explained
  <2>2. CASE y = Owned(id, id, q)
    BY <1>11, <2>2, OwnedFacts
  <2>3. CASE x.start < id /\ y = Owned(x.start, id - 1, p)
    BY <1>7, <1>10, <2>3, OwnedFacts DEF Explained
  <2>4. CASE id < x.end /\ y = Owned(id + 1, x.end, p)
    BY <1>7, <1>10, <2>4, OwnedFacts DEF Explained
  <2>5. \/ y \in o /\ y # x
        \/ y = Owned(id, id, q)
        \/ x.start < id /\ y = Owned(x.start, id - 1, p)
        \/ id < x.end /\ y = Owned(id + 1, x.end, p)
    BY DEF TreeCut
  <2> QED BY <2>1, <2>2, <2>3, <2>4, <2>5
<1>12. LeaderOK(o2, p, m, cl, rq2, rp2)
  BY <1>9, <1>11 DEF LeaderOK
<1> QED BY <1>4, <1>5, <1>12 DEF LiveOK

(* change_id_owner moves an id back from a child that was not made. *)
LEMMA BackClaims ==
    ASSUME NEW o \in SUBSET OwnerRec, NEW p \in IdProcs, NEW c \in IdProcs, NEW id \in Nat, NEW o2,
           \A y : y \in o2 <=> (y \in o /\ y # Owned(id, id, c)) \/ y = Owned(id, id, p),
           NEW cl, NEW rq, NEW rp, cl.step = "back", cl.id = id, ClaimsOK(o, p, cl, rq, rp),
           \A i \in Nat, d \in IdProcs : MoveMsg(i, d) \notin rq, MoveReply \notin rp,
           NEW rq2, rq2 = rq \ {BackMsg(id, p)}, NEW rp2, rp2 = rp \cup {BackReply}
    PROVE  ClaimsOK(o2, p, cl, rq2, rp2)
<1>1. /\ \A i \in Nat, d \in IdProcs : MoveMsg(i, d) \notin rq2
      /\ BackMsg(cl.id, p) \notin rq2
      /\ \A s, e : ReleaseMsg(s, e) \in rq2 <=> ReleaseMsg(s, e) \in rq
  BY MsgFacts
<1>2. /\ MoveReply \notin rp2 /\ cl.step # "create"
      /\ \A s, e : AllocReply(s, e) \in rp2 <=> AllocReply(s, e) \in rp
  BY ReplyFacts
<1>3. InHand(cl) /\ cl.id = id /\ Owned(id, id, p) \in o2
  BY DEF InHand
<1>4. \A s, e \in Nat : id < s \/ e < id => Owned(s, e, p) # Owned(id, id, c)
  BY OwnedEqual
<1>5. /\ \A s, e \in Nat : ReleaseMsg(s, e) \in rq2 => Owned(s, e, p) \in o2
      /\ \A s, e \in Nat : AllocReply(s, e) \in rp2 /\ s # 0 => Owned(s, e, p) \in o2
  BY <1>1, <1>2, <1>3, <1>4 DEF ClaimsOK
<1>6. /\ \A s, e \in Nat : ReleaseMsg(s, e) \in rq2 /\ InHand(cl) => cl.id < s \/ e < cl.id
      /\ \A s, e, s3, e3 \in Nat : ReleaseMsg(s, e) \in rq2 /\ AllocReply(s3, e3) \in rp2
            => e < s3 \/ e3 < s
      /\ \A s, e \in Nat : AllocReply(s, e) \in rp2 /\ InHand(cl) => cl.id < s \/ e < cl.id
  BY <1>1, <1>2 DEF ClaimsOK
<1> QED BY <1>1, <1>2, <1>3, <1>5, <1>6 DEF ClaimsOK

(* The tree agrees with a process that got an id back. *)
LEMMA BackLive ==
    ASSUME NEW o \in SUBSET OwnerRec, NEW p \in IdProcs, NEW c \in IdProcs, c # p, NEW id \in Nat, NEW o2,
           \A y : y \in o2 <=> (y \in o /\ y # Owned(id, id, c)) \/ y = Owned(id, id, p),
           NEW m \in MineRec, NEW th, NEW l, NEW tg,
           NEW cl, NEW rq, NEW rp, cl.step = "back", cl.id = id, LiveOK(o, p, m, th, cl, rq, rp, l, tg),
           \A i \in Nat, d \in IdProcs : MoveMsg(i, d) \notin rq,
           NEW rq2, rq2 = rq \ {BackMsg(id, p)}, NEW rp2, rp2 = rp \cup {BackReply}
    PROVE  LiveOK(o2, p, m, th, cl, rq2, rp2, l, tg)
<1>1. /\ \A i \in Nat, d \in IdProcs : MoveMsg(i, d) \notin rq2
      /\ \A s, e : ReleaseMsg(s, e) \in rq2 <=> ReleaseMsg(s, e) \in rq
  BY MsgFacts
<1>2. /\ BackReply \in rp2
      /\ \A s, e : AllocReply(s, e) \in rp2 <=> AllocReply(s, e) \in rp
  BY ReplyFacts
<1>3. RangesOK(m, cl, rq, rp, l) /\ LeaderOK(o, p, m, cl, rq, rp) /\ IdsOK(m, th, rp, tg)
  BY DEF LiveOK
<1>4. RangesOK(m, cl, rq2, rp2, l)
  BY <1>1, <1>2, <1>3 DEF RangesOK
<1>5. IdsOK(m, th, rp2, tg)
  BY <1>2, <1>3 DEF IdsOK
<1>6. ASSUME NEW r \in Ranges(m) PROVE Covered(o2, p, r, rq2)
  <2>1. Owned(r.start, r.end, p) \in o
    BY <1>3 DEF LeaderOK, Covered
  <2>2. Owned(r.start, r.end, p) # Owned(id, id, c)
    BY OwnedEqual
  <2> QED BY <2>1, <2>2 DEF Covered
<1>7. ASSUME NEW y \in o2, y.owner = p PROVE Explained(y, m, cl, rq2, rp2)
  <2>1. CASE y \in o
    <3>1. Explained(y, m, cl, rq, rp)
      BY <1>3, <1>7, <2>1 DEF LeaderOK
    <3> QED BY <1>1, <1>2, <3>1 DEF Explained
  <2>2. CASE y = Owned(id, id, p)
    BY <1>2, <2>2, OwnedFacts DEF Explained
  <2> QED BY <2>1, <2>2
<1>8. LeaderOK(o2, p, m, cl, rq2, rp2)
  BY <1>6, <1>7 DEF LeaderOK
<1> QED BY <1>4, <1>5, <1>8 DEF LiveOK

-----------------------------------------------------------------------------
(* Steps that leave the ranges alone *)

(* A living process whose ranges and releases stay, whose moves stay, and  *)
(* whose id in hand stays or is passed on.                                 *)
LEMMA LiveSame ==
    ASSUME NEW o \in SUBSET OwnerRec, NEW l, TreeOK(o, l), NEW p, NEW m, NEW th, NEW tg,
           NEW cl, NEW cl2, NEW rq, NEW rq2, NEW rp, NEW rp2,
           LiveOK(o, p, m, th, cl, rq, rp, l, tg),
           InHand(cl2) => InHand(cl) /\ cl2.id = cl.id,
           \A s, e : ReleaseMsg(s, e) \in rq2 <=> ReleaseMsg(s, e) \in rq,
           \A i, c : MoveMsg(i, c) \in rq2 <=> MoveMsg(i, c) \in rq,
           \A s, e : AllocReply(s, e) \in rp2 => AllocReply(s, e) \in rp,
           \A s, e \in Nat : s # 0 /\ AllocReply(s, e) \in rp => AllocReply(s, e) \in rp2,
           BackReply \in rp => BackReply \in rp2 /\ cl2.id = cl.id
    PROVE  LiveOK(o, p, m, th, cl2, rq2, rp2, l, tg)
<1>1. RangesOK(m, cl, rq, rp, l) /\ LeaderOK(o, p, m, cl, rq, rp) /\ IdsOK(m, th, rp, tg)
  BY DEF LiveOK
<1>2. RangesOK(m, cl2, rq2, rp2, l)
  BY <1>1 DEF RangesOK
<1>3. IdsOK(m, th, rp2, tg)
  BY <1>1 DEF IdsOK
<1>4. \A r \in Ranges(m) : Covered(o, p, r, rq2)
  BY <1>1 DEF LeaderOK, Covered
<1>5. \A x \in o : x.start \in Nat /\ x.end \in Nat /\ x.start # 0
  BY DEF OwnerRec, TreeOK
<1>6. ASSUME NEW x \in o, x.owner = p PROVE Explained(x, m, cl2, rq2, rp2)
  <2>1. Explained(x, m, cl, rq, rp)
    BY <1>1, <1>6 DEF LeaderOK
  <2> QED BY <1>5, <2>1 DEF Explained
<1> QED BY <1>2, <1>3, <1>4, <1>6 DEF LiveOK, LeaderOK

(* What IdInv says of one process. *)
LEMMA ProcFacts ==
    ASSUME IdInv, NEW p \in IdProcs
    PROVE  /\ owners \in SUBSET OwnerRec /\ TreeOK(owners, lastId)
           /\ lastId \in 1 .. PID_MAX /\ lastId \in Nat
           /\ mine[p] \in MineRec /\ clone[p] \in CloneRec /\ clone[p].id \in Nat
           /\ idThreads[p] \in SUBSET (1 .. PID_MAX)
           /\ RequestsOK(idRequests[p]) /\ RepliesOK(idReplies[p])
           /\ ProtocolOK(p, idProc[p], mine[p], idThreads[p], idLock[p], clone[p], idRequests[p],
                         idReplies[p])
           /\ ClaimsOK(owners, p, clone[p], idRequests[p], idReplies[p])
           /\ idProc[p] = "up" => LiveOK(owners, p, mine[p], idThreads[p], clone[p], idRequests[p],
                                         idReplies[p], lastId, timesGiven)
<1>1. /\ owners \in SUBSET OwnerRec /\ lastId \in 1 .. PID_MAX
      /\ mine[p] \in MineRec /\ clone[p] \in CloneRec
      /\ idThreads[p] \in SUBSET (1 .. PID_MAX)
      /\ RequestsOK(idRequests[p]) /\ RepliesOK(idReplies[p])
  BY DEF IdInv, IdTypeOK
<1>2. clone[p].id \in Nat /\ lastId \in Nat
  BY <1>1, IdAssumption DEF CloneRec
<1>3. TreeOK(owners, lastId) /\ ProcInv(p)
  BY DEF IdInv
<1> QED BY <1>1, <1>2, <1>3 DEF ProcInv

(* Nothing of process q changes. *)
SameFor(q) ==
    /\ idProc'[q] = idProc[q] /\ mine'[q] = mine[q] /\ idThreads'[q] = idThreads[q]
    /\ idLock'[q] = idLock[q] /\ clone'[q] = clone[q]
    /\ idRequests'[q] = idRequests[q] /\ idReplies'[q] = idReplies[q]

(* A process keeps its part of the invariant when its entries in the tree  *)
(* and the ids in them stay.                                               *)
LEMMA OthersKeep ==
    ASSUME IdInv, NEW q \in IdProcs, SameFor(q), lastId' \in Nat, lastId <= lastId',
           idProc[q] = "unborn" \/ \A x \in owners : x.owner \in {q, clone[q].child} => x \in owners',
           idProc[q] = "up" => \A x : x.owner = q => (x \in owners <=> x \in owners'),
           \A id \in Nat, x \in owners : x.owner = q /\ InIdRange(id, x) => timesGiven'[id] = timesGiven[id]
    PROVE  ProcInv(q)'
<1> DEFINE m == mine[q]   th == idThreads[q]   cl == clone[q]   rq == idRequests[q]   rp == idReplies[q]
<1>1. /\ owners \in SUBSET OwnerRec /\ lastId \in Nat /\ m \in MineRec
      /\ th \in SUBSET (1 .. PID_MAX)
      /\ ProtocolOK(q, idProc[q], m, th, idLock[q], cl, rq, rp)
      /\ ClaimsOK(owners, q, cl, rq, rp)
      /\ idProc[q] = "up" => LiveOK(owners, q, m, th, cl, rq, rp, lastId, timesGiven)
  BY ProcFacts
<1> HIDE DEF m, th, cl, rq, rp
<1>2. ClaimsOK(owners', q, cl, rq, rp)
  <2>1. CASE idProc[q] = "unborn"
    <3>1. rq = {} /\ rp = {} /\ cl = NoClone
      BY <1>1, <2>1 DEF ProtocolOK
    <3>2. cl.step = "none"
      BY <3>1 DEF NoClone
    <3> QED BY <3>1, <3>2 DEF ClaimsOK, InHand
  <2>2. CASE idProc[q] # "unborn"
    <3>1. \A x \in owners : x.owner \in {q, cl.child} => x \in owners'
      BY <2>2 DEF cl
    <3> QED BY <1>1, <3>1, OtherClaims
  <2> QED BY <2>1, <2>2
<1>3. ASSUME idProc[q] = "up" PROVE LiveOK(owners', q, m, th, cl, rq, rp, lastId', timesGiven')
  <2>1. RangesOK(m, cl, rq, rp, lastId) /\ LeaderOK(owners, q, m, cl, rq, rp)
        /\ IdsOK(m, th, rp, timesGiven)
    BY <1>1, <1>3 DEF LiveOK
  <2>2. RangesOK(m, cl, rq, rp, lastId')
    <3>1. \A r \in Ranges(m) : r.end \in Nat
      BY <1>1, RangeFacts
    <3>2. \A r \in Ranges(m) : r.end <= lastId'
      BY <1>1, <2>1, <3>1 DEF RangesOK
    <3> QED BY <2>1, <3>2 DEF RangesOK
  <2>3. LeaderOK(owners', q, m, cl, rq, rp)
    BY <1>1, <1>3, <2>1, OtherLeader
  <2>4. IdsOK(m, th, rp, timesGiven')
    BY <1>1, <2>1, OtherIds
  <2> QED BY <2>2, <2>3, <2>4 DEF LiveOK
<1>4. /\ ProtocolOK(q, idProc'[q], mine'[q], idThreads'[q], idLock'[q], clone'[q], idRequests'[q],
                    idReplies'[q])
      /\ ClaimsOK(owners', q, clone'[q], idRequests'[q], idReplies'[q])
      /\ idProc'[q] = "up" => LiveOK(owners', q, mine'[q], idThreads'[q], clone'[q], idRequests'[q],
                                     idReplies'[q], lastId', timesGiven')
  BY <1>1, <1>2, <1>3 DEF SameFor, m, th, cl, rq, rp
<1> QED BY <1>4 DEF ProcInv

(* Nothing changes for a process when neither its state nor the tree does. *)
LEMMA QuietOthers ==
    ASSUME IdInv, NEW p \in IdProcs, owners' = owners, lastId' = lastId, timesGiven' = timesGiven,
           NEW q \in IdProcs, SameFor(q)
    PROVE  ProcInv(q)'
<1>1. lastId \in Nat
  BY ProcFacts
<1> QED BY <1>1, OthersKeep

(* One kind of answer is taken from the answers under way. *)
LEMMA ReceiveFacts ==
    ASSUME NEW rp, RepliesOK(rp), NEW to, NEW rp2, rp2 = {r \in rp : r.to # to}
    PROVE  /\ RepliesOK(rp2)
           /\ \A s, e : AllocReply(s, e) \in rp2 <=> AllocReply(s, e) \in rp /\ to # "alloc"
           /\ MoveReply \in rp2 <=> MoveReply \in rp /\ to # "move"
           /\ BackReply \in rp2 <=> BackReply \in rp /\ to # "back"
  BY ReplyFacts DEF RepliesOK

(* get_new_id returns an id for a new process. *)
LEMMA MovedIdKeeps ==
    ASSUME IdInv, NEW p \in IdProcs, MovedId(p)
    PROVE  IdInv'
<1> DEFINE cl == clone[p]   rq == idRequests[p]   rp == idReplies[p]
           cl2 == clone'[p]   rp2 == idReplies'[p]
<1>1. /\ owners \in SUBSET OwnerRec /\ TreeOK(owners, lastId) /\ cl \in CloneRec /\ RepliesOK(rp)
      /\ ProtocolOK(p, idProc[p], mine[p], idThreads[p], idLock[p], cl, rq, rp)
      /\ ClaimsOK(owners, p, cl, rq, rp)
      /\ LiveOK(owners, p, mine[p], idThreads[p], cl, rq, rp, lastId, timesGiven)
  BY ProcFacts DEF MovedId
<1>2. idProc[p] = "up" /\ MoveReply \in rp
  BY DEF MovedId, MoveReply
<1>3. /\ cl2 \in CloneRec /\ cl2.step = "create" /\ cl2.child = cl.child /\ cl2.id = cl.id
      /\ \A q \in IdProcs : q # p => clone'[q] = clone[q]
      /\ clone' \in [IdProcs -> CloneRec]
  BY DEF MovedId, IdInv, IdTypeOK, CloneRec
<1>4. rp2 = {r \in rp : r.to # "move"} /\ idLock'[p] = "free"
  BY DEF MovedId, IdReceive, IdInv, IdTypeOK
<1>5. /\ owners' = owners /\ lastId' = lastId /\ lastVmid' = lastVmid /\ idFatal' = idFatal
      /\ mine' = mine /\ idProc' = idProc
      /\ idThreads' = idThreads /\ mainId' = mainId /\ idRequests' = idRequests /\ timesGiven' = timesGiven
      /\ DOMAIN idReplies' = IdProcs
      /\ \A q \in IdProcs : q # p => idReplies'[q] = idReplies[q] /\ idLock'[q] = idLock[q]
      /\ idLock' \in [IdProcs -> {"free", "alloc", "move"}]
  BY DEF MovedId, IdReceive, IdInv, IdTypeOK, leaderVars
<1> HIDE DEF cl, rq, rp, cl2, rp2
<1>6. /\ RepliesOK(rp2) /\ MoveReply \notin rp2 /\ (BackReply \in rp2 <=> BackReply \in rp)
      /\ \A s, e : AllocReply(s, e) \in rp2 <=> AllocReply(s, e) \in rp
  BY <1>1, <1>4, ReceiveFacts
<1>7. cl.step = "id" /\ idLock[p] = "move" /\ BackReply \notin rp /\ InHand(cl) /\ InHand(cl2)
  BY <1>1, <1>2, <1>3 DEF ProtocolOK, InHand
<1>8. ProcInv(p)'
  <2>1. \A i \in Nat, q \in IdProcs : MoveMsg(i, q) \notin rq /\ BackMsg(i, q) \notin rq
    BY <1>1, <1>2, <1>7 DEF ProtocolOK
  <2>2. ProtocolOK(p, idProc[p], mine[p], idThreads[p], "free", cl2, rq, rp2)
    BY <1>1, <1>2, <1>3, <1>6, <1>7, <2>1 DEF ProtocolOK
  <2>3. ClaimsOK(owners, p, cl2, rq, rp2)
    BY <1>1, <1>2, <1>3, <1>6, <1>7, <2>1 DEF ClaimsOK
  <2>4. LiveOK(owners, p, mine[p], idThreads[p], cl2, rq, rp2, lastId, timesGiven)
    BY <1>1, <1>3, <1>6, <1>7, LiveSame
  <2> QED BY <1>4, <1>5, <2>2, <2>3, <2>4 DEF ProcInv, cl2, rp2, rq
<1>9. \A q \in IdProcs : q # p => ProcInv(q)'
  BY <1>3, <1>5, QuietOthers DEF SameFor
<1>10. IdTypeOK'
  <2>1. \A q \in IdProcs : RequestsOK(idRequests'[q]) /\ RepliesOK(idReplies'[q])
    BY <1>5, <1>6 DEF IdInv, IdTypeOK, rp2
  <2> QED BY <1>3, <1>5, <2>1 DEF IdInv, IdTypeOK
<1>11. GlobalInv'
  <2>1. \A q \in IdProcs : /\ clone'[q].child = clone[q].child /\ clone'[q].id = clone[q].id
                            /\ (clone'[q].step # "none" <=> clone[q].step # "none")
                            /\ (InHand(clone'[q]) <=> InHand(clone[q]))
    BY <1>3, <1>7 DEF cl, cl2
  <2> QED BY <1>5, <2>1 DEF IdInv, GlobalInv
<1> QED BY <1>1, <1>5, <1>8, <1>9, <1>10, <1>11 DEF IdInv

(* A process could not be made: its id is asked back. *)
LEMMA CloneFailsKeeps ==
    ASSUME IdInv, NEW p \in IdProcs, CloneFails(p)
    PROVE  IdInv'
<1> DEFINE cl == clone[p]   rq == idRequests[p]   rp == idReplies[p]
           cl2 == clone'[p]   rq2 == idRequests'[p]
<1>1. /\ owners \in SUBSET OwnerRec /\ TreeOK(owners, lastId) /\ cl \in CloneRec /\ RequestsOK(rq)
      /\ ProtocolOK(p, idProc[p], mine[p], idThreads[p], idLock[p], cl, rq, rp)
      /\ ClaimsOK(owners, p, cl, rq, rp)
      /\ LiveOK(owners, p, mine[p], idThreads[p], cl, rq, rp, lastId, timesGiven)
      /\ cl.id \in Nat
  BY ProcFacts DEF CloneFails
<1>2. idProc[p] = "up" /\ cl.step = "create"
  BY DEF CloneFails
<1>3. /\ cl2 \in CloneRec /\ cl2.step = "back" /\ cl2.child = cl.child /\ cl2.id = cl.id
      /\ \A q \in IdProcs : q # p => clone'[q] = clone[q]
      /\ clone' \in [IdProcs -> CloneRec]
  BY DEF CloneFails, IdInv, IdTypeOK, CloneRec
<1>4. rq2 = rq \cup {BackMsg(cl.id, p)}
  BY DEF CloneFails, IdSend, IdInv, IdTypeOK, BackMsg
<1>5. /\ owners' = owners /\ lastId' = lastId /\ lastVmid' = lastVmid /\ idFatal' = idFatal
      /\ mine' = mine /\ idProc' = idProc /\ idLock' = idLock
      /\ idThreads' = idThreads /\ mainId' = mainId /\ idReplies' = idReplies /\ timesGiven' = timesGiven
      /\ DOMAIN idRequests' = IdProcs
      /\ \A q \in IdProcs : q # p => idRequests'[q] = idRequests[q]
  BY DEF CloneFails, IdSend, IdInv, IdTypeOK, leaderVars
<1> HIDE DEF cl, rq, rp, cl2, rq2
<1>6. /\ \A s, e : ReleaseMsg(s, e) \in rq2 <=> ReleaseMsg(s, e) \in rq
      /\ \A i, q : MoveMsg(i, q) \in rq2 <=> MoveMsg(i, q) \in rq
      /\ \A i, q : BackMsg(i, q) \in rq2 => BackMsg(i, q) \in rq \/ (i = cl.id /\ q = p)
      /\ AllocMsg \in rq2 <=> AllocMsg \in rq
  BY <1>4, MsgFacts
<1>7. InHand(cl) /\ InHand(cl2) /\ BackReply \notin rp /\ idLock[p] # "move" /\ MoveReply \notin rp
  BY <1>1, <1>2, <1>3 DEF ProtocolOK, InHand
<1>8. ProcInv(p)'
  <2>1. \A i \in Nat, q \in IdProcs : MoveMsg(i, q) \notin rq /\ BackMsg(i, q) \notin rq
    BY <1>1, <1>2, <1>7 DEF ProtocolOK
  <2>2. ProtocolOK(p, idProc[p], mine[p], idThreads[p], idLock[p], cl2, rq2, rp)
    BY <1>1, <1>2, <1>3, <1>6, <1>7, <2>1 DEF ProtocolOK
  <2>3. ClaimsOK(owners, p, cl2, rq2, rp)
    BY <1>1, <1>2, <1>3, <1>6, <1>7, <2>1 DEF ClaimsOK
  <2>4. LiveOK(owners, p, mine[p], idThreads[p], cl2, rq2, rp, lastId, timesGiven)
    BY <1>1, <1>3, <1>6, <1>7, LiveSame
  <2> QED BY <1>5, <2>2, <2>3, <2>4 DEF ProcInv, cl2, rp, rq2
<1>9. \A q \in IdProcs : q # p => ProcInv(q)'
  BY <1>3, <1>5, QuietOthers DEF SameFor
<1>10. IdTypeOK'
  <2>1. RequestsOK(rq2)
    BY <1>1, <1>4 DEF RequestsOK
  <2>2. \A q \in IdProcs : RequestsOK(idRequests'[q]) /\ RepliesOK(idReplies'[q])
    BY <1>5, <2>1 DEF IdInv, IdTypeOK, rq2
  <2> QED BY <1>3, <1>5, <2>2 DEF IdInv, IdTypeOK
<1>11. GlobalInv'
  <2>1. \A q \in IdProcs : /\ clone'[q].child = clone[q].child /\ clone'[q].id = clone[q].id
                            /\ (clone'[q].step # "none" <=> clone[q].step # "none")
                            /\ (InHand(clone'[q]) <=> InHand(clone[q]))
    BY <1>2, <1>3, <1>7 DEF cl, cl2
  <2> QED BY <1>5, <2>1 DEF IdInv, GlobalInv
<1> QED BY <1>1, <1>5, <1>8, <1>9, <1>10, <1>11 DEF IdInv

(* A process that makes no other process. *)
LEMMA NoCloneFacts ==
    /\ NoClone \in CloneRec /\ NoClone.step = "none" /\ NoClone.child = NoProc /\ NoClone.id = 0
    /\ ~InHand(NoClone) /\ NoProc \notin IdProcs /\ IdProcs \subseteq Int
<1>1. NoClone \in CloneRec /\ NoClone.step = "none" /\ NoClone.child = NoProc /\ NoClone.id = 0
  BY DEF NoClone, CloneRec
<1>2. NoProc \notin IdProcs /\ IdProcs \subseteq Int
  <2>1. Cardinality(IdProcs) \in Nat /\ IdProcs = 1 .. Cardinality(IdProcs)
    BY IdAssumption, FS_CardinalityType
  <2> QED BY <2>1 DEF NoProc
<1> QED BY <1>1, <1>2 DEF InHand

(* The id is back, and released. *)
LEMMA IdBackKeeps ==
    ASSUME IdInv, NEW p \in IdProcs, IdBack(p)
    PROVE  IdInv'
<1> DEFINE cl == clone[p]   rq == idRequests[p]   rp == idReplies[p]   m == mine[p]
           rp2 == idReplies'[p]   rq2 == idRequests'[p]
<1>1. /\ owners \in SUBSET OwnerRec /\ TreeOK(owners, lastId) /\ cl \in CloneRec
      /\ RequestsOK(rq) /\ RepliesOK(rp)
      /\ ProtocolOK(p, idProc[p], m, idThreads[p], idLock[p], cl, rq, rp)
      /\ ClaimsOK(owners, p, cl, rq, rp)
      /\ LiveOK(owners, p, m, idThreads[p], cl, rq, rp, lastId, timesGiven)
      /\ cl.id \in Nat /\ m \in MineRec
  BY ProcFacts DEF IdBack
<1>2. idProc[p] = "up" /\ BackReply \in rp
  BY DEF IdBack, BackReply
<1>3. /\ clone'[p] = NoClone
      /\ \A q \in IdProcs : q # p => clone'[q] = clone[q]
      /\ clone' \in [IdProcs -> CloneRec]
  BY NoCloneFacts DEF IdBack, IdInv, IdTypeOK
<1>4. rq2 = rq \cup {ReleaseMsg(cl.id, cl.id)} /\ rp2 = {r \in rp : r.to # "back"}
  BY DEF IdBack, IdSend, IdReceive, IdInv, IdTypeOK, ReleaseMsg
<1>5. /\ owners' = owners /\ lastId' = lastId /\ lastVmid' = lastVmid /\ idFatal' = idFatal
      /\ mine' = mine /\ idProc' = idProc /\ idLock' = idLock
      /\ idThreads' = idThreads /\ mainId' = mainId /\ timesGiven' = timesGiven
      /\ DOMAIN idRequests' = IdProcs /\ DOMAIN idReplies' = IdProcs
      /\ \A q \in IdProcs : q # p => idRequests'[q] = idRequests[q] /\ idReplies'[q] = idReplies[q]
  BY DEF IdBack, IdSend, IdReceive, IdInv, IdTypeOK, leaderVars
<1> HIDE DEF cl, rq, rp, rp2, rq2, m
<1>6. /\ \A s, e : ReleaseMsg(s, e) \in rq2 <=> ReleaseMsg(s, e) \in rq \/ (s = cl.id /\ e = cl.id)
      /\ \A i, q : MoveMsg(i, q) \in rq2 <=> MoveMsg(i, q) \in rq
      /\ \A i, q : BackMsg(i, q) \in rq2 <=> BackMsg(i, q) \in rq
      /\ AllocMsg \in rq2 <=> AllocMsg \in rq
  BY <1>4, MsgFacts
<1>7. /\ RepliesOK(rp2) /\ BackReply \notin rp2 /\ (MoveReply \in rp2 <=> MoveReply \in rp)
      /\ \A s, e : AllocReply(s, e) \in rp2 <=> AllocReply(s, e) \in rp
  BY <1>1, <1>4, ReceiveFacts
<1>8. cl.step = "back" /\ InHand(cl) /\ idLock[p] # "move" /\ MoveReply \notin rp
  BY <1>1, <1>2 DEF ProtocolOK, InHand
<1>9. \A i \in Nat, q \in IdProcs : MoveMsg(i, q) \notin rq /\ BackMsg(i, q) \notin rq
  BY <1>1, <1>2, <1>8 DEF ProtocolOK
<1>10. Owned(cl.id, cl.id, p) \in owners
  BY <1>1, <1>2 DEF ClaimsOK
<1>11. ProcInv(p)'
  <2>1. ProtocolOK(p, idProc[p], m, idThreads[p], idLock[p], NoClone, rq2, rp2)
    BY <1>1, <1>2, <1>6, <1>7, <1>8, <1>9, NoCloneFacts DEF ProtocolOK
  <2>2. ClaimsOK(owners, p, NoClone, rq2, rp2)
    <3>1. \A s, e \in Nat : ReleaseMsg(s, e) \in rq2 => Owned(s, e, p) \in owners
      BY <1>1, <1>6, <1>10 DEF ClaimsOK
    <3>2. \A s, e, s2, e2 \in Nat : ReleaseMsg(s, e) \in rq2 /\ AllocReply(s2, e2) \in rp2
             => e < s2 \/ e2 < s
      BY <1>1, <1>6, <1>7, <1>8 DEF ClaimsOK
    <3>3. BackMsg(NoClone.id, p) \notin rq2
      BY <1>6, <1>9, NoCloneFacts
    <3>4. \A s, e \in Nat : AllocReply(s, e) \in rp2 /\ s # 0 => Owned(s, e, p) \in owners
      BY <1>1, <1>7 DEF ClaimsOK
    <3> QED BY <1>6, <1>7, <1>8, <1>9, <3>1, <3>2, <3>3, <3>4, NoCloneFacts DEF ClaimsOK
  <2>3. LiveOK(owners, p, m, idThreads[p], NoClone, rq2, rp2, lastId, timesGiven)
    <3>1. RangesOK(m, cl, rq, rp, lastId) /\ LeaderOK(owners, p, m, cl, rq, rp)
          /\ IdsOK(m, idThreads[p], rp, timesGiven)
      BY <1>1 DEF LiveOK
    <3>2. \A r \in Ranges(m) : r.start \in Nat /\ r.end \in Nat /\ (r.end < cl.id \/ cl.id < r.start)
      BY <1>1, <1>8, <3>1, RangeFacts DEF RangesOK, InIdRange
    <3>3. RangesOK(m, NoClone, rq2, rp2, lastId)
      BY <1>6, <1>7, <3>1, <3>2, NoCloneFacts DEF RangesOK
    <3>4. \A r \in Ranges(m) : Covered(owners, p, r, rq2)
      BY <1>6, <3>1 DEF LeaderOK, Covered
    <3>5. ASSUME NEW x \in owners, x.owner = p PROVE Explained(x, m, NoClone, rq2, rp2)
      <4>1. Explained(x, m, cl, rq, rp)
        BY <3>1, <3>5 DEF LeaderOK
      <4> QED BY <1>6, <1>7, <4>1 DEF Explained
    <3>6. IdsOK(m, idThreads[p], rp2, timesGiven)
      BY <1>7, <3>1 DEF IdsOK
    <3> QED BY <3>3, <3>4, <3>5, <3>6 DEF LiveOK, LeaderOK
  <2> QED BY <1>3, <1>5, <2>1, <2>2, <2>3 DEF ProcInv, rp2, rq2, m
<1>12. \A q \in IdProcs : q # p => ProcInv(q)'
  BY <1>3, <1>5, QuietOthers DEF SameFor
<1>13. IdTypeOK'
  <2>1. RequestsOK(rq2)
    BY <1>1, <1>4 DEF RequestsOK
  <2>2. \A q \in IdProcs : RequestsOK(idRequests'[q]) /\ RepliesOK(idReplies'[q])
    BY <1>5, <1>7, <2>1 DEF IdInv, IdTypeOK, rq2, rp2
  <2> QED BY <1>3, <1>5, <2>2 DEF IdInv, IdTypeOK
<1>14. GlobalInv'
  <2>1. GlobalInv /\ clone[p].step # "none"
    BY <1>8 DEF IdInv, cl
  <2>2. /\ \A q \in IdProcs : clone'[q].step # "none" => q # p /\ clone'[q] = clone[q]
        /\ \A q \in IdProcs : InHand(clone'[q]) => q # p /\ clone'[q] = clone[q]
    BY <1>3, NoCloneFacts
  <2>3. \A q, r \in IdProcs : clone'[q].step # "none" /\ clone'[r].child = clone'[q].child => r = q
    <3>1. \A q \in IdProcs : clone[q].step # "none" => clone[q].child \in IdProcs
      BY <2>1 DEF GlobalInv
    <3> QED BY <1>3, <2>1, <2>2, <3>1, NoCloneFacts DEF GlobalInv
  <2>4. ASSUME NEW x \in owners, idProc[x.owner] = "unborn"
        PROVE  \E q \in IdProcs : /\ clone'[q].step # "none" /\ clone'[q].child = x.owner
                                  /\ x.start = clone'[q].id /\ x.end = clone'[q].id
    <3>1. PICK q \in IdProcs : /\ clone[q].step # "none" /\ clone[q].child = x.owner
                               /\ x.start = clone[q].id /\ x.end = clone[q].id
      BY <2>1, <2>4 DEF GlobalInv
    <3>2. q # p
      <4>1. SUFFICES ASSUME q = p PROVE FALSE
        OBVIOUS
      <4>2. x.start = cl.id /\ x.end = cl.id
        BY <3>1, <4>1 DEF cl
      <4>3. x = Owned(cl.id, cl.id, p)
        BY <1>1, <1>10, <4>2, OwnedFacts DEF TreeOK, Apart
      <4> QED BY <1>2, <2>4, <4>3, OwnedFacts
    <3> QED BY <1>3, <3>1, <3>2
  <2> QED BY <1>5, <2>1, <2>2, <2>3, <2>4 DEF GlobalInv
<1> QED BY <1>1, <1>5, <1>11, <1>12, <1>13, <1>14 DEF IdInv

(* A process is killed. *)
LEMMA IdKilledKeeps ==
    ASSUME IdInv, NEW p \in IdProcs, IdKilled(p)
    PROVE  IdInv'
<1> DEFINE cl == clone[p]   rq == idRequests[p]   rp == idReplies[p]   rq2 == idRequests'[p]
<1>1. /\ RequestsOK(rq)
      /\ ProtocolOK(p, idProc[p], mine[p], idThreads[p], idLock[p], cl, rq, rp)
      /\ ClaimsOK(owners, p, cl, rq, rp) /\ TreeOK(owners, lastId)
  BY ProcFacts
<1>2. idProc[p] = "up"
  BY DEF IdKilled
<1>3. /\ idProc'[p] = "gone" /\ idThreads'[p] = {} /\ rq2 \subseteq rq
      /\ idProc' \in [IdProcs -> {"unborn", "up", "gone"}]
      /\ idThreads' \in [IdProcs -> SUBSET (1 .. PID_MAX)]
      /\ \A q \in IdProcs : q # p => idProc'[q] = idProc[q] /\ idThreads'[q] = idThreads[q]
                                     /\ idRequests'[q] = idRequests[q]
      /\ DOMAIN idRequests' = IdProcs
  BY DEF IdKilled, IdInv, IdTypeOK
<1>4. /\ owners' = owners /\ lastId' = lastId /\ lastVmid' = lastVmid /\ idFatal' = idFatal
      /\ mine' = mine /\ clone' = clone /\ idLock' = idLock
      /\ mainId' = mainId /\ idReplies' = idReplies /\ timesGiven' = timesGiven
  BY DEF IdKilled, leaderVars
<1> HIDE DEF cl, rq, rp, rq2
<1>5. ProcInv(p)'
  <2>1. ProtocolOK(p, "gone", mine[p], {}, idLock[p], cl, rq2, rp)
    BY <1>1, <1>3 DEF ProtocolOK
  <2>2. ClaimsOK(owners, p, cl, rq2, rp)
    BY <1>1, <1>3 DEF ClaimsOK
  <2> QED BY <1>3, <1>4, <2>1, <2>2 DEF ProcInv, cl, rp, rq2
<1>6. \A q \in IdProcs : q # p => ProcInv(q)'
  BY <1>3, <1>4, QuietOthers DEF SameFor
<1>7. IdTypeOK'
  <2>1. RequestsOK(rq2)
    BY <1>1, <1>3 DEF RequestsOK
  <2>2. \A q \in IdProcs : RequestsOK(idRequests'[q]) /\ RepliesOK(idReplies'[q])
    BY <1>3, <1>4, <2>1 DEF IdInv, IdTypeOK, rq2
  <2> QED BY <1>3, <1>4, <2>2 DEF IdInv, IdTypeOK
<1>8. GlobalInv'
  <2>1. \A q \in IdProcs : idProc'[q] = "unborn" <=> idProc[q] = "unborn"
    BY <1>2, <1>3
  <2>2. \A x \in owners : x.owner \in IdProcs
    BY DEF IdInv, IdTypeOK, OwnerRec
  <2> QED BY <1>4, <2>1, <2>2 DEF IdInv, GlobalInv
<1> QED BY <1>1, <1>4, <1>5, <1>6, <1>7, <1>8 DEF IdInv

(* A process begins, with its only id. *)
LEMMA CloneSucceedsKeeps ==
    ASSUME IdInv, NEW p \in IdProcs, CloneSucceeds(p)
    PROVE  IdInv'
<1> DEFINE cl == clone[p]   rq == idRequests[p]   rp == idReplies[p]   id == cl.id
           r == IdRange(id, id, 1)   m2 == FreshRanges(NoRange, {r}, 0)
<1>1. /\ owners \in SUBSET OwnerRec /\ TreeOK(owners, lastId) /\ cl \in CloneRec
      /\ lastId \in Nat
      /\ ProtocolOK(p, idProc[p], mine[p], idThreads[p], idLock[p], cl, rq, rp)
      /\ ClaimsOK(owners, p, cl, rq, rp)
      /\ LiveOK(owners, p, mine[p], idThreads[p], cl, rq, rp, lastId, timesGiven)
      /\ id \in Nat
  BY ProcFacts DEF CloneSucceeds
<1>2. idProc[p] = "up" /\ cl.step = "create"
  BY DEF CloneSucceeds
<1> PICK c : c = clone[p].child
  OBVIOUS
<1>3. GlobalInv /\ c \in IdProcs /\ c <= lastVmid /\ idProc[c] = "unborn" /\ c # p
      /\ \A q \in IdProcs : clone[q].child = c => q = p
  BY <1>2 DEF IdInv, GlobalInv
<1>4. InHand(cl) /\ id \in 1 .. PID_MAX /\ timesGiven[id] = 1 /\ BackReply \notin rp /\ MoveReply \notin rp
  BY <1>1, <1>2, <1>3 DEF ProtocolOK, InHand, GlobalInv
<1>5. r.start = id /\ r.end = id /\ r.taken = 1 /\ r \in RangeRec
  BY <1>1, NewRangeFacts
<1>6. m2.last = NoRange /\ m2.used = {r} /\ m2.lastUsed = 0 /\ m2 \in MineRec
  <2>1. NoRange \in RangeRec
    BY DEF NoRange, RangeRec
  <2> QED BY <1>5, <2>1, MineFacts
<1>7. /\ idProc'[c] = "up" /\ mine'[c] = m2 /\ idThreads'[c] = {id} /\ clone'[p] = NoClone
      /\ idProc' \in [IdProcs -> {"unborn", "up", "gone"}] /\ mine' \in [IdProcs -> MineRec]
      /\ idThreads' \in [IdProcs -> SUBSET (1 .. PID_MAX)] /\ clone' \in [IdProcs -> CloneRec]
      /\ DOMAIN mainId' = IdProcs
      /\ \A q \in IdProcs : q # p => clone'[q] = clone[q]
      /\ \A q \in IdProcs : q # c => /\ idProc'[q] = idProc[q] /\ mine'[q] = mine[q]
                                      /\ idThreads'[q] = idThreads[q]
  BY <1>3, <1>4, <1>6, NoCloneFacts DEF CloneSucceeds, IdInv, IdTypeOK
<1>8. /\ owners' = owners /\ lastId' = lastId /\ lastVmid' = lastVmid /\ idFatal' = idFatal
      /\ idLock' = idLock /\ idRequests' = idRequests
      /\ idReplies' = idReplies /\ timesGiven' = timesGiven
  BY DEF CloneSucceeds, leaderVars
<1> HIDE DEF cl, rq, rp, id, r, m2
<1>9. ProcInv(p)'
  <2>1. \A i \in Nat, q \in IdProcs : MoveMsg(i, q) \notin rq /\ BackMsg(i, q) \notin rq
    BY <1>1, <1>2 DEF ProtocolOK
  <2>2. ProtocolOK(p, idProc[p], mine[p], idThreads[p], idLock[p], NoClone, rq, rp)
    BY <1>1, <1>2, <1>4, <2>1, NoCloneFacts DEF ProtocolOK
  <2>3. ClaimsOK(owners, p, NoClone, rq, rp)
    <3>1. BackMsg(NoClone.id, p) \notin rq
      BY <2>1, NoCloneFacts
    <3> QED BY <1>1, <1>4, <2>1, <3>1, NoCloneFacts DEF ClaimsOK
  <2>4. LiveOK(owners, p, mine[p], idThreads[p], NoClone, rq, rp, lastId, timesGiven)
    BY <1>1, <1>4, NoCloneFacts, LiveSame
  <2> QED BY <1>3, <1>7, <1>8, <2>2, <2>3, <2>4 DEF ProcInv, rp, rq
<1>10. ProcInv(c)'
  <2>1. clone[c] = NoClone /\ idRequests[c] = {} /\ idReplies[c] = {} /\ idLock[c] = "free"
    BY <1>3, ProcFacts DEF ProtocolOK
  <2>2. Ranges(m2) = {r}
    <3>1. r # NoRange
      BY <1>4, <1>5 DEF NoRange
    <3> QED BY <1>6 DEF Ranges
  <2>3. Owned(id, id, c) \in owners /\ 1 <= id /\ id <= lastId
    <3>1. Owned(id, id, c) \in owners
      BY <1>1, <1>2 DEF ClaimsOK, id, cl
    <3>2. Owned(id, id, c).start = id /\ Owned(id, id, c).end = id
      BY OwnedFacts
    <3> QED BY <3>1, <3>2, <1>1 DEF TreeOK
  <2>4. ProtocolOK(c, "up", m2, {id}, "free", NoClone, {}, {})
    BY NoCloneFacts DEF ProtocolOK
  <2>5. ClaimsOK(owners, c, NoClone, {}, {})
    BY NoCloneFacts DEF ClaimsOK
  <2>6. RangesOK(m2, NoClone, {}, {}, lastId)
    <3>1. m2.last \notin m2.used
      BY <1>4, <1>5, <1>6 DEF NoRange
    <3>2. \A t \in Ranges(m2) : t = r /\ 1 <= t.start /\ t.start <= t.end /\ t.end <= lastId
      BY <1>1, <1>5, <2>2, <2>3
    <3> QED BY <3>1, <3>2, NoCloneFacts DEF RangesOK
  <2>7. LeaderOK(owners, c, m2, NoClone, {}, {})
    <3>1. Covered(owners, c, r, {})
      BY <1>5, <2>3 DEF Covered
    <3>2. ASSUME NEW x \in owners, x.owner = c PROVE Explained(x, m2, NoClone, {}, {})
      <4>1. PICK q \in IdProcs : /\ clone[q].step # "none" /\ clone[q].child = x.owner
                                 /\ x.start = clone[q].id /\ x.end = clone[q].id
        BY <1>3, <3>2 DEF GlobalInv
      <4>2. q = p
        BY <1>3, <3>2, <4>1
      <4>3. x.start = id /\ x.end = id
        BY <4>1, <4>2 DEF id, cl
      <4> QED BY <1>5, <2>2, <4>3 DEF Explained, HasRange
    <3> QED BY <2>2, <3>1, <3>2 DEF LeaderOK
  <2>8. IdsOK(m2, {id}, {}, timesGiven)
    <3>1. ThreadsIn({id}, r) = {id}
      BY <1>1, <1>5 DEF ThreadsIn, InIdRange
    <3>2. IsFiniteSet({id}) /\ Cardinality({id}) = 1
      BY FS_Singleton
    <3>3. InIdRange(id, r)
      BY <1>1, <1>5 DEF InIdRange
    <3> QED BY <1>4, <1>5, <1>6, <2>2, <3>1, <3>2, <3>3 DEF IdsOK
  <2>9. LiveOK(owners, c, m2, {id}, NoClone, {}, {}, lastId, timesGiven)
    BY <2>6, <2>7, <2>8 DEF LiveOK
  <2>10. /\ idProc'[c] = "up" /\ mine'[c] = m2 /\ idThreads'[c] = {id} /\ clone'[c] = NoClone
         /\ idRequests'[c] = {} /\ idReplies'[c] = {} /\ idLock'[c] = "free"
    BY <1>3, <1>7, <1>8, <2>1
  <2> QED BY <1>8, <2>4, <2>5, <2>9, <2>10 DEF ProcInv
<1>11. \A q \in IdProcs : q # p /\ q # c => ProcInv(q)'
  BY <1>7, <1>8, QuietOthers DEF SameFor
<1>12. IdTypeOK'
  <2>1. \A q \in IdProcs : RequestsOK(idRequests'[q]) /\ RepliesOK(idReplies'[q])
    BY <1>8 DEF IdInv, IdTypeOK
  <2> QED BY <1>7, <1>8, <2>1 DEF IdInv, IdTypeOK
<1>13. GlobalInv'
  <2>1. \A q \in IdProcs : clone'[q].step # "none" => q # p /\ clone'[q] = clone[q] /\ clone[q].child # c
    BY <1>3, <1>7, NoCloneFacts
  <2>2. \A q \in IdProcs : InHand(clone'[q]) => clone'[q] = clone[q]
    BY <1>7, NoCloneFacts
  <2>3. \A q, s \in IdProcs : clone'[q].step # "none" /\ clone'[s].child = clone'[q].child => s = q
    <3>1. \A q \in IdProcs : clone[q].step # "none" => clone[q].child \in IdProcs
      BY <1>3 DEF GlobalInv
    <3> QED BY <1>3, <1>7, <2>1, <3>1, NoCloneFacts DEF GlobalInv
  <2>4. \A q \in IdProcs : clone'[q].step # "none" =>
           /\ clone'[q].child \in IdProcs /\ clone'[q].child <= lastVmid
           /\ idProc'[clone'[q].child] = "unborn"
    BY <1>3, <1>7, <2>1 DEF GlobalInv
  <2>5. \A q \in IdProcs : lastVmid < q => idProc'[q] = "unborn"
    <3>1. IdProcs \subseteq Int
      BY NoCloneFacts
    <3>2. lastVmid \in Int /\ c \in Int
      BY <1>3, <3>1 DEF IdInv, IdTypeOK
    <3> QED BY <1>3, <1>7, <3>1, <3>2 DEF GlobalInv
  <2>6. ASSUME NEW x \in owners, idProc'[x.owner] = "unborn"
        PROVE  \E q \in IdProcs : /\ clone'[q].step # "none" /\ clone'[q].child = x.owner
                                  /\ x.start = clone'[q].id /\ x.end = clone'[q].id
    <3>1. x.owner \in IdProcs /\ x.owner # c
      BY <1>1, <1>7, <2>6 DEF OwnerRec
    <3>2. idProc[x.owner] = "unborn"
      BY <1>7, <2>6, <3>1
    <3>3. PICK q \in IdProcs : /\ clone[q].step # "none" /\ clone[q].child = x.owner
                               /\ x.start = clone[q].id /\ x.end = clone[q].id
      BY <1>3, <3>2 DEF GlobalInv
    <3>4. q # p
      BY <3>1, <3>3 DEF cl
    <3> QED BY <1>7, <3>3, <3>4
  <2>7. /\ \A i \in 1 .. PID_MAX : lastId < i => timesGiven[i] = 0
        /\ \A q \in IdProcs : InHand(clone'[q]) => timesGiven[clone'[q].id] = 1
    BY <1>3, <2>2 DEF GlobalInv
  <2>8. \A q \in IdProcs : clone'[q].step # "none" =>
           \A s \in IdProcs : clone'[s].child = clone'[q].child => s = q
    BY <2>3
  <2> QED BY <1>8, <2>4, <2>5, <2>6, <2>7, <2>8 DEF GlobalInv
<1> QED BY <1>1, <1>8, <1>9, <1>10, <1>11, <1>12, <1>13 DEF IdInv

(* Only requests to release a range are added. *)
OnlyReleases(rq, rq2) ==
    /\ \A i, q : MoveMsg(i, q) \in rq2 <=> MoveMsg(i, q) \in rq
    /\ \A i, q : BackMsg(i, q) \in rq2 <=> BackMsg(i, q) \in rq
    /\ AllocMsg \in rq2 <=> AllocMsg \in rq

(* release_id knows the id, and keeps the ranges in order. *)
LEMMA ReleaseIdKeeps ==
    ASSUME IdInv, NEW p \in IdProcs, idProc[p] = "up", idLock[p] = "free",
           NEW id \in idThreads[p], ReleaseId(p, id)
    PROVE  /\ idFatal' = idFatal /\ mine' \in [IdProcs -> MineRec] /\ DOMAIN idRequests' = IdProcs
           /\ \A q \in IdProcs : q # p => mine'[q] = mine[q] /\ idRequests'[q] = idRequests[q]
           /\ RequestsOK(idRequests'[p]) /\ OnlyReleases(idRequests[p], idRequests'[p])
           /\ ClaimsOK(owners, p, clone[p], idRequests'[p], idReplies[p])
           /\ LiveOK(owners, p, mine'[p], idThreads[p] \ {id}, clone[p], idRequests'[p], idReplies[p],
                     lastId, timesGiven)
<1> DEFINE m == mine[p]   th == idThreads[p]   cl == clone[p]   rq == idRequests[p]   rp == idReplies[p]
           m2 == mine'[p]   rq2 == idRequests'[p]
<1>1. /\ owners \in SUBSET OwnerRec /\ lastId \in Nat /\ m \in MineRec
      /\ th \in SUBSET (1 .. PID_MAX) /\ cl.id \in Nat
      /\ RequestsOK(rq) /\ ProtocolOK(p, idProc[p], m, th, idLock[p], cl, rq, rp)
      /\ ClaimsOK(owners, p, cl, rq, rp)
      /\ LiveOK(owners, p, m, th, cl, rq, rp, lastId, timesGiven)
  BY ProcFacts
<1>2. /\ mine \in [IdProcs -> MineRec] /\ DOMAIN idRequests = IdProcs
  BY DEF IdInv, IdTypeOK
<1>3. UsedAround(p, id) = {r \in m.used : InIdRange(id, r)}
  BY DEF UsedAround
<1>4. RangesOK(m, cl, rq, rp, lastId) /\ IdsOK(m, th, rp, timesGiven) /\ id \in th
  BY <1>1 DEF LiveOK
<1> DEFINE known == UsedAround(p, id)
           r == CHOOSE x \in known : TRUE
<1>5. CASE m.last # NoRange /\ InIdRange(id, m.last)
  <2> DEFINE n == IdRange(m.last.start, m.last.end, m.last.taken - 1)
  <2>1. m.last \in Ranges(m) /\ Ranges(m) = m.used \cup {m.last} /\ m.last \notin m.used
    BY <1>4, <1>5 DEF Ranges, RangesOK
  <2>2. m.last.taken \in Nat \ {0}
    BY <1>1, <1>4, <1>5, <2>1, ReleaseFacts
  <2>3. ReleaseId(p, id) => /\ mine' = [mine EXCEPT ![p].last.taken = @ - 1]
                            /\ idFatal' = (IF m.last.taken > 0 THEN idFatal ELSE "bug")
                            /\ idRequests' = idRequests
    BY <1>5 DEF ReleaseId
  <2>4. /\ n.start = m.last.start /\ n.end = m.last.end /\ n.taken = m.last.taken - 1
        /\ n \in RangeRec /\ m.last \in RangeRec /\ m.used \in SUBSET RangeRec /\ m.lastUsed \in Nat
    BY <1>1, <2>2, NewRangeFacts, RangeFacts
  <2>5. [m.last EXCEPT !.taken = @ - 1] = n
    BY <2>4, SameBounds
  <2> HIDE DEF n
  <2>6. m2 = FreshRanges(n, m.used, m.lastUsed)
    <3>1. m2 = [m EXCEPT !.last = [m.last EXCEPT !.taken = @ - 1]]
      BY <1>2, <2>3
    <3>2. m2 = [m EXCEPT !.last = n]
      BY <2>5, <3>1
    <3> QED BY <1>1, <3>2 DEF MineRec, FreshRanges
  <2>7. m2.last = n /\ m2.used = m.used /\ m2.lastUsed = m.lastUsed /\ m2 \in MineRec
    BY <2>4, <2>6, MineFacts
  <2>8. /\ mine' \in [IdProcs -> MineRec] /\ idFatal' = idFatal /\ idRequests' = idRequests
        /\ \A q \in IdProcs : q # p => mine'[q] = mine[q]
    <3>1. \A q \in IdProcs : q # p => mine'[q] = mine[q]
      BY <1>2, <2>3
    <3>2. DOMAIN mine' = IdProcs /\ mine' = [q \in IdProcs |-> mine'[q]]
      BY <1>2, <2>3
    <3>3. \A q \in IdProcs : mine'[q] \in MineRec
      BY <1>2, <2>7, <3>1
    <3>4. mine' \in [IdProcs -> MineRec]
      BY <3>2, <3>3
    <3> QED BY <2>2, <2>3, <3>1, <3>4
  <2>9. /\ n \notin m.used /\ n # NoRange
    <3>1. \A t \in m.used : t.start \in Nat /\ t.end \in Nat /\ Apart(t, m.last)
      BY <1>1, <1>4, <2>1, RangeFacts DEF RangesOK
    <3>2. n \notin m.used
      BY <1>4, <2>1, <2>4, <3>1 DEF Apart, RangesOK
    <3>3. n.start # 0
      BY <1>4, <2>1, <2>4 DEF RangesOK
    <3> QED BY <3>2, <3>3 DEF NoRange
  <2>10. Ranges(m2) = (Ranges(m) \ {m.last}) \cup {n} /\ m2.last \notin m2.used
    BY <2>1, <2>7, <2>9 DEF Ranges
  <2> HIDE DEF m, th, cl, rq, rp, m2, rq2
  <2>11. LiveOK(owners, p, m2, th \ {id}, cl, rq, rp, lastId, timesGiven)
    BY <1>1, <1>4, <1>5, <2>1, <2>4, <2>7, <2>10, LowerCount
  <2>12. OnlyReleases(rq, rq)
    BY DEF OnlyReleases
  <2> QED BY <1>1, <1>2, <2>8, <2>11, <2>12 DEF m, th, cl, rq, rp, m2, rq2
<1>6. CASE ~(m.last # NoRange /\ InIdRange(id, m.last))
  <2>1. known # {} /\ r \in m.used /\ InIdRange(id, r)
    <3>1. PICK t \in Ranges(m) : InIdRange(id, t)
      BY <1>4 DEF IdsOK
    <3>2. t \in m.used
      BY <1>6, <3>1 DEF Ranges
    <3>3. known # {}
      BY <1>3, <3>1, <3>2
    <3>4. r \in known
      BY <3>3
    <3> QED BY <1>3, <3>3, <3>4
  <2>2. r \in Ranges(m) /\ r \in RangeRec
    BY <1>1, <2>1, RangeFacts DEF Ranges
  <2>3. r.taken \in Nat \ {0}
    BY <1>1, <1>4, <2>1, <2>2, ReleaseFacts
  <2>4. \/ /\ r.taken > 1 /\ mine' = [mine EXCEPT ![p].used = (@ \ {r}) \cup {[r EXCEPT !.taken = @ - 1]}]
           /\ idFatal' = idFatal /\ idRequests' = idRequests
        \/ /\ r.taken = 1 /\ mine' = [mine EXCEPT ![p].used = @ \ {r}]
           /\ IdSend(p, [kind |-> "RELEASE", start |-> r.start, end |-> r.end])
           /\ idFatal' = idFatal
    BY <1>6, <2>1, <2>3 DEF ReleaseId
  <2> HIDE DEF r, known
  <2>5. /\ r.start \in Nat /\ r.end \in Nat /\ 1 <= r.start /\ r.start <= r.end
        /\ m.used \in SUBSET RangeRec /\ m.last \in RangeRec /\ m.lastUsed \in Nat
        /\ \A t \in Ranges(m) : t.start \in Nat /\ t.end \in Nat /\ 1 <= t.start /\ (t = r \/ Apart(t, r))
    BY <1>1, <1>4, <2>2, RangeFacts DEF RangesOK
  <2>6. CASE /\ r.taken > 1 /\ mine' = [mine EXCEPT ![p].used = (@ \ {r}) \cup {[r EXCEPT !.taken = @ - 1]}]
             /\ idFatal' = idFatal /\ idRequests' = idRequests
    <3> DEFINE n == IdRange(r.start, r.end, r.taken - 1)
    <3>1. [r EXCEPT !.taken = @ - 1] = n
      BY <2>2, SameBounds
    <3>2. n.start = r.start /\ n.end = r.end /\ n.taken = r.taken - 1 /\ n \in RangeRec
      BY <2>3, <2>5, NewRangeFacts
    <3> HIDE DEF n
    <3>3. m2 = FreshRanges(m.last, (m.used \ {r}) \cup {n}, m.lastUsed)
      <4>1. m2 = [m EXCEPT !.used = (m.used \ {r}) \cup {n}]
        BY <1>2, <2>6, <3>1
      <4> QED BY <1>1, <4>1 DEF MineRec, FreshRanges
    <3>4. m2.last = m.last /\ m2.used = (m.used \ {r}) \cup {n} /\ m2.lastUsed = m.lastUsed /\ m2 \in MineRec
      BY <2>5, <3>2, <3>3, MineFacts
    <3>5. mine' \in [IdProcs -> MineRec] /\ \A q \in IdProcs : q # p => mine'[q] = mine[q]
      <4>1. \A q \in IdProcs : q # p => mine'[q] = mine[q]
        BY <1>2, <2>6
      <4>2. mine' = [q \in IdProcs |-> mine'[q]]
        BY <1>2, <2>6
      <4>3. \A q \in IdProcs : mine'[q] \in MineRec
        BY <1>2, <3>4, <4>1
      <4> QED BY <4>1, <4>2, <4>3
    <3>6. n # NoRange
      BY <2>5, <3>2 DEF NoRange
    <3>7. m.last \notin m.used /\ m.last # r
      BY <1>4, <2>1 DEF RangesOK
    <3>8. m.last # n
      <4>1. m.last = NoRange \/ Apart(m.last, r)
        BY <2>5, <3>7 DEF Ranges
      <4> QED BY <2>5, <3>2, <3>6, <4>1 DEF Apart
    <3>9. Ranges(m2) = (Ranges(m) \ {r}) \cup {n} /\ m2.last \notin m2.used
      BY <3>4, <3>6, <3>7, <3>8 DEF Ranges
    <3> HIDE DEF m, th, cl, rq, rp, m2, rq2
    <3>10. LiveOK(owners, p, m2, th \ {id}, cl, rq, rp, lastId, timesGiven)
      BY <1>1, <1>4, <2>1, <2>2, <3>2, <3>4, <3>9, LowerCount
    <3>11. OnlyReleases(rq, rq)
      BY DEF OnlyReleases
    <3> QED BY <1>1, <1>2, <2>6, <3>5, <3>10, <3>11 DEF m, th, cl, rq, rp, m2, rq2
  <2>7. CASE /\ r.taken = 1 /\ mine' = [mine EXCEPT ![p].used = @ \ {r}]
             /\ IdSend(p, [kind |-> "RELEASE", start |-> r.start, end |-> r.end])
             /\ idFatal' = idFatal
    <3>1. m2 = FreshRanges(m.last, m.used \ {r}, m.lastUsed)
      <4>1. m2 = [m EXCEPT !.used = m.used \ {r}]
        BY <1>2, <2>7
      <4> QED BY <1>1, <4>1 DEF MineRec, FreshRanges
    <3>2. m2.last = m.last /\ m2.used = m.used \ {r} /\ m2.lastUsed = m.lastUsed /\ m2 \in MineRec
      BY <2>5, <3>1, MineFacts
    <3>3. mine' \in [IdProcs -> MineRec] /\ \A q \in IdProcs : q # p => mine'[q] = mine[q]
      <4>1. \A q \in IdProcs : q # p => mine'[q] = mine[q]
        BY <1>2, <2>7
      <4>2. mine' = [q \in IdProcs |-> mine'[q]]
        BY <1>2, <2>7
      <4>3. \A q \in IdProcs : mine'[q] \in MineRec
        BY <1>2, <3>2, <4>1
      <4> QED BY <4>1, <4>2, <4>3
    <3>4. m.last \notin m.used /\ m.last # r
      BY <1>4, <2>1 DEF RangesOK
    <3>5. Ranges(m2) = Ranges(m) \ {r} /\ m2.last \notin m2.used
      BY <3>2, <3>4 DEF Ranges
    <3>6. /\ rq2 = rq \cup {ReleaseMsg(r.start, r.end)} /\ DOMAIN idRequests' = IdProcs
          /\ \A q \in IdProcs : q # p => idRequests'[q] = idRequests[q]
      BY <1>2, <2>7 DEF IdSend, ReleaseMsg
    <3>7. \A i \in Nat, c \in IdProcs : MoveMsg(i, c) \notin rq
      BY <1>1 DEF ProtocolOK
    <3> HIDE DEF m, th, cl, rq, rp, m2, rq2
    <3>8. ClaimsOK(owners, p, cl, rq2, rp) /\ LiveOK(owners, p, m2, th \ {id}, cl, rq2, rp, lastId, timesGiven)
      BY <1>1, <1>4, <2>1, <2>2, <2>7, <3>2, <3>5, <3>6, <3>7, GiveBack
    <3>9. OnlyReleases(rq, rq2) /\ RequestsOK(rq2)
      <4>1. OnlyReleases(rq, rq2)
        BY <3>6, MsgFacts DEF OnlyReleases
      <4>2. RequestsOK(rq2)
        BY <1>1, <2>5, <3>6 DEF RequestsOK
      <4> QED BY <4>1, <4>2
    <3> QED BY <2>7, <3>3, <3>6, <3>8, <3>9 DEF m, th, cl, rq, rp, m2, rq2
  <2> QED BY <2>4, <2>6, <2>7
<1> QED BY <1>5, <1>6

(* A thread is gone. *)
LEMMA ThreadGoneKeeps ==
    ASSUME IdInv, NEW p \in IdProcs, ThreadGone(p)
    PROVE  IdInv'
<1>1. PICK id \in idThreads[p] :
         /\ idProc[p] = "up" /\ idLock[p] = "free" /\ ReleaseId(p, id)
         /\ idThreads' = [idThreads EXCEPT ![p] = @ \ {id}]
  BY DEF ThreadGone
<1>2. /\ owners' = owners /\ lastId' = lastId /\ lastVmid' = lastVmid /\ idProc' = idProc
      /\ mainId' = mainId /\ idLock' = idLock /\ clone' = clone /\ idReplies' = idReplies
      /\ timesGiven' = timesGiven
  BY DEF ThreadGone
<1>3. /\ idFatal' = idFatal /\ mine' \in [IdProcs -> MineRec] /\ DOMAIN idRequests' = IdProcs
      /\ \A q \in IdProcs : q # p => mine'[q] = mine[q] /\ idRequests'[q] = idRequests[q]
      /\ RequestsOK(idRequests'[p]) /\ OnlyReleases(idRequests[p], idRequests'[p])
      /\ ClaimsOK(owners, p, clone[p], idRequests'[p], idReplies[p])
      /\ LiveOK(owners, p, mine'[p], idThreads[p] \ {id}, clone[p], idRequests'[p], idReplies[p],
                lastId, timesGiven)
  BY <1>1, ReleaseIdKeeps
<1>4. /\ idThreads'[p] = idThreads[p] \ {id} /\ idThreads' \in [IdProcs -> SUBSET (1 .. PID_MAX)]
      /\ \A q \in IdProcs : q # p => idThreads'[q] = idThreads[q]
  BY <1>1 DEF IdInv, IdTypeOK
<1>5. ProcInv(p)'
  <2>1. ProtocolOK(p, idProc[p], mine[p], idThreads[p], idLock[p], clone[p], idRequests[p], idReplies[p])
    BY ProcFacts
  <2>2. ProtocolOK(p, idProc[p], mine'[p], idThreads'[p], idLock[p], clone[p], idRequests'[p], idReplies[p])
    BY <1>1, <1>3, <1>4, <2>1 DEF ProtocolOK, OnlyReleases
  <2> QED BY <1>2, <1>3, <1>4, <2>2 DEF ProcInv
<1>6. \A q \in IdProcs : q # p => ProcInv(q)'
  BY <1>2, <1>3, <1>4, QuietOthers DEF SameFor
<1>7. IdTypeOK'
  <2>1. \A q \in IdProcs : RequestsOK(idRequests'[q]) /\ RepliesOK(idReplies'[q])
    BY <1>2, <1>3 DEF IdInv, IdTypeOK
  <2> QED BY <1>2, <1>3, <1>4, <2>1 DEF IdInv, IdTypeOK
<1>8. GlobalInv' /\ TreeOK(owners, lastId)
  BY <1>2 DEF IdInv, GlobalInv
<1> QED BY <1>2, <1>5, <1>6, <1>7, <1>8 DEF IdInv

(* A process ends. *)
LEMMA IdProcessExitsKeeps ==
    ASSUME IdInv, NEW p \in IdProcs, IdProcessExits(p)
    PROVE  IdInv'
<1>1. PICK id \in idThreads[p] :
         /\ idProc[p] = "up" /\ idLock[p] = "free" /\ ReleaseId(p, id)
         /\ idThreads' = [idThreads EXCEPT ![p] = {}] /\ idProc' = [idProc EXCEPT ![p] = "gone"]
  BY DEF IdProcessExits
<1>2. /\ owners' = owners /\ lastId' = lastId /\ lastVmid' = lastVmid
      /\ mainId' = mainId /\ idLock' = idLock /\ clone' = clone /\ idReplies' = idReplies
      /\ timesGiven' = timesGiven
  BY DEF IdProcessExits
<1>3. /\ idFatal' = idFatal /\ mine' \in [IdProcs -> MineRec] /\ DOMAIN idRequests' = IdProcs
      /\ \A q \in IdProcs : q # p => mine'[q] = mine[q] /\ idRequests'[q] = idRequests[q]
      /\ RequestsOK(idRequests'[p]) /\ OnlyReleases(idRequests[p], idRequests'[p])
      /\ ClaimsOK(owners, p, clone[p], idRequests'[p], idReplies[p])
  BY <1>1, ReleaseIdKeeps
<1>4. /\ idThreads'[p] = {} /\ idThreads' \in [IdProcs -> SUBSET (1 .. PID_MAX)]
      /\ idProc'[p] = "gone" /\ idProc' \in [IdProcs -> {"unborn", "up", "gone"}]
      /\ \A q \in IdProcs : q # p => idThreads'[q] = idThreads[q] /\ idProc'[q] = idProc[q]
  BY <1>1 DEF IdInv, IdTypeOK
<1>5. ProcInv(p)'
  <2>1. ProtocolOK(p, idProc[p], mine[p], idThreads[p], idLock[p], clone[p], idRequests[p], idReplies[p])
    BY ProcFacts
  <2>2. ProtocolOK(p, "gone", mine'[p], {}, idLock[p], clone[p], idRequests'[p], idReplies[p])
    BY <1>1, <1>3, <2>1 DEF ProtocolOK, OnlyReleases
  <2> QED BY <1>2, <1>3, <1>4, <2>2 DEF ProcInv
<1>6. \A q \in IdProcs : q # p => ProcInv(q)'
  BY <1>2, <1>3, <1>4, QuietOthers DEF SameFor
<1>7. IdTypeOK'
  <2>1. \A q \in IdProcs : RequestsOK(idRequests'[q]) /\ RepliesOK(idReplies'[q])
    BY <1>2, <1>3 DEF IdInv, IdTypeOK
  <2> QED BY <1>2, <1>3, <1>4, <2>1 DEF IdInv, IdTypeOK
<1>8. GlobalInv' /\ TreeOK(owners, lastId)
  <2>1. \A q \in IdProcs : idProc'[q] = "unborn" <=> idProc[q] = "unborn"
    BY <1>1, <1>4
  <2>2. \A x \in owners : x.owner \in IdProcs
    BY DEF IdInv, IdTypeOK, OwnerRec
  <2> QED BY <1>2, <2>1, <2>2 DEF IdInv, GlobalInv
<1> QED BY <1>2, <1>5, <1>6, <1>7, <1>8 DEF IdInv

-----------------------------------------------------------------------------
(* Steps of get_new_id *)

(* The next id of the ranges m is given out. *)
LEMMA TakeIdKeeps ==
    ASSUME IdInv, NEW p \in IdProcs, idProc[p] = "up", idLock[p] # "move",
           NEW m \in MineRec, m.last # NoRange, NEW dest \in IdProcs \cup {NoProc}, TakeId(p, m, dest),
           owners' = owners, lastId' = lastId, idFatal' = idFatal, idProc' = idProc, mainId' = mainId,
           NEW rp2, idReplies'[p] = rp2, RepliesOK(rp2), NoneIn(rp2), DOMAIN idReplies' = IdProcs,
           \A q \in IdProcs : q # p => idReplies'[q] = idReplies[q],
           MoveReply \in rp2 <=> MoveReply \in idReplies[p],
           BackReply \in rp2 <=> BackReply \in idReplies[p],
           AllocMsg \notin idRequests[p],
           ClaimsOK(owners, p, clone[p], idRequests[p], rp2),
           LiveOK(owners, p, m, idThreads[p], clone[p], idRequests[p], rp2, lastId, timesGiven),
           lastVmid' \in IdProcs, lastVmid <= lastVmid',
           dest = NoProc => clone[p].step # "range",
           dest # NoProc => /\ clone[p].step \in {"none", "range"}
                            /\ dest <= lastVmid' /\ idProc[dest] = "unborn"
                            /\ \A q \in IdProcs : clone[q].child = dest => q = p
    PROVE  IdInv'
<1> DEFINE id == m.lastUsed + 1   cl == clone[p]   rq == idRequests[p]   rp == idReplies[p]
           th == idThreads[p]   m2 == mine'[p]   cl2 == clone'[p]   rq2 == idRequests'[p]
<1>1. /\ owners \in SUBSET OwnerRec /\ TreeOK(owners, lastId)
      /\ lastId \in 1 .. PID_MAX /\ lastId \in Nat
      /\ cl \in CloneRec /\ th \in SUBSET (1 .. PID_MAX) /\ RequestsOK(rq)
      /\ ProtocolOK(p, idProc[p], mine[p], th, idLock[p], cl, rq, rp)
  BY ProcFacts
<1>2. /\ mine \in [IdProcs -> MineRec] /\ DOMAIN idRequests = IdProcs /\ clone \in [IdProcs -> CloneRec]
      /\ idThreads \in [IdProcs -> SUBSET (1 .. PID_MAX)]
      /\ idLock \in [IdProcs -> {"free", "alloc", "move"}]
      /\ timesGiven \in [1 .. PID_MAX -> 0 .. 1] /\ GlobalInv
  BY DEF IdInv, IdTypeOK
<1>3. /\ id \in 1 .. PID_MAX /\ timesGiven[id] = 0 /\ InIdRange(id, m.last)
      /\ \E x \in owners : x.owner = p /\ InIdRange(id, x)
  <2>1. id = NextId(m)
    BY DEF NextId
  <2>2. LiveOK(owners, p, m, th, cl, rq, rp2, lastId, timesGiven)
    OBVIOUS
  <2>3. /\ NextId(m) \in 1 .. PID_MAX /\ timesGiven[NextId(m)] = 0 /\ InIdRange(NextId(m), m.last)
        /\ \E x \in owners : x.owner = p /\ InIdRange(NextId(m), x)
    BY <1>1, <2>2, NextIdFacts
  <2> QED BY <2>1, <2>3
<1>4. timesGiven' = [timesGiven EXCEPT ![id] = @ + 1]
  BY DEF TakeId
<1>5. /\ timesGiven' \in [1 .. PID_MAX -> 0 .. 1] /\ timesGiven'[id] = 1
      /\ \A i \in 1 .. PID_MAX : i # id => timesGiven'[i] = timesGiven[i]
  BY <1>2, <1>3, <1>4, GivenFacts
<1>6. cl.step # "id" /\ MoveReply \notin rp2
      /\ \A i \in Nat, c \in IdProcs : MoveMsg(i, c) \notin rq
  BY <1>1 DEF ProtocolOK
<1>7. PID_MAX \in Nat /\ id \in Nat /\ IdProcs \subseteq Int /\ lastVmid \in IdProcs
  BY <1>3, IdAssumption, NoCloneFacts DEF IdInv, IdTypeOK
<1>8. timesGiven'[id] = 1 /\ NowGiven(timesGiven, timesGiven', id)
  BY <1>5 DEF NowGiven
<1>9. LiveOK(owners, p, m, th, cl, rq, rp2, lastId, timesGiven) /\ ClaimsOK(owners, p, cl, rq, rp2)
  OBVIOUS
<1>10. \A q \in IdProcs : q # p /\ SameFor(q) => ProcInv(q)'
  <2>1. ASSUME NEW q \in IdProcs, q # p, NEW i \in Nat, NEW y \in owners, y.owner = q, InIdRange(i, y)
        PROVE  timesGiven'[i] = timesGiven[i]
    <3>1. i # id
      BY <1>1, <1>3, <2>1 DEF TreeOK, Apart, InIdRange, OwnerRec
    <3>2. i \in 1 .. PID_MAX
      BY <1>1, <1>7, <2>1 DEF TreeOK, InIdRange, OwnerRec
    <3> QED BY <1>5, <3>1, <3>2
  <2> QED BY <1>1, <2>1, OthersKeep
<1>11. /\ \A i \in 1 .. PID_MAX : lastId < i => timesGiven'[i] = 0
       /\ \A q \in IdProcs : InHand(clone[q]) => timesGiven'[clone[q].id] = 1
  <2>1. id <= lastId
    <3>1. PICK x \in owners : InIdRange(id, x)
      BY <1>3
    <3>2. id <= x.end /\ x.end <= lastId /\ x.end \in Nat
      BY <1>1, <3>1 DEF TreeOK, InIdRange, OwnerRec
    <3> QED BY <1>1, <1>7, <3>2
  <2>2. \A q \in IdProcs : InHand(clone[q]) => clone[q].id \in 1 .. PID_MAX
    BY ProcFacts DEF ProtocolOK
  <2> QED BY <1>1, <1>2, <1>3, <1>5, <1>7, <2>1, <2>2 DEF GlobalInv
<1>12. /\ \A q \in IdProcs : lastVmid' < q => idProc[q] = "unborn"
       /\ \A q \in IdProcs : clone[q].step # "none" => clone[q].child \in IdProcs /\ clone[q].child <= lastVmid'
  <2>1. /\ \A q \in IdProcs : lastVmid < q => idProc[q] = "unborn"
        /\ \A q \in IdProcs : clone[q].step # "none" => clone[q].child \in IdProcs /\ clone[q].child <= lastVmid
    BY <1>2 DEF GlobalInv
  <2>2. lastVmid \in Int /\ lastVmid' \in Int
    BY <1>7
  <2>3. \A q \in IdProcs : q \in Int
    BY <1>7
  <2>4. \A q \in IdProcs : lastVmid' < q => lastVmid < q
    BY <2>2, <2>3
  <2>5. \A q \in IdProcs : q <= lastVmid => q <= lastVmid'
    BY <2>2, <2>3
  <2> QED BY <2>1, <2>4, <2>5
<1> HIDE DEF m2, id, cl, rq, rp, th, cl2, rq2
<1>13. id = NextId(m)
  BY DEF id, NextId
<1>14. ASSUME dest = NoProc PROVE IdInv'
  <2>1. /\ mine' = [mine EXCEPT ![p] = TakeOwn(m)] /\ idThreads' = [idThreads EXCEPT ![p] = @ \cup {id}]
        /\ idLock' = [idLock EXCEPT ![p] = "free"] /\ clone' = clone /\ idRequests' = idRequests
    BY <1>14 DEF TakeId, id
  <2>2. m2 = TakeOwn(m) /\ idThreads'[p] = th \cup {id} /\ idLock'[p] = "free"
    BY <1>2, <2>1 DEF m2, th
  <2>3. \A q \in IdProcs : q # p => mine'[q] = mine[q] /\ idThreads'[q] = idThreads[q] /\ idLock'[q] = idLock[q]
    BY <1>2, <2>1
  <2>4. m2 \in MineRec /\ LiveOK(owners, p, m2, th \cup {id}, cl, rq, rp2, lastId, timesGiven')
    <3>1. NowGiven(timesGiven, timesGiven', NextId(m))
      BY <1>8, <1>13
    <3>2. /\ TakeOwn(m) \in MineRec
          /\ LiveOK(owners, p, TakeOwn(m), th \cup {NextId(m)}, cl, rq, rp2, lastId, timesGiven')
      BY <1>1, <1>9, <3>1, TakeOwnOK
    <3> QED BY <1>13, <2>2, <3>2
  <2>5. ProcInv(p)'
    <3>1. ProtocolOK(p, idProc[p], m2, th \cup {id}, "free", cl, rq, rp2)
      BY <1>1, <1>6, <1>14 DEF ProtocolOK, NoneIn, rp, rq, cl
    <3> QED BY <1>9, <2>1, <2>2, <2>4, <3>1 DEF ProcInv, cl, rq, th, m2
  <2>6. /\ mine' \in [IdProcs -> MineRec]
        /\ idThreads' \in [IdProcs -> SUBSET (1 .. PID_MAX)]
        /\ idLock' \in [IdProcs -> {"free", "alloc", "move"}]
    <3>1. mine' = [q \in IdProcs |-> mine'[q]] /\ \A q \in IdProcs : mine'[q] \in MineRec
      BY <1>2, <2>1, <2>3, <2>4 DEF m2
    <3>2. idThreads' \in [IdProcs -> SUBSET (1 .. PID_MAX)]
      BY <1>2, <1>3, <2>1
    <3> QED BY <1>2, <2>1, <3>1, <3>2
  <2>7. \A q \in IdProcs : q # p => ProcInv(q)'
    <3>1. \A q \in IdProcs : q # p => SameFor(q)
      BY <2>1, <2>3 DEF SameFor
    <3> QED BY <1>10, <3>1
  <2>8. GlobalInv'
    BY <1>2, <1>11, <1>12, <2>1 DEF GlobalInv
  <2>9. IdTypeOK'
    <3>1. \A q \in IdProcs : RequestsOK(idRequests'[q]) /\ RepliesOK(idReplies'[q])
      BY <2>1 DEF IdInv, IdTypeOK
    <3> QED BY <1>2, <1>5, <2>1, <2>6, <3>1 DEF IdInv, IdTypeOK
  <2> QED BY <1>1, <2>5, <2>7, <2>8, <2>9 DEF IdInv
<1>15. ASSUME dest # NoProc PROVE IdInv'
  <2> DEFINE msg == MoveMsg(id, dest)
  <2>0. /\ dest \in IdProcs /\ cl.step \in {"none", "range"} /\ dest <= lastVmid' /\ idProc[dest] = "unborn"
        /\ \A q \in IdProcs : clone[q].child = dest => q = p
    BY <1>15 DEF cl
  <2>1. /\ mine' = [mine EXCEPT ![p] = TakeForOther(m)]
        /\ clone' = [clone EXCEPT ![p] = [step |-> "id", child |-> dest, id |-> id]]
        /\ idRequests' = [idRequests EXCEPT ![p] = @ \cup {msg}]
        /\ idLock' = [idLock EXCEPT ![p] = "move"] /\ idThreads' = idThreads
    BY <1>15 DEF TakeId, id, IdSend, MoveMsg
  <2> HIDE DEF msg
  <2>2. /\ m2 = TakeForOther(m) /\ idLock'[p] = "move" /\ rq2 = rq \cup {msg}
        /\ cl2 = [step |-> "id", child |-> dest, id |-> id]
    BY <1>2, <2>1 DEF m2, cl2, rq2, rq
  <2>3. cl2.step = "id" /\ cl2.child = dest /\ cl2.id = id /\ cl2 \in CloneRec /\ InHand(cl2)
    BY <1>7, <2>0, <2>2 DEF CloneRec, InHand
  <2>4. \A q \in IdProcs : q # p => /\ mine'[q] = mine[q] /\ idThreads'[q] = idThreads[q]
                                     /\ idLock'[q] = idLock[q] /\ clone'[q] = clone[q]
                                     /\ idRequests'[q] = idRequests[q]
    BY <1>2, <2>1
  <2>5. /\ BackReply \notin rp2
        /\ \A i \in Nat, c \in IdProcs : MoveMsg(i, c) \notin rq /\ BackMsg(i, c) \notin rq
    BY <1>1, <1>6, <2>0 DEF ProtocolOK, rp
  <2>6. /\ m2 \in MineRec /\ ClaimsOK(owners, p, cl2, rq2, rp2)
        /\ LiveOK(owners, p, m2, th, cl2, rq2, rp2, lastId, timesGiven')
    <3>1. NowGiven(timesGiven, timesGiven', NextId(m)) /\ ForChild(cl2, dest, NextId(m)) /\ NoChange(rq)
      BY <1>8, <1>13, <2>3, <2>5 DEF ForChild, NoChange
    <3>2. /\ TakeForOther(m) \in MineRec
          /\ ClaimsOK(owners, p, cl2, rq \cup {MoveMsg(NextId(m), dest)}, rp2)
          /\ LiveOK(owners, p, TakeForOther(m), th, cl2, rq \cup {MoveMsg(NextId(m), dest)}, rp2,
                    lastId, timesGiven')
      BY <1>1, <1>6, <1>9, <2>0, <2>3, <2>5, <3>1, TakeForOtherOK
    <3> QED BY <1>13, <2>2, <3>2 DEF msg
  <2>7. ProcInv(p)'
    <3>1. /\ \A i \in Nat, c \in IdProcs : MoveMsg(i, c) \in rq2 => i = id /\ c = dest
          /\ \A i \in Nat, c \in IdProcs : BackMsg(i, c) \notin rq2
          /\ AllocMsg \notin rq2
      BY <2>2, <2>5, MsgFacts DEF msg, rq
    <3>2. ProtocolOK(p, idProc[p], m2, th, "move", cl2, rq2, rp2)
      <4>1. th = {} \/ idProc[p] = "up"
        OBVIOUS
      <4> QED BY <1>3, <1>6, <2>3, <2>5, <3>1 DEF ProtocolOK, NoneIn
    <3> QED BY <2>1, <2>2, <2>6, <3>2 DEF ProcInv, cl2, rq2, th, m2
  <2>8. /\ mine' \in [IdProcs -> MineRec] /\ clone' \in [IdProcs -> CloneRec]
        /\ idLock' \in [IdProcs -> {"free", "alloc", "move"}] /\ DOMAIN idRequests' = IdProcs
    <3>1. mine' = [q \in IdProcs |-> mine'[q]] /\ \A q \in IdProcs : mine'[q] \in MineRec
      BY <1>2, <2>1, <2>4, <2>6 DEF m2
    <3>2. clone' = [q \in IdProcs |-> clone'[q]] /\ \A q \in IdProcs : clone'[q] \in CloneRec
      BY <1>2, <2>1, <2>3, <2>4 DEF cl2
    <3> QED BY <1>2, <2>1, <3>1, <3>2
  <2>9. \A q \in IdProcs : q # p => ProcInv(q)'
    <3>1. \A q \in IdProcs : q # p => SameFor(q)
      BY <2>4 DEF SameFor
    <3> QED BY <1>10, <3>1
  <2>10. IdTypeOK'
    <3>1. RequestsOK(rq2)
      BY <1>1, <1>7, <2>0, <2>2 DEF RequestsOK, msg
    <3>2. \A q \in IdProcs : RequestsOK(idRequests'[q]) /\ RepliesOK(idReplies'[q])
      BY <2>4, <3>1 DEF IdInv, IdTypeOK, rq2
    <3> QED BY <1>2, <1>5, <2>1, <2>8, <3>2 DEF IdInv, IdTypeOK
  <2>11. GlobalInv'
    <3>1. \A q \in IdProcs : clone'[q].step # "none" =>
             /\ clone'[q].child \in IdProcs /\ clone'[q].child <= lastVmid'
             /\ idProc[clone'[q].child] = "unborn"
      BY <1>2, <1>12, <2>0, <2>3, <2>4 DEF GlobalInv, cl2
    <3>2. \A q \in IdProcs : clone'[q].step # "none" =>
             \A s \in IdProcs : clone'[s].child = clone'[q].child => s = q
      <4>1. ASSUME NEW q \in IdProcs, NEW s \in IdProcs, clone'[q].step # "none",
                   clone'[s].child = clone'[q].child
            PROVE  s = q
        <5>1. CASE q = p
          BY <2>0, <2>3, <2>4, <4>1, <5>1 DEF cl2
        <5>2. CASE q # p /\ s = p
          BY <2>0, <2>3, <2>4, <4>1, <5>2 DEF cl2
        <5>3. CASE q # p /\ s # p
          BY <1>2, <2>4, <4>1, <5>3 DEF GlobalInv
        <5> QED BY <5>1, <5>2, <5>3
      <4> QED BY <4>1
    <3>3. \A q \in IdProcs : InHand(clone'[q]) => timesGiven'[clone'[q].id] = 1
      BY <1>8, <1>11, <2>3, <2>4 DEF cl2
    <3>4. ASSUME NEW x \in owners, idProc[x.owner] = "unborn"
          PROVE  \E q \in IdProcs : /\ clone'[q].step # "none" /\ clone'[q].child = x.owner
                                    /\ x.start = clone'[q].id /\ x.end = clone'[q].id
      <4>1. PICK q \in IdProcs : /\ clone[q].step # "none" /\ clone[q].child = x.owner
                                 /\ x.start = clone[q].id /\ x.end = clone[q].id
        BY <1>2, <3>4 DEF GlobalInv
      <4>2. q # p
        <5>1. x.start # 0
          BY <1>1 DEF TreeOK
        <5>2. cl.id = 0
          BY <1>1, <2>0 DEF ProtocolOK, InHand
        <5> QED BY <4>1, <5>1, <5>2 DEF cl
      <4> QED BY <2>4, <4>1, <4>2
    <3> QED BY <1>11, <1>12, <3>1, <3>2, <3>3, <3>4 DEF GlobalInv
  <2> QED BY <1>1, <2>7, <2>9, <2>10, <2>11 DEF IdInv
<1> QED BY <1>14, <1>15

(* get_new_id asks the leader for a range. *)
LEMMA AskRangeKeeps ==
    ASSUME IdInv, NEW p \in IdProcs, idProc[p] = "up", idLock[p] = "free", mine[p].last = NoRange,
           NEW dest \in IdProcs \cup {NoProc},
           idRequests' = [idRequests EXCEPT ![p] = @ \cup {AllocMsg}],
           idLock' = [idLock EXCEPT ![p] = "alloc"],
           clone' = [clone EXCEPT ![p] = IF dest = NoProc THEN @
                                         ELSE [step |-> "range", child |-> dest, id |-> 0]],
           mine' = mine, idThreads' = idThreads, timesGiven' = timesGiven, idReplies' = idReplies,
           owners' = owners, lastId' = lastId, idFatal' = idFatal, idProc' = idProc, mainId' = mainId,
           lastVmid' \in IdProcs, lastVmid <= lastVmid',
           dest # NoProc => /\ clone[p] = NoClone /\ dest <= lastVmid' /\ idProc[dest] = "unborn"
                            /\ \A q \in IdProcs : clone[q].child = dest => q = p
    PROVE  IdInv'
<1> DEFINE cl == clone[p]   rq == idRequests[p]   rp == idReplies[p]   cl2 == clone'[p]   rq2 == idRequests'[p]
<1>1. /\ owners \in SUBSET OwnerRec /\ TreeOK(owners, lastId)
      /\ cl \in CloneRec /\ RequestsOK(rq)
      /\ ProtocolOK(p, idProc[p], mine[p], idThreads[p], idLock[p], cl, rq, rp)
      /\ ClaimsOK(owners, p, cl, rq, rp)
      /\ LiveOK(owners, p, mine[p], idThreads[p], cl, rq, rp, lastId, timesGiven)
  BY ProcFacts
<1>2. /\ DOMAIN idRequests = IdProcs /\ clone \in [IdProcs -> CloneRec]
      /\ idLock \in [IdProcs -> {"free", "alloc", "move"}] /\ GlobalInv
      /\ lastVmid \in IdProcs
  BY DEF IdInv, IdTypeOK
<1>3. /\ rq2 = rq \cup {AllocMsg} /\ idLock'[p] = "alloc" /\ DOMAIN idRequests' = IdProcs
      /\ \A q \in IdProcs : q # p => /\ idRequests'[q] = idRequests[q] /\ idLock'[q] = idLock[q]
                                      /\ clone'[q] = clone[q]
      /\ cl2 = (IF dest = NoProc THEN cl ELSE [step |-> "range", child |-> dest, id |-> 0])
      /\ idLock' \in [IdProcs -> {"free", "alloc", "move"}]
      /\ clone' = [q \in IdProcs |-> clone'[q]]
  BY <1>2
<1> HIDE DEF cl, rq, rp, cl2, rq2
<1>4. /\ dest = NoProc => cl2 = cl
      /\ dest # NoProc => cl2.step = "range" /\ cl2.child = dest /\ cl2.id = 0 /\ ~InHand(cl2) /\ cl = NoClone
      /\ cl2 \in CloneRec
  <2>1. CASE dest = NoProc
    BY <1>1, <1>3, <2>1
  <2>2. CASE dest # NoProc
    BY <1>3, <2>2 DEF CloneRec, InHand, cl
  <2> QED BY <2>1, <2>2
<1>5. clone' \in [IdProcs -> CloneRec]
  <2>1. \A q \in IdProcs : clone'[q] \in CloneRec
    BY <1>2, <1>3, <1>4 DEF cl2
  <2> QED BY <1>3, <2>1
<1>6. /\ \A s, e : ReleaseMsg(s, e) \in rq2 <=> ReleaseMsg(s, e) \in rq
      /\ \A i, q : MoveMsg(i, q) \in rq2 <=> MoveMsg(i, q) \in rq
      /\ \A i, q : BackMsg(i, q) \in rq2 <=> BackMsg(i, q) \in rq
  BY <1>3, MsgFacts
<1>7. \A s, e \in Nat : AllocReply(s, e) \notin rp
  BY <1>1 DEF ProtocolOK
<1>8. dest # NoProc => /\ BackReply \notin rp /\ MoveReply \notin rp
                       /\ \A i \in Nat, q \in IdProcs : MoveMsg(i, q) \notin rq /\ BackMsg(i, q) \notin rq
  BY <1>1, <1>4, NoCloneFacts DEF ProtocolOK
<1>9. ProcInv(p)'
  <2>1. ProtocolOK(p, idProc[p], mine[p], idThreads[p], "alloc", cl2, rq2, rp)
    <3>1. CASE dest = NoProc
      BY <1>1, <1>4, <1>6, <1>7, <3>1 DEF ProtocolOK
    <3>2. CASE dest # NoProc
      BY <1>1, <1>4, <1>6, <1>7, <1>8, <3>2 DEF ProtocolOK
    <3> QED BY <3>1, <3>2
  <2>2. ClaimsOK(owners, p, cl2, rq2, rp)
    <3>1. CASE dest = NoProc
      BY <1>1, <1>4, <1>6, <3>1 DEF ClaimsOK
    <3>2. CASE dest # NoProc
      <4>1. BackMsg(cl2.id, p) \notin rq2
        BY <1>4, <1>6, <1>8, <3>2
      <4> QED BY <1>1, <1>4, <1>6, <1>7, <1>8, <3>2, <4>1 DEF ClaimsOK
    <3> QED BY <3>1, <3>2
  <2>3. LiveOK(owners, p, mine[p], idThreads[p], cl2, rq2, rp, lastId, timesGiven)
    BY <1>1, <1>4, <1>6, <1>8, LiveSame
  <2> QED BY <1>3, <2>1, <2>2, <2>3 DEF ProcInv, cl2, rp, rq2
<1>10. \A q \in IdProcs : q # p => ProcInv(q)'
  BY <1>3, QuietOthers DEF SameFor
<1>11. IdTypeOK'
  <2>1. RequestsOK(rq2)
    BY <1>1, <1>3 DEF RequestsOK
  <2>2. \A q \in IdProcs : RequestsOK(idRequests'[q]) /\ RepliesOK(idReplies'[q])
    BY <1>3, <2>1 DEF IdInv, IdTypeOK, rq2
  <2> QED BY <1>3, <1>5, <2>2 DEF IdInv, IdTypeOK
<1>12. GlobalInv'
  <2>1. \A q \in IdProcs : lastVmid' < q => lastVmid < q
    BY <1>2, NoCloneFacts
  <2>2. \A q \in IdProcs : q <= lastVmid => q <= lastVmid'
    BY <1>2, NoCloneFacts
  <2>3. \A q \in IdProcs : lastVmid' < q => idProc[q] = "unborn"
    BY <1>2, <2>1 DEF GlobalInv
  <2>4. \A q \in IdProcs : clone'[q].step # "none" =>
           /\ clone'[q].child \in IdProcs /\ clone'[q].child <= lastVmid'
           /\ idProc[clone'[q].child] = "unborn"
    <3>1. \A q \in IdProcs : clone[q].step # "none" =>
           /\ clone[q].child \in IdProcs /\ clone[q].child <= lastVmid'
           /\ idProc[clone[q].child] = "unborn"
      BY <1>2, <2>2 DEF GlobalInv
    <3> QED BY <1>3, <1>4, <3>1 DEF cl2, cl
  <2>5. ASSUME NEW q \in IdProcs, NEW s \in IdProcs, clone'[q].step # "none",
               clone'[s].child = clone'[q].child
        PROVE  s = q
    <3>1. CASE dest = NoProc
      <4>1. clone'[q] = clone[q] /\ clone'[s] = clone[s]
        BY <1>3, <1>4, <3>1 DEF cl, cl2
      <4> QED BY <1>2, <2>5, <4>1 DEF GlobalInv
    <3>2. CASE dest # NoProc /\ q = p
      BY <1>3, <1>4, <2>5, <3>2 DEF cl, cl2
    <3>3. CASE dest # NoProc /\ q # p /\ s = p
      BY <1>3, <1>4, <2>5, <3>3 DEF cl, cl2
    <3>4. CASE dest # NoProc /\ q # p /\ s # p
      BY <1>2, <1>3, <2>5, <3>4 DEF GlobalInv
    <3> QED BY <3>1, <3>2, <3>3, <3>4
  <2>6. \A q \in IdProcs : InHand(clone'[q]) => timesGiven[clone'[q].id] = 1
    BY <1>2, <1>3, <1>4 DEF GlobalInv, cl, cl2
  <2>7. ASSUME NEW x \in owners, idProc[x.owner] = "unborn"
        PROVE  \E q \in IdProcs : /\ clone'[q].step # "none" /\ clone'[q].child = x.owner
                                  /\ x.start = clone'[q].id /\ x.end = clone'[q].id
    <3>1. PICK q \in IdProcs : /\ clone[q].step # "none" /\ clone[q].child = x.owner
                               /\ x.start = clone[q].id /\ x.end = clone[q].id
      BY <1>2, <2>7 DEF GlobalInv
    <3>2. clone'[q] = clone[q]
      BY <1>3, <1>4, <3>1, NoCloneFacts DEF cl, cl2
    <3> QED BY <3>1, <3>2
  <2>8. \A q \in IdProcs : clone'[q].step # "none" =>
           \A s \in IdProcs : clone'[s].child = clone'[q].child => s = q
    BY <2>5
  <2>9. \A i \in 1 .. PID_MAX : lastId < i => timesGiven[i] = 0
    BY <1>2 DEF GlobalInv
  <2> QED BY <2>3, <2>4, <2>6, <2>7, <2>8, <2>9 DEF GlobalInv
<1> QED BY <1>1, <1>9, <1>10, <1>11, <1>12 DEF IdInv

(* What the steps of get_new_id need to know of a process with a range. *)
LEMMA ReadyFacts ==
    ASSUME IdInv, NEW p \in IdProcs, idProc[p] = "up", idLock[p] = "free"
    PROVE  /\ mine[p] \in MineRec /\ NoneIn(idReplies[p]) /\ RepliesOK(idReplies[p])
           /\ AllocMsg \notin idRequests[p] /\ clone[p].step # "range"
           /\ ClaimsOK(owners, p, clone[p], idRequests[p], idReplies[p])
           /\ LiveOK(owners, p, mine[p], idThreads[p], clone[p], idRequests[p], idReplies[p], lastId,
                     timesGiven)
           /\ DOMAIN idReplies = IdProcs /\ lastVmid \in IdProcs /\ lastVmid <= lastVmid
<1>1. ProtocolOK(p, idProc[p], mine[p], idThreads[p], idLock[p], clone[p], idRequests[p], idReplies[p])
  BY ProcFacts
<1>2. NoneIn(idReplies[p]) /\ AllocMsg \notin idRequests[p] /\ clone[p].step # "range"
  BY <1>1 DEF ProtocolOK, NoneIn
<1>3. DOMAIN idReplies = IdProcs /\ lastVmid \in IdProcs /\ lastVmid <= lastVmid
  BY NoCloneFacts DEF IdInv, IdTypeOK
<1> QED BY <1>2, <1>3, ProcFacts

(* clone of a thread takes an id, or asks for a range. *)
LEMMA NewThreadKeeps ==
    ASSUME IdInv, NEW p \in IdProcs, NewThread(p)
    PROVE  IdInv'
<1>1. /\ owners' = owners /\ lastId' = lastId /\ lastVmid' = lastVmid /\ idFatal' = idFatal
      /\ idProc' = idProc /\ mainId' = mainId /\ idReplies' = idReplies
      /\ idProc[p] = "up" /\ idLock[p] = "free"
  BY DEF NewThread, GetNewId, leaderVars
<1>2. CASE mine[p].last = NoRange
  <2>1. /\ idRequests' = [idRequests EXCEPT ![p] = @ \cup {AllocMsg}]
        /\ idLock' = [idLock EXCEPT ![p] = "alloc"]
        /\ clone' = [clone EXCEPT ![p] = IF NoProc = NoProc THEN @
                                         ELSE [step |-> "range", child |-> NoProc, id |-> 0]]
        /\ mine' = mine /\ idThreads' = idThreads /\ timesGiven' = timesGiven
    BY <1>2 DEF NewThread, GetNewId, IdSend, AllocMsg
  <2>2. lastVmid' \in IdProcs /\ lastVmid <= lastVmid'
    BY <1>1, ReadyFacts
  <2> QED BY <1>1, <1>2, <2>1, <2>2, AskRangeKeeps
<1>3. CASE mine[p].last # NoRange
  <2>1. PICK m, rp2 : m = mine[p] /\ rp2 = idReplies[p]
    OBVIOUS
  <2>2. TakeId(p, m, NoProc)
    BY <1>3, <2>1 DEF NewThread, GetNewId
  <2>3. /\ m \in MineRec /\ m.last # NoRange /\ NoneIn(rp2) /\ RepliesOK(rp2)
        /\ AllocMsg \notin idRequests[p] /\ clone[p].step # "range"
        /\ ClaimsOK(owners, p, clone[p], idRequests[p], rp2)
        /\ LiveOK(owners, p, m, idThreads[p], clone[p], idRequests[p], rp2, lastId, timesGiven)
        /\ DOMAIN idReplies' = IdProcs /\ lastVmid' \in IdProcs /\ lastVmid <= lastVmid'
    BY <1>1, <1>3, <2>1, ReadyFacts
  <2>4. idLock[p] # "move" /\ idReplies'[p] = rp2
    BY <1>1, <2>1
  <2> QED BY <1>1, <2>1, <2>2, <2>3, <2>4, TakeIdKeeps
<1> QED BY <1>2, <1>3


(* clone of a process asks for an id. *)
LEMMA NewProcessKeeps ==
    ASSUME IdInv, NEW p \in IdProcs, NewProcess(p)
    PROVE  IdInv'
<1>1. /\ owners' = owners /\ lastId' = lastId /\ idFatal' = idFatal
      /\ idProc' = idProc /\ mainId' = mainId /\ idReplies' = idReplies
      /\ idProc[p] = "up" /\ idLock[p] = "free" /\ clone[p] = NoClone
  BY DEF NewProcess, GetNewId
<1>2. PICK dest \in IdProcs : dest = lastVmid + 1
  BY DEF NewProcess
<1>3. lastVmid' = dest /\ GetNewId(p, dest)
  BY <1>2 DEF NewProcess
<1>4. lastVmid \in Int /\ dest \in Int /\ dest # NoProc /\ NoProc \notin IdProcs
  BY NoCloneFacts DEF IdInv, IdTypeOK
<1>5. lastVmid' \in IdProcs /\ lastVmid <= lastVmid' /\ lastVmid < dest /\ dest <= lastVmid'
  BY <1>2, <1>3, <1>4
<1>6. idProc[dest] = "unborn"
  BY <1>5 DEF IdInv, GlobalInv
<1>7. ASSUME NEW q \in IdProcs, clone[q].child = dest PROVE q = p
  <2>1. clone[q].step # "none"
    <3>1. clone[q].step = "none" => clone[q] = NoClone
      BY ProcFacts DEF ProtocolOK
    <3> QED BY <1>4, <1>7, <3>1, NoCloneFacts
  <2>2. clone[q].child <= lastVmid
    BY <2>1 DEF IdInv, GlobalInv
  <2> QED BY <1>2, <1>4, <1>7, <2>2
<1>8. CASE mine[p].last = NoRange
  <2>1. /\ idRequests' = [idRequests EXCEPT ![p] = @ \cup {AllocMsg}]
        /\ idLock' = [idLock EXCEPT ![p] = "alloc"]
        /\ clone' = [clone EXCEPT ![p] = IF dest = NoProc THEN @
                                         ELSE [step |-> "range", child |-> dest, id |-> 0]]
        /\ mine' = mine /\ idThreads' = idThreads /\ timesGiven' = timesGiven
    BY <1>3, <1>8 DEF GetNewId, IdSend, AllocMsg
  <2> QED BY <1>1, <1>5, <1>6, <1>7, <1>8, <2>1, AskRangeKeeps
<1>9. CASE mine[p].last # NoRange
  <2>1. PICK m, rp2 : m = mine[p] /\ rp2 = idReplies[p]
    OBVIOUS
  <2>2. TakeId(p, m, dest)
    BY <1>3, <1>9, <2>1 DEF GetNewId
  <2>3. /\ m \in MineRec /\ m.last # NoRange /\ NoneIn(rp2) /\ RepliesOK(rp2)
        /\ AllocMsg \notin idRequests[p] /\ clone[p].step \in {"none", "range"}
        /\ ClaimsOK(owners, p, clone[p], idRequests[p], rp2)
        /\ LiveOK(owners, p, m, idThreads[p], clone[p], idRequests[p], rp2, lastId, timesGiven)
        /\ DOMAIN idReplies' = IdProcs
    BY <1>1, <1>9, <2>1, ReadyFacts, NoCloneFacts
  <2>4. idLock[p] # "move" /\ idReplies'[p] = rp2
    BY <1>1, <2>1
  <2>5. dest # NoProc => /\ clone[p].step \in {"none", "range"}
                         /\ dest <= lastVmid' /\ idProc[dest] = "unborn"
                         /\ \A q \in IdProcs : clone[q].child = dest => q = p
    BY <1>5, <1>6, <1>7, <2>3
  <2> QED BY <1>1, <1>4, <1>5, <2>1, <2>2, <2>3, <2>4, <2>5, TakeIdKeeps
<1> QED BY <1>8, <1>9

(* The leader has answered: the range is taken up, or get_new_id gives up. *)
LEMMA GotRangeKeeps ==
    ASSUME IdInv, NEW p \in IdProcs, GotRange(p)
    PROVE  IdInv'
<1>1. PICK rp2 : rp2 = idReplies'[p]
  OBVIOUS
<1>2. PICK dest \in IdProcs \cup {NoProc} : dest = IF clone[p].step = "range" THEN clone[p].child ELSE NoProc
  <2>1. clone[p].step = "range" => clone[p].child \in IdProcs
    BY DEF IdInv, GlobalInv
  <2> QED BY <2>1
<1>3. PICK s \in Nat, e \in Nat :
        /\ AllocReply(s, e) \in idReplies[p]
        /\ \/ /\ s = 0
              /\ idLock' = [idLock EXCEPT ![p] = "free"]
              /\ clone' = [clone EXCEPT ![p] = IF dest = NoProc THEN @ ELSE NoClone]
              /\ UNCHANGED <<mine, idThreads, idRequests, timesGiven>>
           \/ /\ s # 0
              /\ TakeId(p, FreshRanges(IdRange(s, e, 0), mine[p].used, s - 1), dest)
  <2>1. PICK r \in idReplies[p] :
          /\ r.to = "alloc"
          /\ \/ /\ r.start = 0
                /\ idLock' = [idLock EXCEPT ![p] = "free"]
                /\ clone' = [clone EXCEPT ![p] = IF dest = NoProc THEN @ ELSE NoClone]
                /\ UNCHANGED <<mine, idThreads, idRequests, timesGiven>>
             \/ /\ r.start # 0
                /\ TakeId(p, FreshRanges(IdRange(r.start, r.end, 0), mine[p].used, r.start - 1), dest)
    BY <1>2 DEF GotRange
  <2>2. RepliesOK(idReplies[p])
    BY ProcFacts
  <2>3. PICK s \in Nat, e \in Nat : r = AllocReply(s, e)
    BY <2>1, <2>2, ReplyFacts DEF RepliesOK
  <2>4. r.start = s /\ r.end = e
    BY <2>3, ReplyFacts
  <2> QED BY <2>1, <2>3, <2>4
<1>4. /\ owners' = owners /\ lastId' = lastId /\ lastVmid' = lastVmid /\ idFatal' = idFatal
      /\ idProc' = idProc /\ mainId' = mainId /\ idProc[p] = "up"
  BY DEF GotRange, leaderVars
<1>5. /\ rp2 = {r \in idReplies[p] : r.to # "alloc"} /\ DOMAIN idReplies' = IdProcs
      /\ \A q \in IdProcs : q # p => idReplies'[q] = idReplies[q]
  BY <1>1 DEF GotRange, IdReceive, IdInv, IdTypeOK
<1> DEFINE cl == clone[p]   rq == idRequests[p]   rp == idReplies[p]   m == mine[p]   th == idThreads[p]
<1>6. /\ owners \in SUBSET OwnerRec /\ TreeOK(owners, lastId) /\ lastId \in Nat
      /\ m \in MineRec /\ cl \in CloneRec /\ th \in SUBSET (1 .. PID_MAX)
      /\ RequestsOK(rq) /\ RepliesOK(rp)
      /\ ProtocolOK(p, idProc[p], m, th, idLock[p], cl, rq, rp)
      /\ ClaimsOK(owners, p, cl, rq, rp)
      /\ LiveOK(owners, p, m, th, cl, rq, rp, lastId, timesGiven)
  BY <1>4, ProcFacts
<1>7. /\ DOMAIN idRequests = IdProcs /\ clone \in [IdProcs -> CloneRec]
      /\ idLock \in [IdProcs -> {"free", "alloc", "move"}] /\ GlobalInv
      /\ lastVmid \in IdProcs /\ IdProcs \subseteq Int /\ NoProc \notin IdProcs
  BY NoCloneFacts DEF IdInv, IdTypeOK
<1>77. rp2 = {r \in rp : r.to # "alloc"}
  BY <1>5
<1> HIDE DEF cl, rq, rp, m, th
<1>8. /\ RepliesOK(rp2) /\ (MoveReply \in rp2 <=> MoveReply \in rp)
      /\ (BackReply \in rp2 <=> BackReply \in rp) /\ NoneIn(rp2)
      /\ \A s2, e2 : AllocReply(s2, e2) \notin rp2
  <2>1. /\ RepliesOK(rp2) /\ (MoveReply \in rp2 <=> MoveReply \in rp)
        /\ (BackReply \in rp2 <=> BackReply \in rp)
        /\ \A s2, e2 : AllocReply(s2, e2) \notin rp2
    BY <1>6, <1>77, ReceiveFacts
  <2> QED BY <2>1 DEF NoneIn
<1>9. AllocReply(s, e) \in rp
  BY <1>3 DEF rp
<1>10. /\ idLock[p] = "alloc" /\ m.last = NoRange /\ AllocMsg \notin rq /\ cl.step # "id"
       /\ \A s2, e2 \in Nat : AllocReply(s2, e2) \in rp => s2 = s /\ e2 = e
  BY <1>6, <1>9 DEF ProtocolOK
<1>11. CASE s = 0
  <2>1. /\ idLock' = [idLock EXCEPT ![p] = "free"]
        /\ clone' = [clone EXCEPT ![p] = IF dest = NoProc THEN @ ELSE NoClone]
        /\ mine' = mine /\ idThreads' = idThreads /\ idRequests' = idRequests /\ timesGiven' = timesGiven
    BY <1>3, <1>11
  <2>2. PICK cl2 : cl2 = clone'[p]
    OBVIOUS
  <2>3. /\ idLock'[p] = "free" /\ cl2 = (IF dest = NoProc THEN cl ELSE NoClone)
        /\ \A q \in IdProcs : q # p => idLock'[q] = idLock[q] /\ clone'[q] = clone[q]
        /\ idLock' \in [IdProcs -> {"free", "alloc", "move"}]
        /\ clone' \in [IdProcs -> CloneRec]
    BY <1>7, <2>1, <2>2, NoCloneFacts DEF cl
  <2>4. /\ dest = NoProc => cl2 = cl /\ cl.step # "range"
        /\ dest # NoProc => cl2 = NoClone /\ cl.step = "range"
    <3>1. cl.step = "range" => cl.child \in IdProcs
      BY <1>7 DEF GlobalInv, cl
    <3> QED BY <1>2, <1>7, <2>3, <3>1 DEF cl
  <2>5. InHand(cl2) => InHand(cl) /\ cl2 = cl
    BY <2>4, NoCloneFacts
  <2>6. dest # NoProc => /\ BackReply \notin rp /\ MoveReply \notin rp
                         /\ \A i \in Nat, q \in IdProcs : MoveMsg(i, q) \notin rq /\ BackMsg(i, q) \notin rq
    BY <1>6, <2>4 DEF ProtocolOK
  <2>7. ProcInv(p)'
    <3>1. ProtocolOK(p, idProc[p], m, th, "free", cl2, rq, rp2)
      <4>1. CASE dest = NoProc
        BY <1>6, <1>8, <1>10, <2>4, <4>1 DEF ProtocolOK
      <4>2. CASE dest # NoProc
        BY <1>6, <1>8, <1>10, <2>4, <2>6, <4>2, NoCloneFacts DEF ProtocolOK
      <4> QED BY <4>1, <4>2
    <3>2. ClaimsOK(owners, p, cl2, rq, rp2)
      <4>1. CASE dest = NoProc
        BY <1>6, <1>8, <2>4, <4>1 DEF ClaimsOK
      <4>2. CASE dest # NoProc
        <5>1. BackMsg(NoClone.id, p) \notin rq
          BY <2>6, <4>2, NoCloneFacts
        <5> QED BY <1>6, <1>8, <2>4, <2>6, <4>2, <5>1, NoCloneFacts DEF ClaimsOK
      <4> QED BY <4>1, <4>2
    <3>3. LiveOK(owners, p, m, th, cl2, rq, rp2, lastId, timesGiven)
      <4>1. \A s2, e2 \in Nat : s2 # 0 /\ AllocReply(s2, e2) \in rp => AllocReply(s2, e2) \in rp2
        BY <1>10, <1>11
      <4>2. BackReply \in rp => BackReply \in rp2 /\ cl2.id = cl.id
        BY <1>8, <2>4, <2>6
      <4> QED BY <1>6, <1>8, <2>5, <4>1, <4>2, LiveSame
    <3> QED BY <1>1, <1>4, <2>1, <2>2, <2>3, <3>1, <3>2, <3>3 DEF ProcInv, rq, m, th
  <2>8. \A q \in IdProcs : q # p => ProcInv(q)'
    BY <1>4, <1>5, <2>1, <2>3, QuietOthers DEF SameFor
  <2>9. IdTypeOK'
    <3>1. \A q \in IdProcs : RequestsOK(idRequests'[q]) /\ RepliesOK(idReplies'[q])
      BY <1>1, <1>5, <1>8, <2>1 DEF IdInv, IdTypeOK
    <3> QED BY <1>4, <1>5, <2>1, <2>3, <3>1 DEF IdInv, IdTypeOK
  <2>10. GlobalInv'
    <3>1. /\ \A q \in IdProcs : clone'[q].step # "none" => clone'[q] = clone[q]
          /\ \A q \in IdProcs : InHand(clone'[q]) => clone'[q] = clone[q]
          /\ \A q \in IdProcs : clone'[q].child \in IdProcs => clone'[q] = clone[q]
      BY <1>7, <2>2, <2>3, <2>4, NoCloneFacts DEF cl
    <3>2. ASSUME NEW x \in owners, idProc[x.owner] = "unborn"
          PROVE  \E q \in IdProcs : /\ clone'[q].step # "none" /\ clone'[q].child = x.owner
                                    /\ x.start = clone'[q].id /\ x.end = clone'[q].id
      <4>1. PICK q \in IdProcs : /\ clone[q].step # "none" /\ clone[q].child = x.owner
                                 /\ x.start = clone[q].id /\ x.end = clone[q].id
        BY <1>7, <3>2 DEF GlobalInv
      <4>2. q # p \/ cl2 = cl
        <5>1. x.start # 0
          BY <1>6 DEF TreeOK
        <5>2. dest # NoProc => cl.id = 0
          BY <1>6, <2>4 DEF ProtocolOK, InHand
        <5> QED BY <2>4, <4>1, <5>1, <5>2 DEF cl
      <4>3. clone'[q] = clone[q]
        BY <2>2, <2>3, <4>2 DEF cl
      <4> QED BY <4>1, <4>3
    <3>3. ASSUME NEW q \in IdProcs, NEW t \in IdProcs, clone'[q].step # "none",
                 clone'[t].child = clone'[q].child
          PROVE  t = q
      <4>1. clone'[q] = clone[q] /\ clone[q].child \in IdProcs
        BY <1>7, <3>1, <3>3 DEF GlobalInv
      <4>2. clone'[t] = clone[t]
        BY <3>1, <3>3, <4>1
      <4> QED BY <1>7, <3>3, <4>1, <4>2 DEF GlobalInv
    <3> QED BY <1>4, <1>7, <2>1, <3>1, <3>2, <3>3 DEF GlobalInv
  <2> QED BY <1>4, <1>6, <2>7, <2>8, <2>9, <2>10 DEF IdInv
<1>12. CASE s # 0
  <2>1. PICK m2 : m2 = FreshRanges(IdRange(s, e, 0), m.used, s - 1)
    OBVIOUS
  <2>3. TakeId(p, m2, dest)
    BY <1>3, <1>12, <2>1 DEF m
  <2>4. /\ m2 \in MineRec /\ m2.last # NoRange
        /\ ClaimsOK(owners, p, cl, rq, rp2) /\ LiveOK(owners, p, m2, th, cl, rq, rp2, lastId, timesGiven)
    <3>1. \A s2, e2 \in Nat : AllocReply(s2, e2) \in rp => s2 = s /\ e2 = e
      BY <1>10
    <3>2. s \in Nat /\ e \in Nat /\ s # 0 /\ m.last = NoRange
      BY <1>10, <1>12
    <3>3. /\ owners \in SUBSET OwnerRec /\ TreeOK(owners, lastId) /\ lastId \in Nat
          /\ m \in MineRec /\ cl \in CloneRec /\ th \in SUBSET (1 .. PID_MAX) /\ RepliesOK(rp)
          /\ ClaimsOK(owners, p, cl, rq, rp)
          /\ LiveOK(owners, p, m, th, cl, rq, rp, lastId, timesGiven)
      BY <1>6
    <3> QED BY <1>77, <1>9, <2>1, <3>1, <3>2, <3>3, GotRangeOK
  <2>5. /\ dest = NoProc => clone[p].step # "range"
        /\ dest # NoProc => /\ clone[p].step \in {"none", "range"}
                            /\ dest <= lastVmid' /\ idProc[dest] = "unborn"
                            /\ \A q \in IdProcs : clone[q].child = dest => q = p
    <3>1. clone[p].step = "range" =>
            /\ clone[p].child \in IdProcs /\ clone[p].child <= lastVmid
            /\ idProc[clone[p].child] = "unborn"
            /\ \A q \in IdProcs : clone[q].child = clone[p].child => q = p
      BY <1>7 DEF GlobalInv
    <3> QED BY <1>2, <1>4, <1>7, <3>1
  <2>6. lastVmid' \in IdProcs /\ lastVmid <= lastVmid'
    BY <1>4, <1>7
  <2>7. idLock[p] # "move" /\ idReplies'[p] = rp2
    BY <1>1, <1>10
  <2> QED BY <1>4, <1>5, <1>8, <1>10, <2>3, <2>4, <2>5, <2>6, <2>7, TakeIdKeeps DEF cl, rq, rp, th
<1> QED BY <1>11, <1>12


-----------------------------------------------------------------------------
(* Steps of the leader *)

(* A request of process p changes the entries of p and of the child that p *)
(* makes, and of nobody else: the child does not exist yet.                *)
LEMMA LeaderStep ==
    ASSUME IdInv, NEW p \in IdProcs, idProc[p] # "unborn",
           owners' \in SUBSET OwnerRec, lastId' \in 1 .. PID_MAX, lastId <= lastId',
           TreeOK(owners', lastId'), idFatal' \in {"no", "limit"},
           lastVmid' = lastVmid, mine' = mine, idProc' = idProc, idThreads' = idThreads,
           mainId' = mainId, idLock' = idLock, clone' = clone, timesGiven' = timesGiven,
           RequestsOK(idRequests'[p]), RepliesOK(idReplies'[p]),
           DOMAIN idRequests' = IdProcs, DOMAIN idReplies' = IdProcs,
           \A q \in IdProcs : q # p => idRequests'[q] = idRequests[q] /\ idReplies'[q] = idReplies[q],
           \A x \in owners' : \/ x \in owners \/ x.owner = p
                              \/ /\ clone[p].step # "none"
                                 /\ x = Owned(clone[p].id, clone[p].id, clone[p].child),
           \A x \in owners : x.owner \notin {p, clone[p].child} => x \in owners',
           ProcInv(p)'
    PROVE  IdInv'
<1>1. GlobalInv /\ lastId \in Nat /\ lastId' \in Nat /\ owners \in SUBSET OwnerRec
  <2>1. lastId \in Nat /\ owners \in SUBSET OwnerRec
    BY ProcFacts
  <2> QED BY <2>1, IdAssumption DEF IdInv
<1>2. \A q \in IdProcs : clone[q].step = "none" => clone[q].child = NoProc
  BY ProcFacts, NoCloneFacts DEF ProtocolOK
<1>3. ASSUME NEW q \in IdProcs, q # p PROVE ProcInv(q)'
  <2>1. SameFor(q)
    BY <1>3 DEF SameFor
  <2>2. idProc[q] # "unborn" => q # clone[p].child /\ clone[q].child # p
    BY <1>1, <1>2, NoCloneFacts DEF GlobalInv
  <2>3. \A x \in owners : x.owner = clone[q].child => clone[q].child # clone[p].child
    <3>1. \A x \in owners : x.owner \in IdProcs
      BY <1>1 DEF OwnerRec
    <3> QED BY <1>1, <1>2, <1>3, <3>1, NoCloneFacts DEF GlobalInv
  <2>4. idProc[q] = "unborn" \/ \A x \in owners : x.owner \in {q, clone[q].child} => x \in owners'
    BY <1>3, <2>2, <2>3
  <2>5. idProc[q] = "up" => \A x : x.owner = q => (x \in owners <=> x \in owners')
    BY <1>3, <2>2, OwnedFacts
  <2> QED BY <1>1, <2>1, <2>4, <2>5, OthersKeep
<1>4. GlobalInv'
  <2>1. \A i \in 1 .. PID_MAX : lastId' < i => timesGiven[i] = 0
    BY <1>1 DEF GlobalInv
  <2>2. ASSUME NEW x \in owners', idProc[x.owner] = "unborn"
        PROVE  \E q \in IdProcs : /\ clone[q].step # "none" /\ clone[q].child = x.owner
                                  /\ x.start = clone[q].id /\ x.end = clone[q].id
    <3>1. CASE x \in owners
      BY <1>1, <2>2, <3>1 DEF GlobalInv
    <3>2. CASE x \notin owners
      BY <2>2, <3>2, OwnedFacts
    <3> QED BY <3>1, <3>2
  <2> QED BY <1>1, <2>1, <2>2 DEF GlobalInv
<1>5. IdTypeOK'
  <2>1. \A q \in IdProcs : RequestsOK(idRequests'[q]) /\ RepliesOK(idReplies'[q])
    BY DEF IdInv, IdTypeOK
  <2> QED BY <2>1 DEF IdInv, IdTypeOK
<1> QED BY <1>3, <1>4, <1>5 DEF IdInv, TreeOK

(* What the leader knows when a request of process p comes. *)
LEMMA SenderFacts ==
    ASSUME IdInv, NEW p \in IdProcs, idRequests[p] # {}
    PROVE  idProc[p] # "unborn" /\ GlobalInv /\ DOMAIN idRequests = IdProcs /\ DOMAIN idReplies = IdProcs
<1>1. idProc[p] # "unborn"
  BY ProcFacts DEF ProtocolOK
<1> QED BY <1>1 DEF IdInv, IdTypeOK

(* The other variables stay when the leader handles a request. *)
LeaderOnly(p, msg) ==
    /\ idRequests' = [idRequests EXCEPT ![p] = @ \ {msg}]
    /\ UNCHANGED <<lastVmid, mine, idProc, idThreads, mainId, idLock, clone, timesGiven>>

(* A new range: alloc_id_range. *)
LEMMA AllocKeeps ==
    ASSUME IdInv, NEW p \in IdProcs, idFatal = "no", AllocMsg \in idRequests[p],
           LeaderOnly(p, AllocMsg), AllocIdRange(p)
    PROVE  IdInv'
<1> DEFINE cl == clone[p]   rq == idRequests[p]   rp == idReplies[p]   m == mine[p]   th == idThreads[p]
           rq2 == idRequests'[p]   rp2 == idReplies'[p]
<1>1. /\ owners \in SUBSET OwnerRec /\ TreeOK(owners, lastId) /\ lastId \in Nat /\ lastId \in 1 .. PID_MAX
      /\ m \in MineRec /\ cl \in CloneRec /\ cl.id \in Nat /\ RequestsOK(rq) /\ RepliesOK(rp)
      /\ ProtocolOK(p, idProc[p], m, th, idLock[p], cl, rq, rp)
      /\ ClaimsOK(owners, p, cl, rq, rp)
      /\ idProc[p] = "up" => LiveOK(owners, p, m, th, cl, rq, rp, lastId, timesGiven)
  BY ProcFacts
<1>2. idProc[p] # "unborn" /\ GlobalInv /\ DOMAIN idRequests = IdProcs /\ DOMAIN idReplies = IdProcs
  BY SenderFacts
<1>3. /\ lastVmid' = lastVmid /\ mine' = mine /\ idProc' = idProc /\ idThreads' = idThreads
      /\ mainId' = mainId /\ idLock' = idLock /\ clone' = clone /\ timesGiven' = timesGiven
      /\ rq2 = rq \ {AllocMsg} /\ DOMAIN idRequests' = IdProcs
      /\ \A q \in IdProcs : q # p => idRequests'[q] = idRequests[q]
  BY <1>2 DEF LeaderOnly
<1>4. \/ owners' = owners /\ lastId' = lastId /\ idReplies' = idReplies /\ idFatal' = "limit"
      \/ \E s, e \in Nat :
            /\ idReplies' = [idReplies EXCEPT ![p] = @ \cup {AllocReply(s, e)}] /\ idFatal' = "no"
            /\ \/ s = 0 /\ e = 0 /\ owners' = owners /\ lastId' = lastId
               \/ /\ lastId < s /\ s <= e /\ e <= PID_MAX /\ lastId' = e
                  /\ owners' = owners \cup {Owned(s, e, p)}
  <2>1. CASE idReplies' = [idReplies EXCEPT ![p] =
                  @ \cup {[to |-> "alloc", start |-> NoRange.start, end |-> NoRange.end]}]
             /\ UNCHANGED <<owners, lastId, idFatal>>
    <3>1. NoRange.start = 0 /\ NoRange.end = 0
      BY DEF NoRange
    <3> QED BY <2>1, <3>1 DEF AllocReply
  <2>2. CASE idFatal' = "limit" /\ UNCHANGED <<owners, lastId, idReplies>>
    BY <2>2
  <2>3. CASE /\ FreeRange # NoRange
             /\ owners' = owners \cup {Owned(FreeRange.start, FreeRange.end, p)}
             /\ lastId' = FreeRange.end
             /\ idReplies' = [idReplies EXCEPT ![p] =
                  @ \cup {[to |-> "alloc", start |-> FreeRange.start, end |-> FreeRange.end]}]
             /\ UNCHANGED idFatal
    <3>1. /\ FreeRange.start \in Nat /\ FreeRange.end \in Nat
          /\ lastId < FreeRange.start /\ FreeRange.start <= FreeRange.end
          /\ FreeRange.end <= PID_MAX
      BY <1>1, <2>3, FreeRangeFacts
    <3> QED BY <2>3, <3>1 DEF AllocReply
  <2> QED BY <2>1, <2>2, <2>3 DEF AllocIdRange
<1> HIDE DEF cl, rq, rp, m, th, rq2, rp2
<1>5. AllocMsg \in rq
  BY DEF rq
<1>6. /\ NoneIn(rp) /\ idLock[p] = "alloc" /\ AllocMsg \notin rq2
  BY <1>1, <1>3, <1>5 DEF ProtocolOK, NoneIn
<1>7. /\ \A i, c : MoveMsg(i, c) \in rq2 <=> MoveMsg(i, c) \in rq
      /\ \A i, c : BackMsg(i, c) \in rq2 <=> BackMsg(i, c) \in rq
      /\ \A s, e : ReleaseMsg(s, e) \in rq2 <=> ReleaseMsg(s, e) \in rq
      /\ RequestsOK(rq2)
  BY <1>1, <1>3, MsgFacts DEF RequestsOK
<1>8. CASE owners' = owners /\ lastId' = lastId /\ idReplies' = idReplies /\ idFatal' = "limit"
  <2>1. rp2 = rp /\ \A q \in IdProcs : q # p => idReplies'[q] = idReplies[q]
    BY <1>8 DEF rp, rp2
  <2>2. ProtocolOK(p, idProc[p], m, th, idLock[p], cl, rq2, rp)
    BY <1>1, <1>2, <1>6, <1>7 DEF ProtocolOK
  <2>3. ClaimsOK(owners, p, cl, rq2, rp)
    BY <1>1, <1>7 DEF ClaimsOK
  <2>4. idProc[p] = "up" => LiveOK(owners, p, m, th, cl, rq2, rp, lastId, timesGiven)
    BY <1>1, <1>7, LiveSame
  <2>5. ProcInv(p)'
    BY <1>3, <1>8, <2>1, <2>2, <2>3, <2>4 DEF ProcInv, cl, rq2, rp, rp2, m, th
  <2>6. RequestsOK(idRequests'[p]) /\ RepliesOK(idReplies'[p])
    BY <1>1, <1>7, <2>1 DEF rq2, rp2
  <2> QED BY <1>1, <1>2, <1>3, <1>8, <2>1, <2>5, <2>6, LeaderStep
<1>9. ASSUME NEW s \in Nat, NEW e \in Nat,
             idReplies' = [idReplies EXCEPT ![p] = @ \cup {AllocReply(s, e)}], idFatal' = "no",
             \/ s = 0 /\ e = 0 /\ owners' = owners /\ lastId' = lastId
             \/ /\ lastId < s /\ s <= e /\ e <= PID_MAX /\ lastId' = e
                /\ owners' = owners \cup {Owned(s, e, p)}
      PROVE  IdInv'
  <2>1. /\ rp2 = rp \cup {AllocReply(s, e)} /\ DOMAIN idReplies' = IdProcs
        /\ \A q \in IdProcs : q # p => idReplies'[q] = idReplies[q]
    BY <1>2, <1>9 DEF rp, rp2
  <2>2. PID_MAX \in Nat
    BY IdAssumption
  <2>3. /\ lastId' \in Nat /\ lastId' \in 1 .. PID_MAX /\ lastId <= lastId'
        /\ owners \subseteq owners' /\ (s # 0 => Owned(s, e, p) \in owners')
        /\ \A x \in owners' : x \in owners \/ x = Owned(s, e, p)
    BY <1>1, <1>9, <2>2
  <2>4. owners' \in SUBSET OwnerRec
    BY <1>1, <1>9, OwnedFacts
  <2>5. TreeOK(owners', lastId')
    <3>1. CASE owners' = owners /\ lastId' = lastId
      BY <1>1, <3>1
    <3>2. CASE /\ lastId < s /\ s <= e /\ e <= PID_MAX /\ lastId' = e
               /\ owners' = owners \cup {Owned(s, e, p)}
      <4>1. \A x \in owners : x.start \in Nat /\ x.end \in Nat
        BY <1>1 DEF OwnerRec
      <4>2. \A x \in owners : 1 <= x.start /\ x.start <= x.end /\ x.end <= lastId
        BY <1>1 DEF TreeOK
      <4>3. \A x \in owners' : x \in owners \/ (x.start = s /\ x.end = e)
        BY <3>2, OwnedFacts
      <4>4. \A x \in owners' : 1 <= x.start /\ x.start <= x.end /\ x.end <= e
        BY <1>1, <3>2, <4>1, <4>2, <4>3
      <4>5. ASSUME NEW x \in owners', NEW y \in owners' PROVE x = y \/ Apart(x, y)
        <5>1. CASE x \in owners /\ y \in owners
          BY <1>1, <5>1 DEF TreeOK
        <5>2. CASE x \in owners /\ y \notin owners
          BY <1>1, <3>2, <4>1, <4>2, <4>3, <5>2 DEF Apart
        <5>3. CASE x \notin owners /\ y \in owners
          BY <1>1, <3>2, <4>1, <4>2, <4>3, <5>3 DEF Apart
        <5>4. CASE x \notin owners /\ y \notin owners
          BY <3>2, <5>4
        <5> QED BY <5>1, <5>2, <5>3, <5>4
      <4> QED BY <3>2, <4>4, <4>5 DEF TreeOK
    <3> QED BY <1>9, <3>1, <3>2
  <2>6. \A s2, e2 \in Nat : ReleaseMsg(s2, e2) \in rq => e2 < s \/ e < s2
    <3>1. ASSUME NEW s2 \in Nat, NEW e2 \in Nat, ReleaseMsg(s2, e2) \in rq
          PROVE  1 <= s2 /\ s2 <= e2 /\ e2 <= lastId
      <4>1. Owned(s2, e2, p) \in owners
        BY <1>1, <3>1 DEF ClaimsOK
      <4> QED BY <1>1, <4>1, OwnedFacts DEF TreeOK
    <3> QED BY <1>1, <1>9, <3>1
  <2>7. InHand(cl) => cl.id < s \/ e < cl.id
    <3>1. InHand(cl) => cl.id \in 1 .. PID_MAX
      BY <1>1 DEF ProtocolOK
    <3>2. InHand(cl) => timesGiven[cl.id] = 1
      BY <1>2 DEF GlobalInv, cl
    <3>3. InHand(cl) => cl.id <= lastId
      BY <1>1, <1>2, <3>1, <3>2 DEF GlobalInv
    <3> QED BY <1>1, <1>9, <3>1, <3>3
  <2>8. \A r \in Ranges(m) : idProc[p] = "up" => r.end < s \/ e < r.start
    <3>1. \A r \in Ranges(m) : r.start \in Nat /\ r.end \in Nat
      BY <1>1, RangeFacts
    <3>2. \A r \in Ranges(m) : idProc[p] = "up" => 1 <= r.start /\ r.end <= lastId
      BY <1>1 DEF LiveOK, RangesOK
    <3> QED BY <1>1, <1>9, <3>1, <3>2
  <2>9. s # 0 => \A i \in s .. e : timesGiven[i] = 0
    BY <1>1, <1>2, <1>9, <2>2 DEF GlobalInv
  <2>10. ProtocolOK(p, idProc[p], m, th, idLock[p], cl, rq2, rp2)
    <3>1. /\ MoveReply \in rp2 <=> MoveReply \in rp
          /\ BackReply \in rp2 <=> BackReply \in rp
          /\ \A s2, e2 \in Nat : AllocReply(s2, e2) \in rp2 => s2 = s /\ e2 = e
      BY <1>6, <2>1, ReplyFacts DEF NoneIn
    <3> QED BY <1>1, <1>2, <1>6, <1>7, <3>1 DEF ProtocolOK
  <2>11. ClaimsOK(owners', p, cl, rq2, rp2)
    BY <1>1, <1>3, <1>6, <2>1, <2>3, <2>6, <2>7, AllocClaims
  <2>12. idProc[p] = "up" => LiveOK(owners', p, m, th, cl, rq2, rp2, lastId', timesGiven)
    <3>1. SUFFICES ASSUME idProc[p] = "up" PROVE LiveOK(owners', p, m, th, cl, rq2, rp2, lastId', timesGiven)
      OBVIOUS
    <3>2. LiveOK(owners, p, m, th, cl, rq, rp, lastId, timesGiven)
      BY <1>1, <3>1
    <3>3. \A r \in Ranges(m) : r.end < s \/ e < r.start
      BY <2>8, <3>1
    <3> QED BY <1>1, <1>3, <1>6, <2>1, <2>3, <2>9, <3>2, <3>3, AllocLive
  <2>13. ProcInv(p)'
    BY <1>3, <2>10, <2>11, <2>12 DEF ProcInv, cl, rq2, rp2, m, th
  <2>14. RequestsOK(idRequests'[p]) /\ RepliesOK(idReplies'[p])
    <3>1. RepliesOK(rp2)
      BY <1>1, <2>1 DEF RepliesOK
    <3> QED BY <1>7, <3>1 DEF rq2, rp2
  <2>15. /\ \A x \in owners' : \/ x \in owners \/ x.owner = p
         /\ \A x \in owners : x \in owners'
    BY <2>3, OwnedFacts
  <2> QED BY <1>2, <1>3, <1>9, <2>1, <2>3, <2>4, <2>5, <2>13, <2>14, <2>15, LeaderStep
<1> QED BY <1>4, <1>8, <1>9


(* An id goes to a new process: change_id_owner. *)
LEMMA MoveKeeps ==
    ASSUME IdInv, NEW p \in IdProcs, idFatal = "no", NEW id \in Nat, NEW q \in IdProcs,
           MoveMsg(id, q) \in idRequests[p], LeaderOnly(p, MoveMsg(id, q)),
           ChangeIdOwner(p, MoveMsg(id, q))
    PROVE  IdInv'
<1> DEFINE cl == clone[p]   rq == idRequests[p]   rp == idReplies[p]   m == mine[p]   th == idThreads[p]
           rq2 == idRequests'[p]   rp2 == idReplies'[p]
<1>1. /\ owners \in SUBSET OwnerRec /\ TreeOK(owners, lastId) /\ lastId \in Nat /\ lastId \in 1 .. PID_MAX
      /\ m \in MineRec /\ cl \in CloneRec /\ RequestsOK(rq) /\ RepliesOK(rp)
      /\ ProtocolOK(p, idProc[p], m, th, idLock[p], cl, rq, rp)
      /\ ClaimsOK(owners, p, cl, rq, rp)
      /\ idProc[p] = "up" => LiveOK(owners, p, m, th, cl, rq, rp, lastId, timesGiven)
  BY ProcFacts
<1>2. idProc[p] # "unborn" /\ GlobalInv /\ DOMAIN idRequests = IdProcs /\ DOMAIN idReplies = IdProcs
  BY SenderFacts
<1>3. /\ lastVmid' = lastVmid /\ mine' = mine /\ idProc' = idProc /\ idThreads' = idThreads
      /\ mainId' = mainId /\ idLock' = idLock /\ clone' = clone /\ timesGiven' = timesGiven
      /\ rq2 = rq \ {MoveMsg(id, q)} /\ DOMAIN idRequests' = IdProcs
      /\ \A r \in IdProcs : r # p => idRequests'[r] = idRequests[r]
  BY <1>2 DEF LeaderOnly
<1>4. MoveMsg(id, q) \in rq
  OBVIOUS
<1>5. /\ MoveMsg(id, q).id = id /\ MoveMsg(id, q).owner = q /\ [to |-> MoveMsg(id, q).to] = MoveReply
  BY DEF MoveMsg, MoveReply
<1> HIDE DEF cl, rq, rp, m, th, rq2, rp2
<1>6. /\ cl.step = "id" /\ cl.child = q /\ cl.id = id /\ MoveReply \notin rp /\ BackReply \notin rp
      /\ \A i \in Nat, c \in IdProcs : MoveMsg(i, c) \in rq => i = id /\ c = q
      /\ \A i \in Nat, c \in IdProcs : BackMsg(i, c) \notin rq
  BY <1>1, <1>4 DEF ProtocolOK
<1>7. PICK x \in owners : x.owner = p /\ InIdRange(id, x)
  BY <1>1, <1>4 DEF ClaimsOK
<1>8. /\ owners' = ChangeOwner(owners, id, q) /\ lastId' = lastId /\ idFatal' = "no"
      /\ idReplies' = [idReplies EXCEPT ![p] = @ \cup {MoveReply}]
  BY <1>5, <1>7 DEF ChangeIdOwner
<1>9. /\ rp2 = rp \cup {MoveReply} /\ DOMAIN idReplies' = IdProcs
      /\ \A r \in IdProcs : r # p => idReplies'[r] = idReplies[r]
  BY <1>2, <1>8 DEF rp, rp2
<1>10. q # p /\ idProc[q] = "unborn"
  BY <1>2, <1>6 DEF GlobalInv, cl
<1>11. /\ \A y : y \in owners' <=>
             \/ y \in owners /\ y # x
             \/ y = Owned(id, id, q)
             \/ x.start < id /\ y = Owned(x.start, id - 1, p)
             \/ id < x.end /\ y = Owned(id + 1, x.end, p)
       /\ owners' \in SUBSET OwnerRec /\ TreeOK(owners', lastId)
  <2>1. PICK o2 : o2 = ChangeOwner(owners, id, q)
    OBVIOUS
  <2>2. /\ \A y : y \in o2 <=>
              \/ y \in owners /\ y # x
              \/ y = Owned(id, id, q)
              \/ x.start < id /\ y = Owned(x.start, id - 1, x.owner)
              \/ id < x.end /\ y = Owned(id + 1, x.end, x.owner)
        /\ o2 \in SUBSET OwnerRec /\ TreeOK(o2, lastId)
    <3>1. CutInto(owners, o2, x, id, q) /\ o2 \in SUBSET OwnerRec /\ TreeOK(o2, lastId)
      BY <1>1, <1>7, <2>1, CutFacts
    <3> QED BY <3>1 DEF CutInto
  <2>3. owners' = o2
    BY <1>8, <2>1
  <2> QED BY <1>7, <2>2, <2>3
<1>12. TreeCut(owners, owners', x, id, p, q)
  BY <1>11 DEF TreeCut
<1>13. /\ \A i, c : MoveMsg(i, c) \in rq2 => MoveMsg(i, c) \in rq
       /\ \A i \in Nat, c \in IdProcs : MoveMsg(i, c) \notin rq2
       /\ \A i, c : BackMsg(i, c) \in rq2 <=> BackMsg(i, c) \in rq
       /\ \A s, e : ReleaseMsg(s, e) \in rq2 <=> ReleaseMsg(s, e) \in rq
       /\ AllocMsg \in rq2 <=> AllocMsg \in rq
       /\ RequestsOK(rq2)
  BY <1>1, <1>3, <1>6, MsgFacts DEF RequestsOK
<1>14. /\ MoveReply \in rp2 /\ BackReply \notin rp2
       /\ \A s, e : AllocReply(s, e) \in rp2 <=> AllocReply(s, e) \in rp
       /\ RepliesOK(rp2)
  BY <1>1, <1>6, <1>9, ReplyFacts DEF RepliesOK
<1>15. ProtocolOK(p, idProc[p], m, th, idLock[p], cl, rq2, rp2)
  BY <1>1, <1>2, <1>6, <1>13, <1>14 DEF ProtocolOK
<1>16. ClaimsOK(owners', p, cl, rq2, rp2)
  <2>1. BackMsg(id, p) \notin rq
    BY <1>6
  <2> QED BY <1>1, <1>3, <1>6, <1>7, <1>8, <1>9, <2>1, MoveClaims
<1>17. idProc[p] = "up" => LiveOK(owners', p, m, th, cl, rq2, rp2, lastId, timesGiven)
  <2>1. SUFFICES ASSUME idProc[p] = "up" PROVE LiveOK(owners', p, m, th, cl, rq2, rp2, lastId, timesGiven)
    OBVIOUS
  <2>2. LiveOK(owners, p, m, th, cl, rq, rp, lastId, timesGiven)
    BY <1>1, <2>1
  <2> QED BY <1>1, <1>3, <1>4, <1>6, <1>7, <1>9, <1>10, <1>12, <2>2, MoveLive
<1>18. ProcInv(p)'
  BY <1>3, <1>8, <1>15, <1>16, <1>17 DEF ProcInv, cl, rq2, rp2, m, th
<1>19. RequestsOK(idRequests'[p]) /\ RepliesOK(idReplies'[p])
  BY <1>13, <1>14 DEF rq2, rp2
<1>20. /\ \A y \in owners' : \/ y \in owners \/ y.owner = p
                             \/ /\ clone[p].step # "none"
                                /\ y = Owned(clone[p].id, clone[p].id, clone[p].child)
       /\ \A y \in owners : y.owner \notin {p, clone[p].child} => y \in owners'
  BY <1>6, <1>7, <1>11, OwnedFacts DEF cl
<1>21. lastId' \in 1 .. PID_MAX /\ lastId <= lastId' /\ TreeOK(owners', lastId')
  BY <1>1, <1>8, <1>11
<1> QED BY <1>2, <1>3, <1>8, <1>9, <1>11, <1>18, <1>19, <1>20, <1>21, LeaderStep

(* An id comes back from a process that was not made: change_id_owner. *)
LEMMA BackKeeps ==
    ASSUME IdInv, NEW p \in IdProcs, idFatal = "no", NEW id \in Nat, NEW q \in IdProcs,
           BackMsg(id, q) \in idRequests[p], LeaderOnly(p, BackMsg(id, q)),
           ChangeIdOwner(p, BackMsg(id, q))
    PROVE  IdInv'
<1> DEFINE cl == clone[p]   rq == idRequests[p]   rp == idReplies[p]   m == mine[p]   th == idThreads[p]
           rq2 == idRequests'[p]   rp2 == idReplies'[p]
<1>1. /\ owners \in SUBSET OwnerRec /\ TreeOK(owners, lastId) /\ lastId \in Nat /\ lastId \in 1 .. PID_MAX
      /\ m \in MineRec /\ cl \in CloneRec /\ RequestsOK(rq) /\ RepliesOK(rp)
      /\ ProtocolOK(p, idProc[p], m, th, idLock[p], cl, rq, rp)
      /\ ClaimsOK(owners, p, cl, rq, rp)
      /\ idProc[p] = "up" => LiveOK(owners, p, m, th, cl, rq, rp, lastId, timesGiven)
  BY ProcFacts
<1>2. idProc[p] # "unborn" /\ GlobalInv /\ DOMAIN idRequests = IdProcs /\ DOMAIN idReplies = IdProcs
  BY SenderFacts
<1>3. /\ lastVmid' = lastVmid /\ mine' = mine /\ idProc' = idProc /\ idThreads' = idThreads
      /\ mainId' = mainId /\ idLock' = idLock /\ clone' = clone /\ timesGiven' = timesGiven
      /\ rq2 = rq \ {BackMsg(id, q)} /\ DOMAIN idRequests' = IdProcs
      /\ \A r \in IdProcs : r # p => idRequests'[r] = idRequests[r]
  BY <1>2 DEF LeaderOnly
<1>4. BackMsg(id, q) \in rq
  OBVIOUS
<1>5. /\ BackMsg(id, q).id = id /\ BackMsg(id, q).owner = q /\ [to |-> BackMsg(id, q).to] = BackReply
  BY DEF BackMsg, BackReply
<1> HIDE DEF cl, rq, rp, m, th, rq2, rp2
<1>6. /\ cl.step = "back" /\ q = p /\ cl.id = id /\ MoveReply \notin rp /\ BackReply \notin rp
      /\ \A i \in Nat, c \in IdProcs : MoveMsg(i, c) \notin rq
      /\ \A i \in Nat, c \in IdProcs : BackMsg(i, c) \in rq => i = id /\ c = p
  BY <1>1, <1>4 DEF ProtocolOK
<1>7. PICK c \in IdProcs : c = cl.child
  BY <1>2, <1>6 DEF GlobalInv, cl
<1>8. c # p /\ idProc[c] = "unborn"
  BY <1>2, <1>6, <1>7 DEF GlobalInv, cl
<1>9. PICK x \in owners : x = Owned(id, id, c)
  BY <1>1, <1>4, <1>6, <1>7 DEF ClaimsOK
<1>10. InIdRange(id, x) /\ x.start = id /\ x.end = id /\ x.owner = c
  BY <1>9, OwnedFacts DEF InIdRange
<1>11. /\ owners' = ChangeOwner(owners, id, p) /\ lastId' = lastId /\ idFatal' = "no"
       /\ idReplies' = [idReplies EXCEPT ![p] = @ \cup {BackReply}]
  BY <1>5, <1>6, <1>10 DEF ChangeIdOwner
<1>12. /\ rp2 = rp \cup {BackReply} /\ DOMAIN idReplies' = IdProcs
       /\ \A r \in IdProcs : r # p => idReplies'[r] = idReplies[r]
  BY <1>2, <1>11 DEF rp, rp2
<1>13. /\ \A y : y \in owners' <=> (y \in owners /\ y # Owned(id, id, c)) \/ y = Owned(id, id, p)
       /\ owners' \in SUBSET OwnerRec /\ TreeOK(owners', lastId)
  <2>1. PICK o2 : o2 = ChangeOwner(owners, id, p)
    OBVIOUS
  <2>2. /\ \A y : y \in o2 <=>
              \/ y \in owners /\ y # x
              \/ y = Owned(id, id, p)
              \/ x.start < id /\ y = Owned(x.start, id - 1, x.owner)
              \/ id < x.end /\ y = Owned(id + 1, x.end, x.owner)
        /\ o2 \in SUBSET OwnerRec /\ TreeOK(o2, lastId)
    <3>1. CutInto(owners, o2, x, id, p) /\ o2 \in SUBSET OwnerRec /\ TreeOK(o2, lastId)
      BY <1>1, <1>10, <2>1, CutFacts
    <3> QED BY <3>1 DEF CutInto
  <2>3. owners' = o2
    BY <1>11, <2>1
  <2>4. ~(x.start < id) /\ ~(id < x.end)
    BY <1>10
  <2> QED BY <1>9, <2>2, <2>3, <2>4
<1>14. /\ \A i \in Nat, d \in IdProcs : MoveMsg(i, d) \notin rq2 /\ BackMsg(i, d) \notin rq2
       /\ \A s, e : ReleaseMsg(s, e) \in rq2 <=> ReleaseMsg(s, e) \in rq
       /\ AllocMsg \in rq2 <=> AllocMsg \in rq
       /\ RequestsOK(rq2)
  BY <1>1, <1>3, <1>6, MsgFacts DEF RequestsOK
<1>15. /\ MoveReply \notin rp2 /\ BackReply \in rp2
       /\ \A s, e : AllocReply(s, e) \in rp2 <=> AllocReply(s, e) \in rp
       /\ RepliesOK(rp2)
  BY <1>1, <1>6, <1>12, ReplyFacts DEF RepliesOK
<1>16. ProtocolOK(p, idProc[p], m, th, idLock[p], cl, rq2, rp2)
  BY <1>1, <1>2, <1>6, <1>14, <1>15 DEF ProtocolOK
<1>17. rq2 = rq \ {BackMsg(id, p)}
  BY <1>3, <1>6
<1>18. ClaimsOK(owners', p, cl, rq2, rp2)
  BY <1>1, <1>6, <1>12, <1>13, <1>17, BackClaims
<1>19. idProc[p] = "up" => LiveOK(owners', p, m, th, cl, rq2, rp2, lastId, timesGiven)
  <2>1. SUFFICES ASSUME idProc[p] = "up" PROVE LiveOK(owners', p, m, th, cl, rq2, rp2, lastId, timesGiven)
    OBVIOUS
  <2>2. LiveOK(owners, p, m, th, cl, rq, rp, lastId, timesGiven)
    BY <1>1, <2>1
  <2> QED BY <1>1, <1>6, <1>8, <1>12, <1>13, <1>17, <2>2, BackLive
<1>20. ProcInv(p)'
  BY <1>3, <1>11, <1>16, <1>18, <1>19 DEF ProcInv, cl, rq2, rp2, m, th
<1>21. RequestsOK(idRequests'[p]) /\ RepliesOK(idReplies'[p])
  BY <1>14, <1>15 DEF rq2, rp2
<1>22. /\ \A y \in owners' : y \in owners \/ y.owner = p
       /\ \A y \in owners : y.owner \notin {p, clone[p].child} => y \in owners'
  BY <1>7, <1>13, OwnedFacts DEF cl
<1>23. lastId' \in 1 .. PID_MAX /\ lastId <= lastId' /\ TreeOK(owners', lastId')
  BY <1>1, <1>11, <1>13
<1> QED BY <1>2, <1>3, <1>11, <1>12, <1>13, <1>20, <1>21, <1>22, <1>23, LeaderStep

(* A range comes back: release_id_range. *)
LEMMA GivenBackKeeps ==
    ASSUME IdInv, NEW p \in IdProcs, idFatal = "no", NEW s \in Nat, NEW e \in Nat,
           ReleaseMsg(s, e) \in idRequests[p], LeaderOnly(p, ReleaseMsg(s, e)),
           ReleaseIdRange(ReleaseMsg(s, e))
    PROVE  IdInv'
<1> DEFINE cl == clone[p]   rq == idRequests[p]   rp == idReplies[p]   m == mine[p]   th == idThreads[p]
           rq2 == idRequests'[p]
<1>1. /\ owners \in SUBSET OwnerRec /\ TreeOK(owners, lastId) /\ lastId \in Nat /\ lastId \in 1 .. PID_MAX
      /\ m \in MineRec /\ cl \in CloneRec /\ cl.id \in Nat /\ RequestsOK(rq) /\ RepliesOK(rp)
      /\ ProtocolOK(p, idProc[p], m, th, idLock[p], cl, rq, rp)
      /\ ClaimsOK(owners, p, cl, rq, rp)
      /\ idProc[p] = "up" => LiveOK(owners, p, m, th, cl, rq, rp, lastId, timesGiven)
  BY ProcFacts
<1>2. idProc[p] # "unborn" /\ GlobalInv /\ DOMAIN idRequests = IdProcs /\ DOMAIN idReplies = IdProcs
  BY SenderFacts
<1>3. /\ lastVmid' = lastVmid /\ mine' = mine /\ idProc' = idProc /\ idThreads' = idThreads
      /\ mainId' = mainId /\ idLock' = idLock /\ clone' = clone /\ timesGiven' = timesGiven
      /\ rq2 = rq \ {ReleaseMsg(s, e)} /\ DOMAIN idRequests' = IdProcs
      /\ \A r \in IdProcs : r # p => idRequests'[r] = idRequests[r]
  BY <1>2 DEF LeaderOnly
<1>4. ReleaseMsg(s, e) \in rq
  OBVIOUS
<1>5. ReleaseMsg(s, e).start = s /\ ReleaseMsg(s, e).end = e
  BY DEF ReleaseMsg
<1> HIDE DEF cl, rq, rp, m, th, rq2
<1>6. PICK x \in owners : x = Owned(s, e, p)
  BY <1>1, <1>4 DEF ClaimsOK
<1>7. x.start = s /\ x.end = e /\ x.owner = p /\ s <= e
  BY <1>1, <1>6, OwnedFacts DEF TreeOK
<1>8. \A y \in owners : y.start = s /\ y.end = e => y = x
  BY <1>1, <1>7 DEF TreeOK, Apart
<1>9. /\ lastId' = lastId /\ idReplies' = idReplies /\ idFatal' = "no"
      /\ owners' = owners \ {y \in owners : y.start = s /\ y.end = e}
  BY <1>5, <1>7 DEF ReleaseIdRange
<1>10. \A y : y \in owners' <=> y \in owners /\ y # Owned(s, e, p)
  BY <1>6, <1>7, <1>8, <1>9
<1>11. /\ \A i, c : MoveMsg(i, c) \in rq2 <=> MoveMsg(i, c) \in rq
       /\ \A i, c : BackMsg(i, c) \in rq2 <=> BackMsg(i, c) \in rq
       /\ AllocMsg \in rq2 <=> AllocMsg \in rq
       /\ RequestsOK(rq2)
  BY <1>1, <1>3, MsgFacts DEF RequestsOK
<1>12. ProtocolOK(p, idProc[p], m, th, idLock[p], cl, rq2, rp)
  <2>1. idProc[p] = "unborn" => rq2 = {}
    BY <1>2
  <2> QED BY <1>1, <1>11, <2>1, SMTT(60) DEF ProtocolOK
<1>13. /\ \A i \in Nat, c \in IdProcs : MoveMsg(i, c) \in rq => cl.step = "id" /\ cl.id = i
       /\ BackMsg(cl.id, p) \in rq => cl.step = "back"
       /\ MoveReply \in rp => cl.step = "id"
       /\ BackReply \in rp => cl.step = "back"
  BY <1>1 DEF ProtocolOK
<1>14. InHand(cl) <=> cl.step \in {"id", "create", "back"}
  BY DEF InHand
<1>15. ClaimsOK(owners', p, cl, rq2, rp)
  BY <1>1, <1>3, <1>4, <1>7, <1>10, <1>13, <1>14, ReleaseClaims
<1>16. idProc[p] = "up" => LiveOK(owners', p, m, th, cl, rq2, rp, lastId, timesGiven)
  <2>1. SUFFICES ASSUME idProc[p] = "up" PROVE LiveOK(owners', p, m, th, cl, rq2, rp, lastId, timesGiven)
    OBVIOUS
  <2>2. LiveOK(owners, p, m, th, cl, rq, rp, lastId, timesGiven)
    BY <1>1, <2>1
  <2> QED BY <1>1, <1>3, <1>4, <1>7, <1>10, <1>13, <2>2, ReleaseLive
<1>17. ProcInv(p)'
  BY <1>3, <1>9, <1>12, <1>15, <1>16 DEF ProcInv, cl, rq2, rp, m, th
<1>18. RequestsOK(idRequests'[p]) /\ RepliesOK(idReplies'[p])
  BY <1>1, <1>9, <1>11 DEF rq2, rp
<1>19. /\ \A y \in owners' : y \in owners
       /\ \A y \in owners : y.owner \notin {p, clone[p].child} => y \in owners'
       /\ owners' \in SUBSET OwnerRec
  BY <1>1, <1>10, OwnedFacts
<1>20. lastId' \in 1 .. PID_MAX /\ lastId <= lastId' /\ TreeOK(owners', lastId')
  BY <1>1, <1>9, <1>19 DEF TreeOK
<1>21. DOMAIN idReplies' = IdProcs /\ \A r \in IdProcs : idReplies'[r] = idReplies[r]
  BY <1>2, <1>9
<1> QED BY <1>2, <1>3, <1>9, <1>17, <1>18, <1>19, <1>20, <1>21, LeaderStep

(* The leader handles a request of any kind. *)
LEMMA LeaderHandlesKeeps ==
    ASSUME IdInv, NEW p \in IdProcs, idFatal = "no", LeaderHandles(p)
    PROVE  IdInv'
<1>1. PICK msg \in idRequests[p] :
        /\ LeaderOnly(p, msg)
        /\ \/ msg.kind = "ALLOC" /\ AllocIdRange(p)
           \/ msg.kind = "CHANGE" /\ ChangeIdOwner(p, msg)
           \/ msg.kind = "RELEASE" /\ ReleaseIdRange(msg)
  BY DEF LeaderHandles, LeaderOnly
<1>2. /\ AllocMsg.kind = "ALLOC"
      /\ \A i, q : MoveMsg(i, q).kind = "CHANGE"
      /\ \A i, q : BackMsg(i, q).kind = "CHANGE"
      /\ \A s, e : ReleaseMsg(s, e).kind = "RELEASE"
  BY DEF AllocMsg, MoveMsg, BackMsg, ReleaseMsg
<1>3. RequestsOK(idRequests[p])
  BY ProcFacts
<1>4. CASE msg = AllocMsg
  BY <1>1, <1>2, <1>4, AllocKeeps
<1>5. ASSUME NEW i \in Nat, NEW q \in IdProcs, msg = MoveMsg(i, q) PROVE IdInv'
  BY <1>1, <1>2, <1>5, MoveKeeps
<1>6. ASSUME NEW i \in Nat, NEW q \in IdProcs, msg = BackMsg(i, q) PROVE IdInv'
  BY <1>1, <1>2, <1>6, BackKeeps
<1>7. ASSUME NEW s \in Nat, NEW e \in Nat, msg = ReleaseMsg(s, e) PROVE IdInv'
  BY <1>1, <1>2, <1>7, GivenBackKeeps
<1> QED BY <1>3, <1>4, <1>5, <1>6, <1>7 DEF RequestsOK


-----------------------------------------------------------------------------
(* The theorems *)

(* The first process starts with one range, and has taken its first id. *)
LEMMA IdInitOK ==
    ASSUME IdInit
    PROVE  IdInv
<1> DEFINE L == IdLeader   end == RangeEnd(1)   R == IdRange(1, end, 1)   m == mine[L]
<1>1. /\ PID_MAX \in Nat \ {0} /\ MAX_RANGE_SIZE \in Nat \ {0} /\ L \in IdProcs /\ L = 1
  BY IdAssumption DEF IdLeader
<1>2. end \in 1 .. PID_MAX
  BY <1>1 DEF RangeEnd
<1> HIDE DEF L, end
<1>3. /\ owners = {Owned(1, end, L)} /\ lastId = end /\ lastVmid = L /\ idFatal = "no"
      /\ idProc = [p \in IdProcs |-> IF p = L THEN "up" ELSE "unborn"]
      /\ idThreads = [p \in IdProcs |-> IF p = L THEN {1} ELSE {}]
      /\ DOMAIN mainId = IdProcs
      /\ idLock = [p \in IdProcs |-> "free"]
      /\ clone = [p \in IdProcs |-> NoClone]
      /\ idRequests = [p \in IdProcs |-> {}]
      /\ idReplies = [p \in IdProcs |-> {}]
      /\ timesGiven = [i \in 1 .. PID_MAX |-> IF i = 1 THEN 1 ELSE 0]
  BY DEF IdInit, L, end
<1>4. mine = [p \in IdProcs |->
          IF p # L THEN FreshRanges(NoRange, {}, 0)
          ELSE IF end = 1 THEN FreshRanges(NoRange, {IdRange(1, 1, 1)}, 1)
          ELSE FreshRanges(IdRange(1, end, 1), {}, 1)]
  BY DEF IdInit, L, end
<1>5. /\ NoRange \in RangeRec /\ NoRange.start = 0
      /\ R \in RangeRec /\ R.start = 1 /\ R.end = end /\ R.taken = 1 /\ R # NoRange
  BY <1>2 DEF NoRange, IdRange, RangeRec
<1>6. /\ \A p \in IdProcs : p # L => mine[p] = FreshRanges(NoRange, {}, 0)
      /\ m = (IF end = 1 THEN FreshRanges(NoRange, {R}, 1) ELSE FreshRanges(R, {}, 1))
  BY <1>1, <1>4
<1> HIDE DEF R, m
<1>7. /\ \A last, used, lu : /\ FreshRanges(last, used, lu).last = last
                             /\ FreshRanges(last, used, lu).used = used
                             /\ FreshRanges(last, used, lu).lastUsed = lu
      /\ FreshRanges(NoRange, {}, 0) \in MineRec
      /\ FreshRanges(NoRange, {R}, 1) \in MineRec /\ FreshRanges(R, {}, 1) \in MineRec
  BY <1>5 DEF FreshRanges, MineRec
<1>8. /\ \A p \in IdProcs : mine[p] \in MineRec
      /\ Ranges(m) = {R} /\ m.last \notin m.used
      /\ m.last # NoRange => m.last = R /\ end # 1 /\ m.lastUsed = 1
  BY <1>5, <1>6, <1>7 DEF Ranges, m
<1>9. mine \in [IdProcs -> MineRec]
  <2>1. mine = [p \in IdProcs |-> mine[p]]
    BY <1>4
  <2> QED BY <1>8, <2>1
<1>10. Owned(1, end, L) \in OwnerRec
  BY <1>1, <1>2, OwnedFacts
<1>11. IdTypeOK
  <2>1. \A p \in IdProcs : RequestsOK(idRequests[p]) /\ RepliesOK(idReplies[p])
    BY <1>3 DEF RequestsOK, RepliesOK
  <2>2. 1 \in 1 .. PID_MAX
    BY <1>1
  <2>3. /\ idThreads \in [IdProcs -> SUBSET (1 .. PID_MAX)]
        /\ timesGiven \in [1 .. PID_MAX -> 0 .. 1]
        /\ clone \in [IdProcs -> CloneRec]
        /\ idProc \in [IdProcs -> {"unborn", "up", "gone"}]
        /\ idLock \in [IdProcs -> {"free", "alloc", "move"}]
    BY <1>3, <2>2, NoCloneFacts
  <2> QED BY <1>1, <1>2, <1>3, <1>9, <1>10, <2>1, <2>3 DEF IdTypeOK
<1>12. TreeOK(owners, lastId)
  BY <1>2, <1>3, OwnedFacts DEF TreeOK
<1>13. GlobalInv
  <2>1. \A p \in IdProcs : clone[p].step = "none" /\ ~InHand(clone[p])
    BY <1>3, NoCloneFacts
  <2>2. \A p \in IdProcs : lastVmid < p => idProc[p] = "unborn"
    BY <1>1, <1>3, NoCloneFacts
  <2>3. \A r \in owners : idProc[r.owner] # "unborn"
    BY <1>1, <1>3, OwnedFacts
  <2>4. \A i \in 1 .. PID_MAX : lastId < i => timesGiven[i] = 0
    BY <1>2, <1>3
  <2> QED BY <2>1, <2>2, <2>3, <2>4 DEF GlobalInv
<1>14. ASSUME NEW p \in IdProcs PROVE ProcInv(p)
  <2>1. /\ idLock[p] = "free" /\ clone[p] = NoClone /\ idRequests[p] = {} /\ idReplies[p] = {}
        /\ p # L => idProc[p] = "unborn" /\ idThreads[p] = {}
        /\ p = L => idProc[p] = "up" /\ idThreads[p] = {1}
    BY <1>3
  <2>2. ProtocolOK(p, idProc[p], mine[p], idThreads[p], "free", NoClone, {}, {})
    BY <2>1, NoCloneFacts DEF ProtocolOK
  <2>3. ClaimsOK(owners, p, NoClone, {}, {})
    BY NoCloneFacts DEF ClaimsOK
  <2>4. LiveOK(owners, L, m, {1}, NoClone, {}, {}, lastId, timesGiven)
    <3>1. RangesOK(m, NoClone, {}, {}, lastId)
      BY <1>2, <1>3, <1>5, <1>8, NoCloneFacts DEF RangesOK
    <3>2. Owned(R.start, R.end, L) \in owners
      BY <1>3, <1>5
    <3>3. LeaderOK(owners, L, m, NoClone, {}, {})
      <4>1. \A x \in owners : HasRange(m, x.start, x.end)
        BY <1>3, <1>5, <1>8, OwnedFacts DEF HasRange
      <4>2. \A r \in Ranges(m) : Covered(owners, L, r, {})
        BY <1>8, <3>2 DEF Covered
      <4> QED BY <4>1, <4>2 DEF LeaderOK, Explained
    <3>4. Cardinality(ThreadsIn({1}, R)) = 1 /\ IsFiniteSet({1}) /\ InIdRange(1, R)
      <4>1. InIdRange(1, R)
        BY <1>2, <1>5 DEF InIdRange
      <4>2. ThreadsIn({1}, R) = {1}
        BY <4>1 DEF ThreadsIn
      <4> QED BY <4>1, <4>2, FS_Singleton
    <3>5. timesGiven[1] = 1 /\ \A i \in 2 .. end : timesGiven[i] = 0
      BY <1>1, <1>2, <1>3
    <3>6. IdsOK(m, {1}, {}, timesGiven)
      <4>1. m.last # NoRange => /\ m.last.start <= m.lastUsed + 1 /\ m.lastUsed < m.last.end
                                /\ \A i \in m.lastUsed + 1 .. m.last.end : timesGiven[i] = 0
        BY <1>2, <1>5, <1>8, <3>5
      <4> QED BY <1>5, <1>8, <3>4, <3>5, <4>1 DEF IdsOK
    <3> QED BY <3>1, <3>3, <3>6 DEF LiveOK
  <2> QED BY <2>1, <2>2, <2>3, <2>4 DEF ProcInv, m
<1> QED BY <1>11, <1>12, <1>13, <1>14 DEF IdInv

(* Every step keeps the invariant. *)
LEMMA IdNextOK ==
    ASSUME IdInv, [IdNext]_idVars
    PROVE  IdInv'
<1>1. CASE IdNext
  <2>1. PICK p \in IdProcs :
          \/ idFatal = "no" /\ LeaderHandles(p)
          \/ NewThread(p) \/ NewProcess(p) \/ GotRange(p) \/ MovedId(p)
          \/ CloneSucceeds(p) \/ CloneFails(p) \/ IdBack(p)
          \/ ThreadGone(p) \/ IdProcessExits(p) \/ IdKilled(p)
    BY <1>1 DEF IdNext
  <2> QED BY <2>1, LeaderHandlesKeeps, NewThreadKeeps, NewProcessKeeps, GotRangeKeeps, MovedIdKeeps,
             CloneSucceedsKeeps, CloneFailsKeeps, IdBackKeeps, ThreadGoneKeeps, IdProcessExitsKeeps,
             IdKilledKeeps
<1>2. CASE UNCHANGED idVars
  BY <1>2 DEF idVars, IdInv, IdTypeOK, GlobalInv, ProcInv
<1> QED BY <1>1, <1>2

(* The invariant always holds. *)
LEMMA IdInvHolds == IdSpec => []IdInv
<1>1. IdInit => IdInv
  BY IdInitOK
<1>2. IdInv /\ [IdNext]_idVars => IdInv'
  BY IdNextOK
<1> QED BY <1>1, <1>2, PTL DEF IdSpec

(* The variables of the model always have their types; requests and        *)
(* replies are those that libos_ipc_pid.c knows.                           *)
THEOREM IdTypeCorrect == IdSpec => []IdTypeOK
<1>1. IdInv => IdTypeOK
  BY DEF IdInv
<1> QED BY <1>1, IdInvHolds, PTL

(* Neither change_id_owner nor release_id_range nor release_id meets an id *)
(* or a range that it does not know.                                       *)
THEOREM NoBugHolds == IdSpec => []IdNoBug
<1>1. IdInv => IdNoBug
  BY DEF IdInv, IdTypeOK, IdNoBug
<1> QED BY <1>1, IdInvHolds, PTL

(* get_new_id returns no id twice. *)
THEOREM NeverReusedHolds == IdSpec => []IdNeverReused
<1>1. IdInv => IdNeverReused
  BY DEF IdInv, IdTypeOK, IdNeverReused
<1> QED BY <1>1, IdInvHolds, PTL

(* The leader names the process of every running thread as the owner of    *)
(* its id, and when nothing of a process is under way, the ranges that the *)
(* leader has for it are the ranges that it has.                           *)
THEOREM AgreementHolds == IdSpec => []IdAgreement
<1>1. ASSUME IdInv PROVE IdOwnerKnown
  <2>1. ASSUME NEW p \in IdProcs, NEW i \in idThreads[p] PROVE \E r \in owners : InIdRange(i, r) /\ r.owner = p
    <3> DEFINE cl == clone[p]   rq == idRequests[p]   rp == idReplies[p]   m == mine[p]   th == idThreads[p]
    <3>1. /\ owners \in SUBSET OwnerRec /\ lastId \in Nat /\ m \in MineRec /\ th \in SUBSET (1 .. PID_MAX)
          /\ ProtocolOK(p, idProc[p], m, th, idLock[p], cl, rq, rp)
          /\ idProc[p] = "up" => LiveOK(owners, p, m, th, cl, rq, rp, lastId, timesGiven)
      BY <1>1, ProcFacts
    <3>2. i \in th
      OBVIOUS
    <3> HIDE DEF cl, rq, rp, m, th
    <3>3. idProc[p] = "up"
      BY <3>1, <3>2 DEF ProtocolOK
    <3>4. RangesOK(m, cl, rq, rp, lastId) /\ LeaderOK(owners, p, m, cl, rq, rp) /\ IdsOK(m, th, rp, timesGiven)
      BY <3>1, <3>3 DEF LiveOK
    <3>5. PICK r \in Ranges(m) : InIdRange(i, r)
      BY <3>2, <3>4 DEF IdsOK
    <3>6. i \in Nat
      BY <3>1, <3>2, IdAssumption
    <3> QED BY <3>1, <3>4, <3>5, <3>6, IdsAreCovered
  <2> QED BY <2>1 DEF IdOwnerKnown
<1>2. ASSUME IdInv PROVE IdMirror
  <2>1. SUFFICES ASSUME NEW p \in IdProcs, idProc[p] = "up", idRequests[p] = {}, idReplies[p] = {}
        PROVE  {[s |-> r.start, e |-> r.end] : r \in {x \in owners : x.owner = p}}
                 = {[s |-> r.start, e |-> r.end] : r \in Ranges(mine[p])}
    BY DEF IdMirror, Ranges
  <2>2. LeaderOK(owners, p, mine[p], clone[p], {}, {})
    BY <1>2, <2>1, ProcFacts DEF LiveOK
  <2>3. \A r \in Ranges(mine[p]) : \E x \in owners : x.owner = p /\ x.start = r.start /\ x.end = r.end
    BY <2>2, OwnedFacts DEF LeaderOK, Covered
  <2>4. \A x \in owners : x.owner = p => \E r \in Ranges(mine[p]) : r.start = x.start /\ r.end = x.end
    BY <2>2 DEF LeaderOK, Explained, HasRange
  <2> QED BY <2>3, <2>4
<1>3. IdInv => IdAgreement
  BY <1>1, <1>2 DEF IdAgreement
<1> QED BY <1>3, IdInvHolds, PTL

=============================================================================
