--------------------------- MODULE FileLockProofs ----------------------------
(***************************************************************************)
(* Proofs about the POSIX lock list (LockWalk) and the conversion of the   *)
(* arguments of fcntl (FcntlRange), for any number of processes and locks, *)
(* any FS_LOCK_EOF and any width of the integers.                          *)
(*                                                                         *)
(* Precedes puts the order of the list and the merging of adjacent locks   *)
(* into one relation.  The invariant of the loop of _posix_lock_set is in  *)
(* two parts.  BuiltInv: the list built so far is sorted by Precedes,      *)
(* precedes what the loop has not seen, and holds what the processes held  *)
(* in the places seen, except the range; and the range has grown only over *)
(* bytes that the owner held with the type asked for.  PlaceInv: the new   *)
(* lock fits behind prev.  The loop of file_lock_clear_pid keeps BuiltInv. *)
(***************************************************************************)
EXTENDS LockWalk, FcntlRange, SequenceTheorems, TLAPS

(* A lock in the list, and a lock that a call asks for. *)
HeldLocks == [family : {"POSIX"}, type : {"RDLCK", "WRLCK"},
              start : 0..FS_LOCK_EOF, end : 0..FS_LOCK_EOF, owner : Pids]

AskedLocks == [family : {"POSIX"}, type : LockTypes,
               start : 0..FS_LOCK_EOF, end : 0..FS_LOCK_EOF, owner : Pids]

Walks == [out : Seq(HeldLocks), prev : Nat, start : 0..FS_LOCK_EOF, end : 0..FS_LOCK_EOF,
          done : BOOLEAN]

(* l may stand before m in the list. *)
Precedes(l, m) ==
    \/ l.owner < m.owner
    \/ /\ l.owner = m.owner /\ l.end < m.start
       /\ l.type = m.type => l.end + 1 < m.start

Sorted(s) == \A i, j \in DOMAIN s : i < j => Precedes(s[i], s[j])

AllPrecede(s, m) == \A i \in DOMAIN s : Precedes(s[i], m)

PrecedesFrom(m, s, n) == \A j \in DOMAIN s : n <= j => Precedes(m, s[j])

AllPrecedeFrom(o, s, n) == \A i \in DOMAIN o : PrecedesFrom(o[i], s, n)

NonEmpty(s) == \A i \in DOMAIN s : s[i].start <= s[i].end

GoodList(s) == s \in Seq(HeldLocks) /\ NonEmpty(s) /\ Sorted(s)

(* Process p holds byte x with this type: by a lock, in a list, and in the *)
(* list before place n.                                                    *)
Covers(l, p, x, type) == l.owner = p /\ l.type = type /\ l.start <= x /\ x <= l.end

Holds(s, p, x, type) == \E i \in DOMAIN s : Covers(s[i], p, x, type)

HoldsBefore(s, n, p, x, type) == \E i \in DOMAIN s : i < n /\ Covers(s[i], p, x, type)

(* Byte x of process p is in the range that the walk replaces. *)
InRange(l, w, p, x) == p = l.owner /\ w.start <= x /\ x <= w.end

NewLock(l, w) == [l EXCEPT !.start = w.start, !.end = w.end]

(* The range is at least the one asked for, and the owner held the rest of *)
(* it with the type asked for.                                             *)
Grown(s, l, n, w) ==
    /\ w.start <= l.start /\ l.end <= w.end
    /\ \A x \in w.start..w.end :
          (l.start <= x /\ x <= l.end) \/ HoldsBefore(s, n, l.owner, x, l.type)

(* The bytes that the list built so far holds. *)
BytesKept(s, l, n, w) ==
    \A p \in Pids, x \in 0..FS_LOCK_EOF, type \in LockTypes :
       Holds(w.out, p, x, type) <=> HoldsBefore(s, n, p, x, type) /\ ~InRange(l, w, p, x)

BuiltInv(s, l, n, w) ==
    /\ GoodList(w.out)
    /\ AllPrecedeFrom(w.out, s, n)
    /\ Grown(s, l, n, w)
    /\ BytesKept(s, l, n, w)

PlaceInv(s, l, n, w) ==
    /\ w.prev <= Len(w.out)
    /\ ~w.done => w.prev = Len(w.out)
    /\ \A i \in DOMAIN w.out : i <= w.prev => Precedes(w.out[i], NewLock(l, w))
    /\ \A i \in DOMAIN w.out : w.prev < i => Precedes(NewLock(l, w), w.out[i])
    /\ w.done => PrecedesFrom(NewLock(l, w), s, n)

(* The loop of _posix_lock_set has come to place n. *)
SetWalk(s, l, n, w) == /\ l \in AskedLocks /\ l.start <= l.end
                       /\ w \in Walks /\ BuiltInv(s, l, n, w) /\ PlaceInv(s, l, n, w)

(* No two processes hold a byte unless both only read it. *)
Compatible(s) ==
    \A p, q \in Pids, x \in 0..FS_LOCK_EOF, type \in LockTypes :
       p # q => ~(Holds(s, p, x, "WRLCK") /\ Holds(s, q, x, type))

(* A call under way. *)
SetCall == /\ call.kind = "set"
           /\ SetWalk(locks, call.lock, at, walk)
           /\ call.lock.type = "UNLCK" \/ ~HasConflict(locks, call.lock)

ClearCall == /\ call.kind = "clear"
             /\ \E p \in Pids : call.lock = AllOf(p)
             /\ BuiltInv(locks, call.lock, at, walk)
             /\ walk.start = 0 /\ walk.end = FS_LOCK_EOF

WalkInv ==
    /\ GoodList(locks) /\ Compatible(locks)
    /\ at \in Nat \ {0} /\ at <= Len(locks) + 1
    /\ walk \in Walks
    /\ call = NoCall \/ SetCall \/ ClearCall

-----------------------------------------------------------------------------
(* Locks and their order                                                   *)

(* The fields of a lock a process asks for. *)
LEMMA LockFields ==
    ASSUME NEW l \in AskedLocks
    PROVE  /\ l.start \in Int /\ l.end \in Int /\ l.owner \in Int /\ l.owner \in Pids
           /\ l.start \in 0..FS_LOCK_EOF /\ l.end \in 0..FS_LOCK_EOF
           /\ l.type \in LockTypes /\ l.family = "POSIX"
  <1>1. /\ l.start \in 0..FS_LOCK_EOF /\ l.end \in 0..FS_LOCK_EOF /\ l.owner \in Pids
        /\ l.type \in LockTypes /\ l.family = "POSIX"
    BY DEF AskedLocks
  <1>2. \A n \in 0..FS_LOCK_EOF : n \in Int
    BY EofAssumption
  <1>3. \A p \in Pids : p \in Int
    BY PidsAssumption
  <1> QED BY <1>1, <1>2, <1>3

(* A lock that is held could be asked for. *)
LEMMA HeldAsked == HeldLocks \subseteq AskedLocks
  BY DEF HeldLocks, AskedLocks, LockTypes

(* The fields of a lock that is held: its type is not UNLCK. *)
LEMMA HeldFields ==
    ASSUME NEW l \in HeldLocks
    PROVE  /\ l.start \in Int /\ l.end \in Int /\ l.owner \in Int /\ l.owner \in Pids
           /\ l.start \in 0..FS_LOCK_EOF /\ l.end \in 0..FS_LOCK_EOF
           /\ l.type \in {"RDLCK", "WRLCK"} /\ l.family = "POSIX"
  <1>1. /\ l.start \in 0..FS_LOCK_EOF /\ l.end \in 0..FS_LOCK_EOF /\ l.owner \in Pids
        /\ l.type \in {"RDLCK", "WRLCK"} /\ l.family = "POSIX"
    BY DEF HeldLocks
  <1>2. \A n \in 0..FS_LOCK_EOF : n \in Int
    BY EofAssumption
  <1>3. \A p \in Pids : p \in Int
    BY PidsAssumption
  <1> QED BY <1>1, <1>2, <1>3

(* A part of a lock precedes what the lock precedes, and the other way. *)
LEMMA PartPrecedes ==
    ASSUME NEW l \in AskedLocks, NEW m \in AskedLocks, NEW k \in AskedLocks,
           Precedes(l, m), k.owner = l.owner, k.type = l.type, k.end <= l.end
    PROVE  Precedes(k, m)
  <1>1. l.end \in Int /\ k.end \in Int /\ m.start \in Int
    BY LockFields
  <1> QED BY <1>1 DEF Precedes

(* What precedes a lock precedes the rest that is left of its end. *)
LEMMA PrecedesPart ==
    ASSUME NEW l \in AskedLocks, NEW m \in AskedLocks, NEW k \in AskedLocks,
           Precedes(l, m), k.owner = m.owner, k.type = m.type, m.start <= k.start
    PROVE  Precedes(l, k)
  <1>1. l.end \in Int /\ k.start \in Int /\ m.start \in Int
    BY LockFields
  <1> QED BY <1>1 DEF Precedes

(* What Append and InsertAt make of a list. *)
LEMMA AppendGood ==
    ASSUME NEW s, GoodList(s), NEW c \in HeldLocks, c.start <= c.end, AllPrecede(s, c)
    PROVE  /\ GoodList(Append(s, c))
           /\ Len(Append(s, c)) = Len(s) + 1
           /\ \A i \in DOMAIN s : Append(s, c)[i] = s[i]
           /\ Append(s, c)[Len(s) + 1] = c
           /\ DOMAIN Append(s, c) = DOMAIN s \cup {Len(s) + 1}
           /\ \A p, x, type : Holds(Append(s, c), p, x, type)
                               <=> Holds(s, p, x, type) \/ Covers(c, p, x, type)
  <1> DEFINE t == Append(s, c)
             n == Len(s) + 1
  <1>1. s \in Seq(HeldLocks) /\ NonEmpty(s) /\ Sorted(s)
    BY DEF GoodList
  <1>2. t \in Seq(HeldLocks) /\ Len(t) = n /\ t[n] = c
        /\ \A i \in 1..Len(s) : t[i] = s[i]
    BY <1>1, AppendProperties
  <1>3. DOMAIN s = 1..Len(s) /\ DOMAIN t = 1..n /\ Len(s) \in Nat /\ n = Len(s) + 1
    BY <1>1, <1>2
  <1> HIDE DEF t, n
  <1>4. DOMAIN t = DOMAIN s \cup {n} /\ \A i \in DOMAIN s : t[i] = s[i]
    BY <1>2, <1>3
  <1>5. NonEmpty(t)
    BY <1>1, <1>2, <1>4 DEF NonEmpty
  <1>6. Sorted(t)
    <2> SUFFICES ASSUME NEW i \in DOMAIN t, NEW j \in DOMAIN t, i < j
                 PROVE  Precedes(t[i], t[j])
      BY DEF Sorted
    <2>1. i \in DOMAIN s
      BY <1>3
    <2>2. CASE j \in DOMAIN s
      BY <2>1, <2>2, <1>1, <1>4 DEF Sorted
    <2>3. CASE j = n
      BY <2>1, <2>3, <1>2, <1>4 DEF AllPrecede
    <2> QED BY <2>2, <2>3, <1>4
  <1>7. GoodList(t)
    BY <1>2, <1>5, <1>6 DEF GoodList
  <1>8. ASSUME NEW p, NEW x, NEW type
        PROVE  Holds(t, p, x, type) <=> Holds(s, p, x, type) \/ Covers(c, p, x, type)
    BY <1>2, <1>4 DEF Holds
  <1> QED BY <1>2, <1>3, <1>4, <1>7, <1>8 DEF t, n

(* c is put behind place k of s. *)
LEMMA InsertAtProps ==
    ASSUME NEW S, NEW s \in Seq(S), NEW c \in S, NEW k \in 0..Len(s)
    PROVE  /\ InsertAt(s, k+1, c) \in Seq(S)
           /\ Len(InsertAt(s, k+1, c)) = Len(s) + 1
           /\ \A j \in 1..(Len(s) + 1) : InsertAt(s, k+1, c)[j] =
                 IF j <= k THEN s[j] ELSE IF j = k+1 THEN c ELSE s[j-1]
  <1> DEFINE n == Len(s)
             m == k + 1
             a == SubSeq(s, 1, m-1)
             e == <<c>>
             z == SubSeq(s, m, n)
             t == InsertAt(s, m, c)
  <1>1. n \in Nat /\ k \in Nat /\ k <= n /\ m = k + 1 /\ n = Len(s) /\ m \in Int
    OBVIOUS
  <1>2. t = (a \o e) \o z
    BY DEF InsertAt
  <1> HIDE DEF n, m
  <1>3. a \in Seq(S) /\ Len(a) = k /\ \A i \in 1..k : a[i] = s[i]
    <2>1. \A i \in 1..(m-1) : s[i] \in S
      BY <1>1
    <2>2. m - 1 = k
      BY <1>1
    <2> QED BY <2>1, <2>2, <1>1, SubSeqProperties
  <1>4. z \in Seq(S) /\ Len(z) = n - k /\ \A i \in 1..(n-k) : z[i] = s[k+i]
    <2>1. \A i \in m..n : s[i] \in S
      BY <1>1
    <2>2. /\ z \in Seq(S)
          /\ Len(z) = IF m <= n THEN n-m+1 ELSE 0
          /\ \A i \in 1 .. n-m+1 : z[i] = s[m+i-1]
      BY <1>1, <2>1, SubSeqProperties
    <2> HIDE DEF z
    <2>3. Len(z) = n - k
      BY <1>1, <2>2
    <2>4. ASSUME NEW i \in 1..(n-k) PROVE z[i] = s[k+i]
      <3>1. i \in 1..(n-m+1) /\ m+i-1 = k + i
        BY <1>1
      <3> QED BY <3>1, <2>2
    <2> QED BY <2>2, <2>3, <2>4
  <1>5. e \in Seq(S) /\ Len(e) = 1 /\ e[1] = c
    OBVIOUS
  <1> HIDE DEF a, e, z
  <1>6. /\ a \o e \in Seq(S) /\ Len(a \o e) = k + 1
        /\ \A i \in 1..(k+1) : (a \o e)[i] = IF i <= k THEN a[i] ELSE e[i - k]
    <2>1. Len(a) + Len(e) = k + 1 /\ Len(a) = k
      BY <1>3, <1>5
    <2>2. /\ a \o e \in Seq(S) /\ Len(a \o e) = Len(a) + Len(e)
          /\ \A i \in 1..(Len(a) + Len(e)) :
                (a \o e)[i] = IF i <= Len(a) THEN a[i] ELSE e[i - Len(a)]
      BY <1>3, <1>5, ConcatProperties
    <2> QED BY <2>1, <2>2
  <1> DEFINE f == a \o e
  <1> HIDE DEF f
  <1>7. /\ f \in Seq(S) /\ Len(f) = k + 1
        /\ \A i \in 1..k : f[i] = s[i]
        /\ f[k + 1] = c
    <2>1. f \in Seq(S) /\ Len(f) = k + 1
      BY <1>6 DEF f
    <2>2. \A i \in 1..k : f[i] = s[i]
      BY <1>1, <1>3, <1>6 DEF f
    <2>3. f[k+1] = e[1]
      <3>1. k + 1 \in 1..(k+1) /\ ~(k + 1 <= k) /\ (k + 1) - k = 1
        BY <1>1
      <3> QED BY <3>1, <1>6 DEF f
    <2> QED BY <2>1, <2>2, <2>3, <1>5
  <1>8. /\ t \in Seq(S) /\ Len(t) = n + 1
        /\ \A i \in 1..(n+1) : t[i] = IF i <= k+1 THEN f[i] ELSE z[i - (k+1)]
    <2>0. t = f \o z
      BY <1>2 DEF f
    <2>1. Len(f) + Len(z) = n + 1
      <3>1. Len(f) = k + 1 /\ Len(z) = n - k
        BY <1>4, <1>7
      <3> QED BY <3>1, <1>1
    <2>2. /\ f \o z \in Seq(S) /\ Len(f \o z) = Len(f) + Len(z)
          /\ \A i \in 1..(Len(f) + Len(z)) :
                (f \o z)[i] = IF i <= Len(f) THEN f[i] ELSE z[i - Len(f)]
      BY <1>4, <1>7, ConcatProperties
    <2> HIDE DEF t
    <2>3. Len(f) = k + 1
      BY <1>7
    <2> QED BY <2>0, <2>1, <2>2, <2>3
  <1> HIDE DEF t
  <1>9. ASSUME NEW j \in 1..(n+1)
        PROVE  t[j] = IF j <= k THEN s[j] ELSE IF j = k+1 THEN c ELSE s[j-1]
    <2>1. CASE j <= k
      BY <2>1, <1>1, <1>7, <1>8
    <2>2. CASE j = k + 1
      BY <2>2, <1>1, <1>7, <1>8
    <2>3. CASE j > k + 1
      <3>1. t[j] = z[j - (k+1)]
        BY <2>3, <1>1, <1>8
      <3>2. j - (k+1) \in 1..(n-k) /\ k + (j - (k+1)) = j - 1
        BY <2>3, <1>1
      <3>3. z[j - (k+1)] = s[j-1]
        BY <3>2, <1>4
      <3>4. ~(j <= k) /\ j # k+1
        BY <2>3, <1>1
      <3> QED BY <3>1, <3>3, <3>4
    <2> QED BY <2>1, <2>2, <2>3, <1>1
  <1> QED BY <1>8, <1>9 DEF t, n, m

(* A lock inserted at its place in a sorted list leaves it sorted, and     *)
(* adds its own bytes to what is held.                                     *)
LEMMA InsertGood ==
    ASSUME NEW s, GoodList(s), NEW c \in HeldLocks, c.start <= c.end, NEW k \in 0..Len(s),
           \A i \in DOMAIN s : i <= k => Precedes(s[i], c),
           \A i \in DOMAIN s : k < i => Precedes(c, s[i])
    PROVE  /\ GoodList(InsertAt(s, k+1, c))
           /\ \A p, x, type : Holds(InsertAt(s, k+1, c), p, x, type)
                               <=> Holds(s, p, x, type) \/ Covers(c, p, x, type)
  <1> DEFINE t == InsertAt(s, k+1, c)
             n == Len(s)
  <1>1. s \in Seq(HeldLocks) /\ NonEmpty(s) /\ Sorted(s)
    BY DEF GoodList
  <1>2. /\ t \in Seq(HeldLocks) /\ Len(t) = n + 1
        /\ \A j \in 1..(n+1) : t[j] = IF j <= k THEN s[j] ELSE IF j = k+1 THEN c ELSE s[j-1]
    BY <1>1, InsertAtProps
  <1>3. DOMAIN s = 1..n /\ DOMAIN t = 1..(n+1) /\ n \in Nat /\ k \in 0..n
    BY <1>1, <1>2
  <1> HIDE DEF t, n
  <1>4. /\ \A j \in DOMAIN t : j <= k => t[j] = s[j] /\ j \in DOMAIN s
        /\ t[k+1] = c /\ k+1 \in DOMAIN t
        /\ \A j \in DOMAIN t : k+1 < j => t[j] = s[j-1] /\ j-1 \in DOMAIN s /\ k < j-1
    BY <1>2, <1>3
  <1>5. \A j \in DOMAIN t : j <= k \/ j = k+1 \/ k+1 < j
    BY <1>3
  <1>6. NonEmpty(t)
    BY <1>1, <1>4, <1>5 DEF NonEmpty
  <1>7. Sorted(t)
    <2> SUFFICES ASSUME NEW i \in DOMAIN t, NEW j \in DOMAIN t, i < j
                 PROVE  Precedes(t[i], t[j])
      BY DEF Sorted
    <2>1. CASE j <= k
      <3>1. i <= k
        BY <2>1, <1>3
      <3> QED BY <3>1, <2>1, <1>1, <1>4 DEF Sorted
    <2>2. CASE j = k+1
      <3>1. i <= k
        BY <2>2, <1>3
      <3> QED BY <3>1, <2>2, <1>4
    <2>3. CASE k+1 < j
      <3>1. CASE i <= k
        <4>1. i < j - 1
          BY <3>1, <2>3, <1>3
        <4> QED BY <4>1, <3>1, <2>3, <1>1, <1>4 DEF Sorted
      <3>2. CASE i = k+1
        BY <3>2, <2>3, <1>4
      <3>3. CASE k+1 < i
        <4>1. i - 1 < j - 1
          BY <1>3
        <4> QED BY <4>1, <3>3, <2>3, <1>1, <1>4 DEF Sorted
      <3> QED BY <3>1, <3>2, <3>3, <1>5
    <2> QED BY <2>1, <2>2, <2>3, <1>5
  <1>8. GoodList(t)
    BY <1>2, <1>6, <1>7 DEF GoodList
  <1>9. ASSUME NEW p, NEW x, NEW type
        PROVE  Holds(t, p, x, type) <=> Holds(s, p, x, type) \/ Covers(c, p, x, type)
    <2>1. Holds(t, p, x, type) => Holds(s, p, x, type) \/ Covers(c, p, x, type)
      BY <1>4, <1>5 DEF Holds
    <2>2. Covers(c, p, x, type) => Holds(t, p, x, type)
      BY <1>4 DEF Holds
    <2>3. ASSUME NEW i \in DOMAIN s, Covers(s[i], p, x, type) PROVE Holds(t, p, x, type)
      <3>1. CASE i <= k
        <4>1. i \in DOMAIN t /\ t[i] = s[i]
          BY <3>1, <1>2, <1>3
        <4> QED BY <4>1, <2>3 DEF Holds
      <3>2. CASE ~(i <= k)
        <4>1. i + 1 \in DOMAIN t /\ k+1 < i+1 /\ (i+1)-1 = i
          BY <3>2, <1>3
        <4>2. t[i+1] = s[i]
          BY <4>1, <1>4
        <4> QED BY <4>1, <4>2, <2>3 DEF Holds
      <3> QED BY <3>1, <3>2
    <2> QED BY <2>1, <2>2, <2>3 DEF Holds
  <1> QED BY <1>8, <1>9 DEF t

-----------------------------------------------------------------------------
(* The list that a walk builds                                             *)

(* The members of a sorted list are locks of one byte at least. *)
LEMMA GoodElement ==
    ASSUME NEW s, GoodList(s), NEW i \in DOMAIN s
    PROVE  s[i] \in HeldLocks /\ s[i] \in AskedLocks /\ s[i].start <= s[i].end
  BY HeldAsked DEF GoodList, NonEmpty

(* c is a part of the lock at place n. *)
PartOf(c, s, n) == /\ c \in HeldLocks /\ c.start <= c.end
                   /\ c.owner = s[n].owner /\ c.type = s[n].type
                   /\ s[n].start <= c.start /\ c.end <= s[n].end

(* A part of a lock takes the place of the lock between its neighbours. *)
LEMMA PartBetween ==
    ASSUME NEW s, GoodList(s), NEW n \in DOMAIN s, NEW c, PartOf(c, s, n),
           NEW o, GoodList(o), AllPrecede(o, s[n])
    PROVE  AllPrecede(o, c) /\ PrecedesFrom(c, s, n+1)
  <1>1. s[n] \in AskedLocks /\ c \in AskedLocks
    BY GoodElement, HeldAsked DEF PartOf
  <1>2. AllPrecede(o, c)
    <2> SUFFICES ASSUME NEW i \in DOMAIN o PROVE Precedes(o[i], c)
      BY DEF AllPrecede
    <2>1. o[i] \in AskedLocks /\ Precedes(o[i], s[n])
      BY GoodElement DEF AllPrecede
    <2> QED BY <1>1, <2>1, PrecedesPart DEF PartOf
  <1>3. PrecedesFrom(c, s, n+1)
    <2> SUFFICES ASSUME NEW j \in DOMAIN s, n+1 <= j PROVE Precedes(c, s[j])
      BY DEF PrecedesFrom
    <2>1. s[j] \in AskedLocks
      BY GoodElement
    <2>2. n < j
      BY DEF GoodList
    <2>3. Precedes(s[n], s[j])
      BY <2>2 DEF GoodList, Sorted
    <2> QED BY <1>1, <2>1, <2>3, PartPrecedes DEF PartOf
  <1> QED BY <1>2, <1>3

(* A part of the lock at n is put at the end of the list built so far. *)
LEMMA AppendPart ==
    ASSUME NEW s, GoodList(s), NEW n \in DOMAIN s, NEW c, PartOf(c, s, n),
           NEW o, GoodList(o), AllPrecede(o, c), AllPrecedeFrom(o, s, n+1)
    PROVE  AllPrecedeFrom(Append(o, c), s, n+1)
  <1>1. c \in HeldLocks /\ c.start <= c.end
    BY DEF PartOf
  <1>2. /\ \A i \in DOMAIN o : Append(o, c)[i] = o[i]
        /\ Append(o, c)[Len(o) + 1] = c
        /\ DOMAIN Append(o, c) = DOMAIN o \cup {Len(o) + 1}
    BY <1>1, AppendGood
  <1>3. PrecedesFrom(c, s, n+1)
    <2>1. GoodList(<<>>) /\ AllPrecede(<<>>, s[n])
      <3>1. <<>> \in Seq(HeldLocks) /\ DOMAIN <<>> = {}
        OBVIOUS
      <3> QED BY <3>1 DEF GoodList, NonEmpty, Sorted, AllPrecede
    <2> QED BY <2>1, PartBetween
  <1> QED BY <1>2, <1>3 DEF AllPrecedeFrom

(* The turn at place n leaves the range alone and the list built becomes   *)
(* w2.out.                                                                 *)
LEMMA BuiltOut ==
    ASSUME NEW s, GoodList(s), NEW n \in DOMAIN s, NEW l \in AskedLocks,
           NEW w \in Walks, BuiltInv(s, l, n, w), NEW w2 \in Walks,
           w2.start = w.start, w2.end = w.end,
           GoodList(w2.out), AllPrecedeFrom(w2.out, s, n+1),
           \A p \in Pids, x \in 0..FS_LOCK_EOF, type \in LockTypes :
              Holds(w2.out, p, x, type)
              <=> Holds(w.out, p, x, type) \/ (Covers(s[n], p, x, type) /\ ~InRange(l, w, p, x))
    PROVE  BuiltInv(s, l, n+1, w2)
  <1>1. \A i \in DOMAIN s : i < n+1 <=> i < n \/ i = n
    BY DEF GoodList
  <1>2. \A p, x, type : HoldsBefore(s, n+1, p, x, type)
                        <=> HoldsBefore(s, n, p, x, type) \/ Covers(s[n], p, x, type)
    BY <1>1 DEF HoldsBefore
  <1>3. \A p, x : InRange(l, w2, p, x) <=> InRange(l, w, p, x)
    BY DEF InRange
  <1>4. Grown(s, l, n+1, w2)
    BY <1>2 DEF BuiltInv, Grown
  <1>5. BytesKept(s, l, n+1, w2)
    BY <1>2, <1>3 DEF BuiltInv, BytesKept
  <1> QED BY <1>4, <1>5 DEF BuiltInv

(* What the loop has built precedes the lock it comes to. *)
LEMMA BuiltSoFar ==
    ASSUME NEW s, GoodList(s), NEW n \in DOMAIN s, NEW l, NEW w, BuiltInv(s, l, n, w)
    PROVE  GoodList(w.out) /\ AllPrecede(w.out, s[n]) /\ AllPrecedeFrom(w.out, s, n+1)
  <1>1. n <= n /\ \A j \in DOMAIN s : n+1 <= j => n <= j
    BY DEF GoodList
  <1> QED BY <1>1 DEF BuiltInv, AllPrecedeFrom, PrecedesFrom, AllPrecede

(* The bytes of cur outside the range are those of c. *)
Remains(c, cur, l, w) ==
    \A p \in Pids, x \in 0..FS_LOCK_EOF, type \in LockTypes :
       Covers(c, p, x, type) <=> Covers(cur, p, x, type) /\ ~InRange(l, w, p, x)

(* The turn keeps a part of the lock at n. *)
LEMMA BuiltPart ==
    ASSUME NEW s, GoodList(s), NEW n \in DOMAIN s, NEW l \in AskedLocks,
           NEW w \in Walks, BuiltInv(s, l, n, w), NEW w2 \in Walks,
           w2.start = w.start, w2.end = w.end,
           NEW c, PartOf(c, s, n), Remains(c, s[n], l, w), w2.out = Append(w.out, c)
    PROVE  BuiltInv(s, l, n+1, w2)
  <1>1. GoodList(w.out) /\ AllPrecede(w.out, s[n]) /\ AllPrecedeFrom(w.out, s, n+1)
    BY BuiltSoFar
  <1>2. AllPrecede(w.out, c) /\ c \in HeldLocks /\ c.start <= c.end
    BY <1>1, PartBetween DEF PartOf
  <1>3. GoodList(w2.out) /\ \A p, x, type : Holds(w2.out, p, x, type)
                               <=> Holds(w.out, p, x, type) \/ Covers(c, p, x, type)
    BY <1>1, <1>2, AppendGood
  <1>4. AllPrecedeFrom(w2.out, s, n+1)
    BY <1>1, <1>2, AppendPart
  <1>5. \A p \in Pids, x \in 0..FS_LOCK_EOF, type \in LockTypes :
              Holds(w2.out, p, x, type)
              <=> Holds(w.out, p, x, type) \/ (Covers(s[n], p, x, type) /\ ~InRange(l, w, p, x))
    BY <1>3 DEF Remains
  <1> QED BY <1>3, <1>4, <1>5, BuiltOut

(* The turn drops the lock at n. *)
LEMMA BuiltDrop ==
    ASSUME NEW s, GoodList(s), NEW n \in DOMAIN s, NEW l \in AskedLocks,
           NEW w \in Walks, BuiltInv(s, l, n, w),
           \A p \in Pids, x \in 0..FS_LOCK_EOF, type \in LockTypes :
              Covers(s[n], p, x, type) => InRange(l, w, p, x)
    PROVE  BuiltInv(s, l, n+1, w)
  <1>1. GoodList(w.out) /\ AllPrecedeFrom(w.out, s, n+1)
    BY BuiltSoFar
  <1>2. \A p \in Pids, x \in 0..FS_LOCK_EOF, type \in LockTypes :
              Holds(w.out, p, x, type)
              <=> Holds(w.out, p, x, type) \/ (Covers(s[n], p, x, type) /\ ~InRange(l, w, p, x))
    OBVIOUS
  <1> QED BY <1>1, <1>2, BuiltOut

(* The turn keeps two parts of the lock at n. *)
LEMMA BuiltSplit ==
    ASSUME NEW s, GoodList(s), NEW n \in DOMAIN s, NEW l \in AskedLocks,
           NEW w \in Walks, BuiltInv(s, l, n, w), NEW w2 \in Walks,
           w2.start = w.start, w2.end = w.end,
           NEW c, PartOf(c, s, n), NEW d, PartOf(d, s, n), Precedes(c, d),
           \A p \in Pids, x \in 0..FS_LOCK_EOF, type \in LockTypes :
              Covers(c, p, x, type) \/ Covers(d, p, x, type)
              <=> Covers(s[n], p, x, type) /\ ~InRange(l, w, p, x),
           w2.out = Append(Append(w.out, c), d)
    PROVE  BuiltInv(s, l, n+1, w2)
  <1> DEFINE o == Append(w.out, c)
  <1>1. GoodList(w.out) /\ AllPrecede(w.out, s[n]) /\ AllPrecedeFrom(w.out, s, n+1)
    BY BuiltSoFar
  <1>2. /\ AllPrecede(w.out, c) /\ c \in HeldLocks /\ c.start <= c.end
        /\ AllPrecede(w.out, d) /\ d \in HeldLocks /\ d.start <= d.end
    BY <1>1, PartBetween DEF PartOf
  <1>3. /\ GoodList(o)
        /\ \A i \in DOMAIN w.out : o[i] = w.out[i]
        /\ o[Len(w.out) + 1] = c
        /\ DOMAIN o = DOMAIN w.out \cup {Len(w.out) + 1}
        /\ \A p, x, type : Holds(o, p, x, type)
                            <=> Holds(w.out, p, x, type) \/ Covers(c, p, x, type)
    BY <1>1, <1>2, AppendGood
  <1>4. AllPrecedeFrom(o, s, n+1)
    BY <1>1, <1>2, AppendPart
  <1> HIDE DEF o
  <1>5. AllPrecede(o, d)
    BY <1>2, <1>3 DEF AllPrecede
  <1>6. w2.out = Append(o, d)
    BY DEF o
  <1>7. GoodList(w2.out) /\ \A p, x, type : Holds(w2.out, p, x, type)
                               <=> Holds(o, p, x, type) \/ Covers(d, p, x, type)
    BY <1>2, <1>3, <1>5, <1>6, AppendGood
  <1>8. AllPrecedeFrom(w2.out, s, n+1)
    BY <1>3, <1>4, <1>5, <1>6, AppendPart
  <1>9. ASSUME NEW p \in Pids, NEW x \in 0..FS_LOCK_EOF, NEW type \in LockTypes
        PROVE  Holds(w2.out, p, x, type)
               <=> Holds(w.out, p, x, type) \/ (Covers(s[n], p, x, type) /\ ~InRange(l, w, p, x))
    BY <1>3, <1>7
  <1> QED BY <1>7, <1>8, <1>9, BuiltOut

(* The turn extends the range over the lock at n, which touches it. *)
LEMMA BuiltMerge ==
    ASSUME NEW s, GoodList(s), NEW n \in DOMAIN s, NEW l \in AskedLocks,
           NEW w \in Walks, BuiltInv(s, l, n, w), NEW w2 \in Walks,
           s[n].owner = l.owner, s[n].type = l.type,
           w.start <= s[n].end + 1, s[n].start <= w.end + 1,
           w2.out = w.out,
           w2.start = (IF s[n].start < w.start THEN s[n].start ELSE w.start),
           w2.end = (IF s[n].end > w.end THEN s[n].end ELSE w.end)
    PROVE  BuiltInv(s, l, n+1, w2)
  <1>1. GoodList(w.out) /\ AllPrecede(w.out, s[n]) /\ AllPrecedeFrom(w.out, s, n+1)
    BY BuiltSoFar
  <1>2. \A i \in DOMAIN s : i < n+1 <=> i < n \/ i = n
    BY DEF GoodList
  <1>3. \A p, x, type : HoldsBefore(s, n+1, p, x, type)
                        <=> HoldsBefore(s, n, p, x, type) \/ Covers(s[n], p, x, type)
    BY <1>2 DEF HoldsBefore
  <1>4. /\ s[n] \in HeldLocks /\ s[n].start \in Int /\ s[n].end \in Int
        /\ s[n].start <= s[n].end
        /\ l.start \in Int /\ l.end \in Int /\ s[n].owner \in Int
    BY GoodElement, HeldFields, LockFields
  <1>5. w.start \in Int /\ w.end \in Int
    <2>1. w.start \in 0..FS_LOCK_EOF /\ w.end \in 0..FS_LOCK_EOF
      BY DEF Walks
    <2> QED BY <2>1, EofAssumption
  <1>6. \A x \in Int : w2.start <= x /\ x <= w2.end
          <=> (w.start <= x /\ x <= w.end) \/ (s[n].start <= x /\ x <= s[n].end)
    BY <1>4, <1>5
  <1>7. Grown(s, l, n, w) /\ BytesKept(s, l, n, w)
    BY DEF BuiltInv
  <1>8. Grown(s, l, n+1, w2)
    <2>1. w2.start <= l.start /\ l.end <= w2.end
      BY <1>4, <1>5, <1>7 DEF Grown
    <2>2. ASSUME NEW x \in w2.start..w2.end, ~(l.start <= x /\ x <= l.end)
          PROVE  HoldsBefore(s, n+1, l.owner, x, l.type)
      <3>1. x \in Int /\ w2.start <= x /\ x <= w2.end
        BY <1>4, <1>5
      <3>2. CASE w.start <= x /\ x <= w.end
        <4>1. x \in w.start..w.end
          BY <3>1, <3>2, <1>5
        <4> QED BY <4>1, <2>2, <1>3, <1>7 DEF Grown
      <3>3. CASE s[n].start <= x /\ x <= s[n].end
        BY <3>3, <1>3 DEF Covers
      <3> QED BY <3>1, <3>2, <3>3, <1>6
    <2> QED BY <2>1, <2>2 DEF Grown
  <1>9. BytesKept(s, l, n+1, w2)
    <2> SUFFICES ASSUME NEW p \in Pids, NEW x \in 0..FS_LOCK_EOF, NEW type \in LockTypes
                 PROVE  Holds(w.out, p, x, type)
                        <=> HoldsBefore(s, n+1, p, x, type) /\ ~InRange(l, w2, p, x)
      BY DEF BytesKept
    <2>1. x \in Int
      BY EofAssumption
    <2>2. InRange(l, w2, p, x)
          <=> InRange(l, w, p, x) \/ (p = l.owner /\ s[n].start <= x /\ x <= s[n].end)
      BY <2>1, <1>6 DEF InRange
    <2>3. Covers(s[n], p, x, type) => InRange(l, w2, p, x)
      BY <2>2 DEF Covers
    <2>4. p = l.owner /\ s[n].start <= x /\ x <= s[n].end => ~Holds(w.out, p, x, type)
      <3> SUFFICES ASSUME p = l.owner, s[n].start <= x, NEW i \in DOMAIN w.out,
                          Covers(w.out[i], p, x, type)
                   PROVE  FALSE
        BY DEF Holds
      <3>1. w.out[i].owner = s[n].owner /\ x <= w.out[i].end
        BY DEF Covers
      <3>2. w.out[i].end < s[n].start
        BY <3>1, <1>1, <1>4 DEF AllPrecede, Precedes
      <3>3. w.out[i].end \in Int
        BY <1>1, GoodElement, HeldFields
      <3> QED BY <3>1, <3>2, <3>3, <2>1, <1>4
    <2>5. Holds(w.out, p, x, type) <=> HoldsBefore(s, n, p, x, type) /\ ~InRange(l, w, p, x)
      BY <1>7 DEF BytesKept
    <2> QED BY <2>2, <2>3, <2>4, <2>5, <1>3
  <1> QED BY <1>1, <1>8, <1>9 DEF BuiltInv

-----------------------------------------------------------------------------
(* The place of the new lock                                               *)

(* The lock that _posix_lock_set inserts, with the range as it has grown. *)
LEMMA NewLockFields ==
    ASSUME NEW l \in AskedLocks, NEW w \in Walks
    PROVE  /\ NewLock(l, w) \in AskedLocks
           /\ NewLock(l, w).owner = l.owner /\ NewLock(l, w).type = l.type
           /\ NewLock(l, w).start = w.start /\ NewLock(l, w).end = w.end
  BY DEF NewLock, AskedLocks, Walks

(* The local variables of the loop. *)
LEMMA WalkFields ==
    ASSUME NEW w \in Walks
    PROVE  /\ w.out \in Seq(HeldLocks) /\ w.prev \in Nat /\ w.done \in BOOLEAN
           /\ w.start \in 0..FS_LOCK_EOF /\ w.end \in 0..FS_LOCK_EOF
           /\ w.start \in Int /\ w.end \in Int
  <1>1. /\ w.out \in Seq(HeldLocks) /\ w.prev \in Nat /\ w.done \in BOOLEAN
        /\ w.start \in 0..FS_LOCK_EOF /\ w.end \in 0..FS_LOCK_EOF
    BY DEF Walks
  <1>2. \A n \in 0..FS_LOCK_EOF : n \in Int
    BY EofAssumption
  <1> QED BY <1>1, <1>2

(* c becomes prev. *)
LEMMA PlaceBefore ==
    ASSUME NEW s, NEW n, NEW m, NEW l \in AskedLocks,
           NEW w \in Walks, PlaceInv(s, l, n, w), ~w.done, NEW w2 \in Walks,
           w2.start = w.start, w2.end = w.end, ~w2.done, w2.prev = Len(w.out) + 1,
           NEW c \in HeldLocks, w2.out = Append(w.out, c), Precedes(c, NewLock(l, w))
    PROVE  PlaceInv(s, l, m, w2)
  <1>1. w.out \in Seq(HeldLocks) /\ w.prev = Len(w.out)
    BY WalkFields DEF PlaceInv
  <1>2. /\ Len(w2.out) = Len(w.out) + 1 /\ DOMAIN w2.out = 1..(Len(w.out) + 1)
        /\ w2.out[Len(w.out) + 1] = c
        /\ \A i \in 1..Len(w.out) : w2.out[i] = w.out[i]
    BY <1>1, AppendProperties
  <1>3. DOMAIN w.out = 1..Len(w.out) /\ Len(w.out) \in Nat
    BY <1>1
  <1>4. NewLock(l, w2) = NewLock(l, w)
    BY DEF NewLock
  <1>5. ASSUME NEW i \in DOMAIN w2.out PROVE Precedes(w2.out[i], NewLock(l, w))
    <2>1. CASE i = Len(w.out) + 1
      BY <2>1, <1>2
    <2>2. CASE i # Len(w.out) + 1
      <3>1. i \in 1..Len(w.out) /\ i <= w.prev
        BY <2>2, <1>1, <1>2, <1>3
      <3>2. Precedes(w.out[i], NewLock(l, w))
        BY <3>1, <1>3 DEF PlaceInv
      <3> QED BY <3>1, <3>2, <1>2
    <2> QED BY <2>1, <2>2
  <1>6. \A i \in DOMAIN w2.out : ~(w2.prev < i)
    BY <1>2, <1>3
  <1>7. w2.prev <= Len(w2.out) /\ w2.prev = Len(w2.out)
    BY <1>2, <1>3
  <1> QED BY <1>4, <1>5, <1>6, <1>7 DEF PlaceInv

(* c stays behind the place of the new lock. *)
LEMMA PlaceBehind ==
    ASSUME NEW s, NEW n, NEW m, NEW l \in AskedLocks,
           NEW w \in Walks, PlaceInv(s, l, n, w), NEW w2 \in Walks,
           w2.start = w.start, w2.end = w.end, w2.done, w2.prev = w.prev,
           NEW c \in HeldLocks, w2.out = Append(w.out, c), Precedes(NewLock(l, w), c),
           PrecedesFrom(NewLock(l, w), s, m)
    PROVE  PlaceInv(s, l, m, w2)
  <1>1. w.out \in Seq(HeldLocks) /\ w.prev \in Nat /\ w.prev <= Len(w.out)
    BY WalkFields DEF PlaceInv
  <1>2. /\ Len(w2.out) = Len(w.out) + 1 /\ DOMAIN w2.out = 1..(Len(w.out) + 1)
        /\ w2.out[Len(w.out) + 1] = c
        /\ \A i \in 1..Len(w.out) : w2.out[i] = w.out[i]
    BY <1>1, AppendProperties
  <1>3. DOMAIN w.out = 1..Len(w.out) /\ Len(w.out) \in Nat
    BY <1>1
  <1>4. NewLock(l, w2) = NewLock(l, w)
    BY DEF NewLock
  <1>5. ASSUME NEW i \in DOMAIN w2.out
        PROVE  IF i <= w.prev THEN Precedes(w2.out[i], NewLock(l, w))
                              ELSE Precedes(NewLock(l, w), w2.out[i])
    <2>1. CASE i = Len(w.out) + 1
      <3>1. ~(i <= w.prev)
        BY <2>1, <1>1, <1>3
      <3> QED BY <3>1, <2>1, <1>2
    <2>2. CASE i # Len(w.out) + 1
      <3>1. i \in 1..Len(w.out) /\ (i <= w.prev \/ w.prev < i)
        BY <2>2, <1>1, <1>2, <1>3
      <3>2. IF i <= w.prev THEN Precedes(w.out[i], NewLock(l, w))
                           ELSE Precedes(NewLock(l, w), w.out[i])
        BY <3>1, <1>3 DEF PlaceInv
      <3> QED BY <3>1, <3>2, <1>2
    <2> QED BY <2>1, <2>2
  <1>6. \A i \in DOMAIN w2.out : w2.prev < i => ~(i <= w.prev)
    BY <1>1, <1>2, <1>3
  <1>7. w2.prev <= Len(w2.out)
    BY <1>1, <1>2, <1>3
  <1> QED BY <1>4, <1>5, <1>6, <1>7 DEF PlaceInv

(* When the lock at n starts behind the range, so do all after it. *)
LEMMA RestBehind ==
    ASSUME NEW s, GoodList(s), NEW n \in DOMAIN s, NEW k \in AskedLocks,
           \/ k.owner < s[n].owner
           \/ k.owner = s[n].owner /\ k.end < s[n].end
    PROVE  PrecedesFrom(k, s, n+1)
  <1> SUFFICES ASSUME NEW j \in DOMAIN s, n+1 <= j PROVE Precedes(k, s[j])
    BY DEF PrecedesFrom
  <1>1. n < j
    BY DEF GoodList
  <1>2. Precedes(s[n], s[j])
    BY <1>1 DEF GoodList, Sorted
  <1>3. /\ k.owner \in Int /\ s[n].owner \in Int /\ s[j].owner \in Int
        /\ k.end \in Int /\ s[n].end \in Int /\ s[j].start \in Int
    BY GoodElement, LockFields
  <1> QED BY <1>2, <1>3 DEF Precedes

-----------------------------------------------------------------------------
(* One turn of the loop of _posix_lock_set                                 *)

(* What a turn does that keeps a lock in the list. *)
LEMMA KeepFields ==
    ASSUME NEW w \in Walks, NEW c \in HeldLocks
    PROVE  /\ Keep(w, c) \in Walks /\ Keep(w, c).out = Append(w.out, c)
           /\ Keep(w, c).start = w.start /\ Keep(w, c).end = w.end
           /\ Keep(w, c).prev = w.prev /\ Keep(w, c).done = w.done
  <1>1. Append(w.out, c) \in Seq(HeldLocks)
    BY WalkFields, AppendProperties
  <1> QED BY <1>1 DEF Keep, Walks

(* What a turn does that keeps a lock and inserts behind it. *)
LEMMA KeepPrevFields ==
    ASSUME NEW w \in Walks, NEW c \in HeldLocks
    PROVE  /\ KeepPrev(w, c) \in Walks /\ KeepPrev(w, c).out = Append(w.out, c)
           /\ KeepPrev(w, c).start = w.start /\ KeepPrev(w, c).end = w.end
           /\ KeepPrev(w, c).prev = Len(w.out) + 1 /\ KeepPrev(w, c).done = w.done
  <1>1. Append(w.out, c) \in Seq(HeldLocks)
    BY WalkFields, AppendProperties
  <1>2. Len(w.out) + 1 \in Nat
    BY WalkFields
  <1> QED BY <1>1, <1>2 DEF KeepPrev, Walks

(* What a turn does that keeps a lock and leaves the loop. *)
LEMMA BreakFields ==
    ASSUME NEW w \in Walks, NEW c \in HeldLocks
    PROVE  /\ Break(w, c) \in Walks /\ Break(w, c).out = Append(w.out, c)
           /\ Break(w, c).start = w.start /\ Break(w, c).end = w.end
           /\ Break(w, c).prev = w.prev /\ Break(w, c).done
  <1>1. Append(w.out, c) \in Seq(HeldLocks)
    BY WalkFields, AppendProperties
  <1> QED BY <1>1 DEF Keep, Break, Walks

(* A turn that keeps what is left of a lock before the new one. *)
LEMMA TurnBefore ==
    ASSUME NEW s, GoodList(s), NEW n \in DOMAIN s, NEW l, NEW w, SetWalk(s, l, n, w),
           NEW c, PartOf(c, s, n), Remains(c, s[n], l, w), ~w.done,
           Precedes(c, NewLock(l, w))
    PROVE  SetWalk(s, l, n+1, KeepPrev(w, c))
  <1> DEFINE w2 == KeepPrev(w, c)
  <1>1. /\ l \in AskedLocks /\ l.start <= l.end
        /\ w \in Walks /\ BuiltInv(s, l, n, w) /\ PlaceInv(s, l, n, w) /\ c \in HeldLocks
    BY DEF SetWalk, PartOf
  <1>2. /\ w2 \in Walks /\ w2.out = Append(w.out, c) /\ w2.start = w.start /\ w2.end = w.end
        /\ w2.prev = Len(w.out) + 1 /\ ~w2.done
    BY <1>1, KeepPrevFields
  <1> HIDE DEF w2
  <1>3. BuiltInv(s, l, n+1, w2)
    BY <1>1, <1>2, BuiltPart
  <1>4. PlaceInv(s, l, n+1, w2)
    BY <1>1, <1>2, PlaceBefore
  <1>5. SetWalk(s, l, n+1, w2)
    BY <1>1, <1>2, <1>3, <1>4 DEF SetWalk
  <1> QED BY <1>5 DEF w2

(* A turn that keeps what is left of a lock behind the new one. *)
LEMMA TurnBehind ==
    ASSUME NEW s, GoodList(s), NEW n \in DOMAIN s, NEW l, NEW w, SetWalk(s, l, n, w),
           NEW c, PartOf(c, s, n), Remains(c, s[n], l, w),
           Precedes(NewLock(l, w), c), PrecedesFrom(NewLock(l, w), s, n+1)
    PROVE  /\ SetWalk(s, l, n+1, Break(w, c))
           /\ w.done => SetWalk(s, l, n+1, Keep(w, c))
  <1>1. /\ l \in AskedLocks /\ l.start <= l.end
        /\ w \in Walks /\ BuiltInv(s, l, n, w) /\ PlaceInv(s, l, n, w) /\ c \in HeldLocks
    BY DEF SetWalk, PartOf
  <1>2. ASSUME NEW w2 \in Walks, w2.out = Append(w.out, c), w2.start = w.start,
               w2.end = w.end, w2.prev = w.prev, w2.done
        PROVE  SetWalk(s, l, n+1, w2)
    <2>1. BuiltInv(s, l, n+1, w2)
      BY <1>1, <1>2, BuiltPart
    <2>2. PlaceInv(s, l, n+1, w2)
      BY <1>1, <1>2, PlaceBehind
    <2> QED BY <1>1, <1>2, <2>1, <2>2 DEF SetWalk
  <1>3. SetWalk(s, l, n+1, Break(w, c))
    BY <1>1, <1>2, BreakFields
  <1>4. w.done => SetWalk(s, l, n+1, Keep(w, c))
    BY <1>1, <1>2, KeepFields
  <1> QED BY <1>3, <1>4

(* The lock at n lies outside the range. *)
LEMMA WholeRemains ==
    ASSUME NEW s, GoodList(s), NEW n \in DOMAIN s, NEW l \in AskedLocks, NEW w \in Walks,
           Precedes(s[n], NewLock(l, w)) \/ Precedes(NewLock(l, w), s[n])
    PROVE  PartOf(s[n], s, n) /\ Remains(s[n], s[n], l, w)
  <1> DEFINE k == NewLock(l, w)
  <1>1. s[n] \in HeldLocks /\ s[n].start <= s[n].end
    BY GoodElement
  <1>2. /\ s[n].start \in Int /\ s[n].end \in Int /\ s[n].owner \in Int
        /\ w.start \in Int /\ w.end \in Int /\ l.owner \in Int
    BY <1>1, HeldFields, LockFields, WalkFields
  <1>3. PartOf(s[n], s, n)
    BY <1>1, <1>2 DEF PartOf
  <1>4. k.owner = l.owner /\ k.start = w.start /\ k.end = w.end
    BY NewLockFields
  <1>5. s[n].owner # l.owner \/ s[n].end < w.start \/ w.end < s[n].start
    BY <1>2, <1>4 DEF Precedes
  <1>6. \A x \in 0..FS_LOCK_EOF : x \in Int
    BY EofAssumption
  <1>7. ASSUME NEW p \in Pids, NEW x \in 0..FS_LOCK_EOF, NEW type \in LockTypes,
               Covers(s[n], p, x, type)
        PROVE  ~InRange(l, w, p, x)
    BY <1>2, <1>5, <1>6, <1>7 DEF Covers, InRange
  <1> QED BY <1>3, <1>7 DEF Remains

(* A turn that keeps a whole lock before the new one. *)
LEMMA WholeBefore ==
    ASSUME NEW s, GoodList(s), NEW n \in DOMAIN s, NEW l, NEW w, SetWalk(s, l, n, w),
           ~w.done, Precedes(s[n], NewLock(l, w))
    PROVE  SetWalk(s, l, n+1, KeepPrev(w, s[n]))
  <1>1. PartOf(s[n], s, n) /\ Remains(s[n], s[n], l, w)
    BY WholeRemains DEF SetWalk
  <1> QED BY <1>1, TurnBefore

(* A turn that keeps a whole lock behind the new one. *)
LEMMA WholeBehind ==
    ASSUME NEW s, GoodList(s), NEW n \in DOMAIN s, NEW l, NEW w, SetWalk(s, l, n, w),
           Precedes(NewLock(l, w), s[n])
    PROVE  /\ SetWalk(s, l, n+1, Break(w, s[n]))
           /\ w.done => SetWalk(s, l, n+1, Keep(w, s[n]))
  <1> DEFINE k == NewLock(l, w)
  <1>1. l \in AskedLocks /\ w \in Walks
    BY DEF SetWalk
  <1>2. PartOf(s[n], s, n) /\ Remains(s[n], s[n], l, w)
    BY <1>1, WholeRemains
  <1>3. PrecedesFrom(k, s, n+1)
    <2>1. k \in AskedLocks /\ s[n] \in AskedLocks /\ s[n].start <= s[n].end
      BY <1>1, NewLockFields, GoodElement
    <2>2. k.end \in Int /\ s[n].start \in Int /\ s[n].end \in Int
      BY <2>1, LockFields
    <2> HIDE DEF k
    <2>3. \/ k.owner < s[n].owner
          \/ k.owner = s[n].owner /\ k.end < s[n].end
      <3>1. Precedes(k, s[n])
        BY DEF k
      <3> QED BY <3>1, <2>1, <2>2 DEF Precedes
    <2> QED BY <2>1, <2>3, RestBehind
  <1> QED BY <1>2, <1>3, TurnBehind

(* What is cut off the lock at n, of the owner and of another type. *)
LEMMA FrontPart ==
    ASSUME NEW s, GoodList(s), NEW n \in DOMAIN s, NEW l \in AskedLocks, NEW w \in Walks,
           s[n].owner = l.owner, s[n].type # l.type,
           s[n].start < w.start, w.start <= s[n].end
    PROVE  /\ PartOf(FrontOf(w, s[n]), s, n)
           /\ Precedes(FrontOf(w, s[n]), NewLock(l, w))
           /\ FrontOf(w, s[n]).start = s[n].start /\ FrontOf(w, s[n]).end = w.start - 1
  <1> DEFINE c == FrontOf(w, s[n])
             k == NewLock(l, w)
  <1>1. s[n] \in HeldLocks
    BY GoodElement
  <1>2. /\ s[n].start \in 0..FS_LOCK_EOF /\ s[n].start \in Int /\ s[n].end \in Int
        /\ w.start \in 0..FS_LOCK_EOF /\ w.start \in Int
    BY <1>1, HeldFields, WalkFields
  <1>3. w.start - 1 \in 0..FS_LOCK_EOF /\ Minus1(w.start) = w.start - 1
    BY <1>2, EofAssumption DEF Minus1
  <1>4. /\ c \in HeldLocks /\ c.owner = s[n].owner /\ c.type = s[n].type
        /\ c.start = s[n].start /\ c.end = w.start - 1
    BY <1>1, <1>3 DEF FrontOf, HeldLocks
  <1>5. k.owner = l.owner /\ k.type = l.type /\ k.start = w.start
    BY NewLockFields
  <1> HIDE DEF c, k
  <1>6. PartOf(c, s, n)
    BY <1>2, <1>4 DEF PartOf
  <1>7. Precedes(c, k)
    <2>1. c.end < k.start
      BY <1>2, <1>4, <1>5
    <2> QED BY <2>1, <1>4, <1>5 DEF Precedes
  <1> QED BY <1>4, <1>6, <1>7 DEF c, k

(* The part of a lock that is left behind the new range. *)
LEMMA BackPart ==
    ASSUME NEW s, GoodList(s), NEW n \in DOMAIN s, NEW l \in AskedLocks, NEW w \in Walks,
           s[n].owner = l.owner, s[n].type # l.type,
           s[n].start <= w.end, w.end < s[n].end
    PROVE  /\ PartOf(BackOf(w, s[n]), s, n)
           /\ Precedes(NewLock(l, w), BackOf(w, s[n]))
           /\ BackOf(w, s[n]).start = w.end + 1 /\ BackOf(w, s[n]).end = s[n].end
           /\ PrecedesFrom(NewLock(l, w), s, n+1)
  <1> DEFINE c == BackOf(w, s[n])
             k == NewLock(l, w)
  <1>1. s[n] \in HeldLocks
    BY GoodElement
  <1>2. /\ s[n].end \in 0..FS_LOCK_EOF /\ s[n].start \in Int /\ s[n].end \in Int
        /\ w.end \in 0..FS_LOCK_EOF /\ w.end \in Int
    BY <1>1, HeldFields, WalkFields
  <1>3. w.end + 1 \in 0..FS_LOCK_EOF /\ Plus1(w.end) = w.end + 1
    BY <1>2, EofAssumption DEF Plus1
  <1>4. /\ c \in HeldLocks /\ c.owner = s[n].owner /\ c.type = s[n].type
        /\ c.end = s[n].end /\ c.start = w.end + 1
    BY <1>1, <1>3 DEF BackOf, HeldLocks
  <1>5. k \in AskedLocks /\ k.owner = l.owner /\ k.type = l.type /\ k.end = w.end
    BY NewLockFields
  <1> HIDE DEF c, k
  <1>6. PartOf(c, s, n)
    BY <1>2, <1>4 DEF PartOf
  <1>7. Precedes(k, c)
    <2>1. k.end < c.start
      BY <1>2, <1>4, <1>5
    <2> QED BY <2>1, <1>4, <1>5 DEF Precedes
  <1>8. PrecedesFrom(k, s, n+1)
    BY <1>5, RestBehind
  <1> QED BY <1>4, <1>6, <1>7, <1>8 DEF c, k

(* The turn at a lock of the owner with another type. *)
LEMMA OtherTypeKeeps ==
    ASSUME NEW s, GoodList(s), NEW n \in DOMAIN s, NEW l, NEW w, SetWalk(s, l, n, w),
           ~w.done, s[n].owner = l.owner, s[n].type # l.type
    PROVE  SetWalk(s, l, n+1, OtherType(w, s[n]))
  <1> DEFINE cur == s[n]
             k == NewLock(l, w)
  <1>1. /\ l \in AskedLocks /\ l.start <= l.end
        /\ w \in Walks /\ BuiltInv(s, l, n, w) /\ PlaceInv(s, l, n, w)
    BY DEF SetWalk
  <1>2. cur \in HeldLocks /\ cur.start <= cur.end
    BY GoodElement
  <1>3. /\ cur.start \in Int /\ cur.end \in Int /\ w.start \in Int /\ w.end \in Int
        /\ l.start \in Int /\ l.end \in Int
    BY <1>1, <1>2, HeldFields, LockFields, WalkFields
  <1>4. w.start <= w.end
    BY <1>1, <1>3 DEF BuiltInv, Grown
  <1>5. k.owner = l.owner /\ k.type = l.type /\ k.start = w.start /\ k.end = w.end
    BY <1>1, NewLockFields
  <1>6. \A x \in 0..FS_LOCK_EOF : x \in Int
    BY EofAssumption
  <1> HIDE DEF k
  <1>7. CASE cur.end < w.start
    <2>1. Precedes(cur, k)
      BY <1>5, <1>7 DEF Precedes
    <2>2. OtherType(w, cur) = KeepPrev(w, cur)
      BY <1>7 DEF OtherType
    <2> QED BY <2>1, <2>2, WholeBefore DEF k
  <1>8. CASE w.end < cur.start
    <2>1. Precedes(k, cur)
      BY <1>5, <1>8 DEF Precedes
    <2>2. OtherType(w, cur) = Break(w, cur)
      BY <1>3, <1>4, <1>2, <1>8 DEF OtherType
    <2> QED BY <2>1, <2>2, WholeBehind DEF k
  <1>9. CASE w.start <= cur.end /\ cur.start <= w.end /\ cur.start < w.start /\ cur.end <= w.end
    <2> DEFINE c == FrontOf(w, cur)
    <2>1. PartOf(c, s, n) /\ Precedes(c, k) /\ c.start = cur.start /\ c.end = w.start - 1
      BY <1>1, <1>9, FrontPart DEF k
    <2>2. OtherType(w, cur) = KeepPrev(w, c)
      BY <1>3, <1>9 DEF OtherType
    <2> HIDE DEF c
    <2>3. Remains(c, cur, l, w)
      <3> SUFFICES ASSUME NEW p \in Pids, NEW x \in 0..FS_LOCK_EOF, NEW type \in LockTypes
                   PROVE  Covers(c, p, x, type) <=> Covers(cur, p, x, type) /\ ~InRange(l, w, p, x)
        BY DEF Remains
      <3>1. x \in Int
        BY <1>6
      <3>2. (c.start <= x /\ x <= c.end)
            <=> (cur.start <= x /\ x <= cur.end) /\ ~(w.start <= x /\ x <= w.end)
        BY <3>1, <2>1, <1>3, <1>9
      <3>3. c.owner = cur.owner /\ c.type = cur.type
        BY <2>1 DEF PartOf
      <3> QED BY <3>2, <3>3 DEF Covers, InRange
    <2> QED BY <2>1, <2>2, <2>3, TurnBefore DEF k
  <1>10. CASE w.start <= cur.end /\ cur.start <= w.end /\ cur.start < w.start /\ cur.end > w.end
    <2> DEFINE c == FrontOf(w, cur)
               d == BackOf(w, cur)
               w1 == KeepPrev(w, c)
               w2 == Break(w1, d)
    <2>0. w.end < cur.end
      BY <1>3, <1>10
    <2>1. PartOf(c, s, n) /\ Precedes(c, k) /\ c.start = cur.start /\ c.end = w.start - 1
      BY <1>1, <1>10, FrontPart DEF k
    <2>2. /\ PartOf(d, s, n) /\ Precedes(k, d) /\ d.start = w.end + 1 /\ d.end = cur.end
          /\ PrecedesFrom(k, s, n+1)
      BY <1>1, <1>10, <2>0, BackPart DEF k
    <2>3. OtherType(w, cur) = w2
      BY <1>3, <1>10 DEF OtherType
    <2>4. c \in HeldLocks /\ d \in HeldLocks
      BY <2>1, <2>2 DEF PartOf
    <2> HIDE DEF c, d
    <2>5. /\ w1 \in Walks /\ w1.out = Append(w.out, c) /\ w1.start = w.start
          /\ w1.end = w.end /\ w1.prev = Len(w.out) + 1 /\ ~w1.done
      BY <1>1, <2>4, KeepPrevFields
    <2> HIDE DEF w1
    <2>6. /\ w2 \in Walks /\ w2.out = Append(w1.out, d) /\ w2.start = w1.start
          /\ w2.end = w1.end /\ w2.prev = w1.prev /\ w2.done
      BY <2>4, <2>5, BreakFields
    <2> HIDE DEF w2
    <2>7. Precedes(c, d)
      <3>1. c.owner = d.owner
        BY <2>1, <2>2 DEF PartOf
      <3>2. c.end + 1 < d.start /\ c.end < d.start
        BY <2>1, <2>2, <1>3, <1>4
      <3> QED BY <3>1, <3>2 DEF Precedes
    <2>8. ASSUME NEW p \in Pids, NEW x \in 0..FS_LOCK_EOF, NEW type \in LockTypes
          PROVE  Covers(c, p, x, type) \/ Covers(d, p, x, type)
                 <=> Covers(cur, p, x, type) /\ ~InRange(l, w, p, x)
      <3>1. x \in Int
        BY <1>6
      <3>2. (c.start <= x /\ x <= c.end) \/ (d.start <= x /\ x <= d.end)
            <=> (cur.start <= x /\ x <= cur.end) /\ ~(w.start <= x /\ x <= w.end)
        BY <3>1, <2>1, <2>2, <1>3, <1>10
      <3>3. c.owner = cur.owner /\ c.type = cur.type /\ d.owner = cur.owner /\ d.type = cur.type
        BY <2>1, <2>2 DEF PartOf
      <3> QED BY <3>2, <3>3 DEF Covers, InRange
    <2>9. BuiltInv(s, l, n+1, w2)
      BY <1>1, <2>1, <2>2, <2>5, <2>6, <2>7, <2>8, BuiltSplit
    <2>10. PlaceInv(s, l, n, w1)
      BY <1>1, <2>1, <2>4, <2>5, PlaceBefore DEF k
    <2>11. NewLock(l, w1) = k
      BY <2>5 DEF k, NewLock
    <2>12. PlaceInv(s, l, n+1, w2)
      BY <1>1, <2>2, <2>4, <2>5, <2>6, <2>10, <2>11, PlaceBehind
    <2> QED BY <1>1, <2>3, <2>6, <2>9, <2>12 DEF SetWalk
  <1>11. CASE w.start <= cur.start /\ cur.end <= w.end
    <2>1. OtherType(w, cur) = w
      BY <1>2, <1>3, <1>11 DEF OtherType
    <2>2. ASSUME NEW p \in Pids, NEW x \in 0..FS_LOCK_EOF, NEW type \in LockTypes,
                 Covers(cur, p, x, type)
          PROVE  InRange(l, w, p, x)
      BY <2>2, <1>3, <1>6, <1>11 DEF Covers, InRange
    <2>3. BuiltInv(s, l, n+1, w)
      BY <1>1, <2>2, BuiltDrop
    <2>4. PlaceInv(s, l, n+1, w)
      BY <1>1 DEF PlaceInv
    <2> QED BY <1>1, <2>1, <2>3, <2>4 DEF SetWalk
  <1>12. CASE w.start <= cur.start /\ cur.start <= w.end /\ w.end < cur.end
    <2> DEFINE c == BackOf(w, cur)
    <2>1. /\ PartOf(c, s, n) /\ Precedes(k, c) /\ c.start = w.end + 1 /\ c.end = cur.end
          /\ PrecedesFrom(k, s, n+1)
      BY <1>1, <1>12, BackPart DEF k
    <2>2. OtherType(w, cur) = Break(w, c)
      BY <1>2, <1>3, <1>12 DEF OtherType
    <2> HIDE DEF c
    <2>3. Remains(c, cur, l, w)
      <3> SUFFICES ASSUME NEW p \in Pids, NEW x \in 0..FS_LOCK_EOF, NEW type \in LockTypes
                   PROVE  Covers(c, p, x, type) <=> Covers(cur, p, x, type) /\ ~InRange(l, w, p, x)
        BY DEF Remains
      <3>1. x \in Int
        BY <1>6
      <3>2. (c.start <= x /\ x <= c.end)
            <=> (cur.start <= x /\ x <= cur.end) /\ ~(w.start <= x /\ x <= w.end)
        BY <3>1, <2>1, <1>3, <1>12
      <3>3. c.owner = cur.owner /\ c.type = cur.type
        BY <2>1 DEF PartOf
      <3> QED BY <3>2, <3>3 DEF Covers, InRange
    <2> QED BY <2>1, <2>2, <2>3, TurnBehind DEF k
  <1>13. \/ cur.end < w.start \/ w.end < cur.start
         \/ w.start <= cur.end /\ cur.start <= w.end /\ cur.start < w.start /\ cur.end <= w.end
         \/ w.start <= cur.end /\ cur.start <= w.end /\ cur.start < w.start /\ cur.end > w.end
         \/ w.start <= cur.start /\ cur.end <= w.end
         \/ w.start <= cur.start /\ cur.start <= w.end /\ w.end < cur.end
    BY <1>3
  <1> QED BY <1>7, <1>8, <1>9, <1>10, <1>11, <1>12, <1>13

(* The turn at a lock of the owner with the type asked for. *)
LEMMA SameTypeKeeps ==
    ASSUME NEW s, GoodList(s), NEW n \in DOMAIN s, NEW l, NEW w, SetWalk(s, l, n, w),
           ~w.done, s[n].owner = l.owner, s[n].type = l.type
    PROVE  SetWalk(s, l, n+1, SameType(w, s[n]))
  <1> DEFINE cur == s[n]
             k == NewLock(l, w)
  <1>1. /\ l \in AskedLocks /\ l.start <= l.end
        /\ w \in Walks /\ BuiltInv(s, l, n, w) /\ PlaceInv(s, l, n, w)
    BY DEF SetWalk
  <1>2. cur \in HeldLocks /\ cur.start <= cur.end
    BY GoodElement
  <1>3. /\ cur.start \in Int /\ cur.end \in Int /\ w.start \in Int /\ w.end \in Int
        /\ cur.start \in 0..FS_LOCK_EOF /\ cur.end \in 0..FS_LOCK_EOF
        /\ w.start \in 0..FS_LOCK_EOF /\ w.end \in 0..FS_LOCK_EOF
    BY <1>1, <1>2, HeldFields, WalkFields
  <1>4. /\ k.owner = l.owner /\ k.type = l.type /\ k.start = w.start /\ k.end = w.end
        /\ k \in AskedLocks
    BY <1>1, NewLockFields
  <1> HIDE DEF k
  <1>s. SameType(w, cur) = IF w.start > 0 /\ cur.end < w.start - 1 THEN KeepPrev(w, cur)
                           ELSE IF w.end < FS_LOCK_EOF /\ w.end + 1 < cur.start THEN Break(w, cur)
                           ELSE Merge(w, cur)
    <2>1. (w.start > 0 => Minus1(w.start) = w.start - 1)
          /\ (w.end < FS_LOCK_EOF => Plus1(w.end) = w.end + 1)
      BY <1>3, EofAssumption DEF Minus1, Plus1
    <2> QED BY <2>1 DEF SameType
  <1>5. CASE w.start > 0 /\ cur.end < w.start - 1
    <2>1. cur.end < w.start /\ cur.end + 1 < w.start
      BY <1>3, <1>5
    <2>2. Precedes(cur, k)
      BY <2>1, <1>4 DEF Precedes
    <2>3. SameType(w, cur) = KeepPrev(w, cur)
      BY <1>5, <1>s
    <2> QED BY <2>2, <2>3, WholeBefore DEF k
  <1>6. CASE ~(w.start > 0 /\ cur.end < w.start - 1)
             /\ w.end < FS_LOCK_EOF /\ w.end + 1 < cur.start
    <2>1. w.end < cur.start
      BY <1>3, <1>6
    <2>2. Precedes(k, cur)
      BY <2>1, <1>4, <1>6 DEF Precedes
    <2>3. SameType(w, cur) = Break(w, cur)
      BY <1>6, <1>s
    <2> QED BY <2>2, <2>3, WholeBehind DEF k
  <1>7. CASE ~(w.start > 0 /\ cur.end < w.start - 1)
             /\ ~(w.end < FS_LOCK_EOF /\ w.end + 1 < cur.start)
    <2> DEFINE w2 == Merge(w, cur)
    <2>1. SameType(w, cur) = w2
      BY <1>7, <1>s
    <2>2. w.start <= cur.end + 1 /\ cur.start <= w.end + 1
      BY <1>3, <1>7, EofAssumption
    <2>3. /\ w2.out = w.out /\ w2.prev = w.prev /\ w2.done = w.done
          /\ w2.start = (IF cur.start < w.start THEN cur.start ELSE w.start)
          /\ w2.end = (IF cur.end > w.end THEN cur.end ELSE w.end)
      BY <1>1 DEF Merge, Walks
    <2>4. w2 \in Walks
      BY <1>1, <1>3 DEF Merge, Walks
    <2> HIDE DEF w2
    <2>5. BuiltInv(s, l, n+1, w2)
      BY <1>1, <2>2, <2>3, <2>4, BuiltMerge
    <2>6. PlaceInv(s, l, n+1, w2)
      <3> DEFINE k2 == NewLock(l, w2)
      <3>1. /\ k2.owner = l.owner /\ k2.type = l.type /\ k2 \in AskedLocks
            /\ k2.start = (IF cur.start < w.start THEN cur.start ELSE w.start)
        BY <1>1, <2>3, <2>4, NewLockFields
      <3> HIDE DEF k2
      <3>2. w.out \in Seq(HeldLocks) /\ w.prev = Len(w.out)
        BY <1>1, WalkFields DEF PlaceInv
      <3>3. GoodList(w.out) /\ AllPrecede(w.out, cur)
        BY <1>1, BuiltSoFar
      <3>4. ASSUME NEW i \in DOMAIN w.out PROVE Precedes(w.out[i], k2)
        <4>1. i <= w.prev
          BY <3>2
        <4>2. Precedes(w.out[i], k) /\ Precedes(w.out[i], cur)
          BY <4>1, <1>1, <3>3 DEF PlaceInv, AllPrecede, k
        <4>3. k2.start = cur.start \/ k2.start = k.start
          BY <3>1, <1>4
        <4> QED BY <4>2, <4>3, <3>1, <1>4 DEF Precedes
      <3>5. \A i \in DOMAIN w.out : ~(w.prev < i)
        BY <3>2
      <3>6. w.prev <= Len(w.out) /\ w.prev = Len(w.out) /\ ~w2.done
        BY <1>1, <2>3 DEF PlaceInv
      <3> QED BY <2>3, <3>4, <3>5, <3>6 DEF PlaceInv, k2
    <2> QED BY <1>1, <2>1, <2>4, <2>5, <2>6 DEF SetWalk
  <1> QED BY <1>5, <1>6, <1>7

(* Every turn of the loop of _posix_lock_set keeps its invariant. *)
LEMMA PosixTurnKeeps ==
    ASSUME NEW s, GoodList(s), NEW n \in DOMAIN s, NEW l, NEW w, SetWalk(s, l, n, w)
    PROVE  SetWalk(s, l, n+1, PosixTurn(l, w, s[n]))
  <1> DEFINE cur == s[n]
             k == NewLock(l, w)
  <1>1. l \in AskedLocks /\ w \in Walks /\ PlaceInv(s, l, n, w)
    BY DEF SetWalk
  <1>2. cur \in HeldLocks
    BY GoodElement
  <1>3. cur.family = "POSIX" /\ cur.owner \in Int /\ l.owner \in Int
    BY <1>1, <1>2, HeldFields, LockFields
  <1>4. k.owner = l.owner
    BY <1>1, NewLockFields
  <1> HIDE DEF k
  <1>5. CASE w.done
    <2>1. PosixTurn(l, w, cur) = Keep(w, cur)
      BY <1>5 DEF PosixTurn
    <2>2. n <= n
      BY DEF GoodList
    <2>3. Precedes(k, cur)
      BY <2>2, <1>1, <1>5 DEF PlaceInv, PrecedesFrom, k
    <2> QED BY <2>1, <2>3, <1>5, WholeBehind DEF k
  <1>6. CASE ~w.done /\ cur.owner < l.owner
    <2>1. PosixTurn(l, w, cur) = KeepPrev(w, cur)
      BY <1>3, <1>6 DEF PosixTurn
    <2>2. Precedes(cur, k)
      BY <1>4, <1>6 DEF Precedes
    <2> QED BY <2>1, <2>2, <1>6, WholeBefore DEF k
  <1>7. CASE ~w.done /\ l.owner < cur.owner
    <2>1. PosixTurn(l, w, cur) = Break(w, cur)
      BY <1>3, <1>7 DEF PosixTurn
    <2>2. Precedes(k, cur)
      BY <1>4, <1>7 DEF Precedes
    <2> QED BY <2>1, <2>2, WholeBehind DEF k
  <1>8. CASE ~w.done /\ cur.owner = l.owner
    <2>0. ~(cur.owner < l.owner) /\ ~(l.owner < cur.owner)
      BY <1>3, <1>8
    <2>1. CASE cur.type = l.type
      <3>1. PosixTurn(l, w, cur) = SameType(w, cur)
        BY <1>3, <1>8, <2>0, <2>1 DEF PosixTurn
      <3> QED BY <3>1, <1>8, <2>1, SameTypeKeeps
    <2>2. CASE cur.type # l.type
      <3>1. PosixTurn(l, w, cur) = OtherType(w, cur)
        BY <1>3, <1>8, <2>0, <2>2 DEF PosixTurn
      <3> QED BY <3>1, <1>8, <2>2, OtherTypeKeeps
    <2> QED BY <2>1, <2>2
  <1> QED BY <1>3, <1>5, <1>6, <1>7, <1>8

(* So does every turn of the loop of file_lock_clear_pid. *)
LEMMA ClearTurnKeeps ==
    ASSUME NEW s, GoodList(s), NEW n \in DOMAIN s, NEW l \in AskedLocks,
           NEW w \in Walks, BuiltInv(s, l, n, w), w.start = 0, w.end = FS_LOCK_EOF
    PROVE  /\ ClearTurn(l, w, s[n]) \in Walks
           /\ BuiltInv(s, l, n+1, ClearTurn(l, w, s[n]))
           /\ ClearTurn(l, w, s[n]).start = 0 /\ ClearTurn(l, w, s[n]).end = FS_LOCK_EOF
  <1> DEFINE cur == s[n]
  <1>1. cur \in HeldLocks /\ cur.start <= cur.end
    BY GoodElement
  <1>2. cur.family = "POSIX" /\ cur.start \in Int /\ cur.end \in Int
    BY <1>1, HeldFields
  <1>3. \A x \in 0..FS_LOCK_EOF : 0 <= x /\ x <= FS_LOCK_EOF
    BY EofAssumption
  <1>4. CASE cur.owner = l.owner
    <2>1. ClearTurn(l, w, cur) = w
      BY <1>2, <1>4 DEF ClearTurn
    <2>2. \A p \in Pids, x \in 0..FS_LOCK_EOF, type \in LockTypes :
             Covers(cur, p, x, type) => InRange(l, w, p, x)
      BY <1>3, <1>4 DEF Covers, InRange
    <2> QED BY <2>1, <2>2, BuiltDrop
  <1>5. CASE cur.owner # l.owner
    <2> DEFINE w2 == Keep(w, cur)
    <2>1. ClearTurn(l, w, cur) = w2
      BY <1>5 DEF ClearTurn
    <2>2. /\ w2 \in Walks /\ w2.out = Append(w.out, cur)
          /\ w2.start = w.start /\ w2.end = w.end
      BY <1>1, KeepFields
    <2> HIDE DEF w2
    <2>3. PartOf(cur, s, n)
      BY <1>1, <1>2 DEF PartOf
    <2>4. Remains(cur, cur, l, w)
      BY <1>5 DEF Remains, Covers, InRange
    <2>5. BuiltInv(s, l, n+1, w2)
      BY <2>2, <2>3, <2>4, BuiltPart
    <2> QED BY <2>1, <2>2, <2>5
  <1> QED BY <1>4, <1>5

-----------------------------------------------------------------------------
(* The list when the loop has ended                                        *)

(* t holds what s holds, but l in the range of l. *)
Replaced(s, t, l) ==
    \A p \in Pids, x \in 0..FS_LOCK_EOF, type \in LockTypes :
       Holds(t, p, x, type) <=>
          IF p = l.owner /\ l.start <= x /\ x <= l.end THEN type = l.type /\ type # "UNLCK"
                                                      ELSE Holds(s, p, x, type)

(* A process holds a byte through one lock of the list. *)
LEMMA HoldsOnce ==
    ASSUME NEW s, GoodList(s), NEW p, NEW x \in Int, NEW i \in DOMAIN s, NEW j \in DOMAIN s,
           s[i].owner = p, s[i].start <= x, x <= s[i].end,
           s[j].owner = p, s[j].start <= x, x <= s[j].end
    PROVE  i = j
  <1>1. s[i] \in AskedLocks /\ s[j] \in AskedLocks
    BY GoodElement
  <1>2. /\ s[i].start \in Int /\ s[i].end \in Int /\ s[i].owner \in Int
        /\ s[j].start \in Int /\ s[j].end \in Int
    BY <1>1, LockFields
  <1>3. i \in Int /\ j \in Int
    BY DEF GoodList
  <1>4. ~(i < j)
    <2> SUFFICES ASSUME i < j PROVE FALSE
      OBVIOUS
    <2>1. Precedes(s[i], s[j])
      BY DEF GoodList, Sorted
    <2> QED BY <2>1, <1>2 DEF Precedes
  <1>5. ~(j < i)
    <2> SUFFICES ASSUME j < i PROVE FALSE
      OBVIOUS
    <2>1. Precedes(s[j], s[i])
      BY DEF GoodList, Sorted
    <2> QED BY <2>1, <1>2 DEF Precedes
  <1> QED BY <1>3, <1>4, <1>5

(* A byte is held for reading or for writing. *)
LEMMA HoldsTypes ==
    ASSUME NEW s, GoodList(s), NEW p, NEW x, NEW type, Holds(s, p, x, type)
    PROVE  type \in {"RDLCK", "WRLCK"}
  <1>1. PICK i \in DOMAIN s : Covers(s[i], p, x, type)
    BY DEF Holds
  <1>2. s[i] \in HeldLocks
    BY GoodElement
  <1> QED BY <1>1, <1>2, HeldFields DEF Covers

(* At the end of the list the loop has seen all that is held. *)
LEMMA HoldsBeforeEnd ==
    ASSUME NEW s, GoodList(s)
    PROVE  \A p, x, type : HoldsBefore(s, Len(s) + 1, p, x, type) <=> Holds(s, p, x, type)
  <1>1. \A i \in DOMAIN s : i < Len(s) + 1
    BY DEF GoodList
  <1> QED BY <1>1 DEF Holds, HoldsBefore

(* A range that is unlocked never grows. *)
LEMMA UnlockExact ==
    ASSUME NEW s, GoodList(s), NEW l \in AskedLocks, NEW w \in Walks,
           BuiltInv(s, l, Len(s) + 1, w), l.type = "UNLCK"
    PROVE  Replaced(s, w.out, l)
  <1> SUFFICES ASSUME NEW p \in Pids, NEW x \in 0..FS_LOCK_EOF, NEW type \in LockTypes
               PROVE  Holds(w.out, p, x, type) <=>
                        IF p = l.owner /\ l.start <= x /\ x <= l.end
                        THEN type = l.type /\ type # "UNLCK" ELSE Holds(s, p, x, type)
    BY DEF Replaced
  <1>1. /\ l.start \in Int /\ l.end \in Int /\ w.start \in Int /\ w.end \in Int
    BY LockFields, WalkFields
  <1>2. x \in Int
    BY EofAssumption
  <1>3. w.start <= x /\ x <= w.end <=> l.start <= x /\ x <= l.end
    <2>1. l.start <= x /\ x <= l.end => w.start <= x /\ x <= w.end
      BY <1>1, <1>2 DEF BuiltInv, Grown
    <2>2. ASSUME w.start <= x, x <= w.end PROVE l.start <= x /\ x <= l.end
      <3>1. x \in w.start..w.end
        BY <1>1, <1>2, <2>2
      <3>2. ~HoldsBefore(s, Len(s) + 1, l.owner, x, l.type)
        BY HoldsBeforeEnd, HoldsTypes
      <3> QED BY <3>1, <3>2 DEF BuiltInv, Grown
    <2> QED BY <2>1, <2>2
  <1>4. Holds(w.out, p, x, type) <=> Holds(s, p, x, type) /\ ~InRange(l, w, p, x)
    BY HoldsBeforeEnd DEF BuiltInv, BytesKept
  <1>5. InRange(l, w, p, x) <=> p = l.owner /\ l.start <= x /\ x <= l.end
    BY <1>3 DEF InRange
  <1> QED BY <1>4, <1>5

(* The list that a call leaves is well formed and is, byte by byte, the    *)
(* list before with the range replaced.                                    *)
LEMMA ResultExact ==
    ASSUME NEW s, GoodList(s), NEW l, NEW w, SetWalk(s, l, Len(s) + 1, w)
    PROVE  GoodList(WalkResult(l, w)) /\ Replaced(s, WalkResult(l, w), l)
  <1> DEFINE k == NewLock(l, w)
             t == WalkResult(l, w)
  <1>1. /\ l \in AskedLocks /\ l.start <= l.end /\ w \in Walks
        /\ BuiltInv(s, l, Len(s) + 1, w) /\ PlaceInv(s, l, Len(s) + 1, w)
    BY DEF SetWalk
  <1>2. GoodList(w.out)
    BY <1>1 DEF BuiltInv
  <1>3. CASE l.type = "UNLCK"
    <2>1. t = w.out
      BY <1>3 DEF WalkResult
    <2> QED BY <2>1, <1>1, <1>2, <1>3, UnlockExact
  <1>4. CASE l.type # "UNLCK"
    <2>1. t = InsertAt(w.out, w.prev + 1, k)
      BY <1>4 DEF WalkResult, NewLock
    <2>2. /\ k \in AskedLocks /\ k.owner = l.owner /\ k.type = l.type
          /\ k.start = w.start /\ k.end = w.end
      BY <1>1, NewLockFields
    <2>3. /\ l.start \in Int /\ l.end \in Int /\ w.start \in Int /\ w.end \in Int
          /\ w.prev \in Nat /\ l.type \in LockTypes
      BY <1>1, LockFields, WalkFields
    <2>4. w.start <= w.end /\ w.start <= l.start /\ l.end <= w.end
      BY <1>1, <2>3 DEF BuiltInv, Grown
    <2>5. k \in HeldLocks
      BY <2>2, <2>3, <1>4 DEF AskedLocks, HeldLocks, LockTypes
    <2>6. w.prev \in 0..Len(w.out)
      <3>1. Len(w.out) \in Nat /\ w.prev <= Len(w.out)
        BY <1>1, <1>2 DEF GoodList, PlaceInv
      <3> QED BY <3>1, <2>3
    <2>7. /\ \A i \in DOMAIN w.out : i <= w.prev => Precedes(w.out[i], k)
          /\ \A i \in DOMAIN w.out : w.prev < i => Precedes(k, w.out[i])
      BY <1>1 DEF PlaceInv
    <2> HIDE DEF k, t
    <2>8. k.start <= k.end
      BY <2>2, <2>4
    <2>9. /\ GoodList(t)
          /\ \A p, x, type : Holds(t, p, x, type)
                              <=> Holds(w.out, p, x, type) \/ Covers(k, p, x, type)
      BY <2>1, <2>5, <2>6, <2>7, <2>8, <1>2, InsertGood
    <2>10. ASSUME NEW p \in Pids, NEW x \in 0..FS_LOCK_EOF, NEW type \in LockTypes
           PROVE  Holds(t, p, x, type) <=>
                    IF p = l.owner /\ l.start <= x /\ x <= l.end
                    THEN type = l.type /\ type # "UNLCK" ELSE Holds(s, p, x, type)
      <3>1. x \in Int
        BY EofAssumption
      <3>2. Holds(w.out, p, x, type) <=> Holds(s, p, x, type) /\ ~InRange(l, w, p, x)
        BY <1>1, HoldsBeforeEnd DEF BuiltInv, BytesKept
      <3>3. Covers(k, p, x, type) <=> InRange(l, w, p, x) /\ type = l.type
        BY <2>2 DEF Covers, InRange
      <3>4. CASE ~InRange(l, w, p, x)
        <4>1. ~(p = l.owner /\ l.start <= x /\ x <= l.end)
          BY <3>1, <3>4, <2>3, <2>4 DEF InRange
        <4> QED BY <4>1, <3>2, <3>3, <3>4, <2>9
      <3>5. CASE InRange(l, w, p, x) /\ l.start <= x /\ x <= l.end
        <4>1. p = l.owner
          BY <3>5 DEF InRange
        <4> QED BY <4>1, <3>2, <3>3, <3>5, <2>9, <1>4
      <3>6. CASE InRange(l, w, p, x) /\ ~(l.start <= x /\ x <= l.end)
        <4>1. p = l.owner /\ w.start <= x /\ x <= w.end
          BY <3>6 DEF InRange
        <4>2. x \in w.start..w.end
          BY <4>1, <3>1, <2>3
        <4>3. Holds(s, p, x, l.type)
          BY <4>1, <4>2, <3>6, <1>1, HoldsBeforeEnd DEF BuiltInv, Grown
        <4>4. Holds(s, p, x, type) => type = l.type
          <5> SUFFICES ASSUME NEW i \in DOMAIN s, NEW j \in DOMAIN s,
                              Covers(s[i], p, x, type), Covers(s[j], p, x, l.type)
                       PROVE  type = l.type
            BY <4>3 DEF Holds
          <5>1. i = j
            BY <3>1, HoldsOnce DEF Covers
          <5> QED BY <5>1 DEF Covers
        <4> QED BY <4>3, <4>4, <3>2, <3>3, <3>6, <2>9
      <3> QED BY <3>4, <3>5, <3>6
    <2> QED BY <2>9, <2>10 DEF Replaced, t
  <1> QED BY <1>3, <1>4

-----------------------------------------------------------------------------
(* The invariant                                                           *)

(* The list before the first turn. *)
LEMMA WalkStarts ==
    ASSUME NEW s, GoodList(s), NEW l \in AskedLocks, l.start <= l.end
    PROVE  /\ SetWalk(s, l, 1, WalkFrom(l))
           /\ WalkFrom(l).start = l.start /\ WalkFrom(l).end = l.end
  <1> DEFINE w == WalkFrom(l)
  <1>1. <<>> \in Seq(HeldLocks) /\ DOMAIN <<>> = {} /\ Len(<<>>) = 0
    OBVIOUS
  <1>2. /\ w.out = <<>> /\ w.prev = 0 /\ w.start = l.start /\ w.end = l.end /\ ~w.done
    BY DEF WalkFrom
  <1>3. w \in Walks
    BY <1>1, LockFields DEF WalkFrom, Walks
  <1> HIDE DEF w
  <1>4. GoodList(w.out) /\ AllPrecedeFrom(w.out, s, 1)
    BY <1>1, <1>2 DEF GoodList, NonEmpty, Sorted, AllPrecedeFrom
  <1>5. \A i \in DOMAIN s : ~(i < 1)
    BY DEF GoodList
  <1>6. BytesKept(s, l, 1, w)
    BY <1>1, <1>2, <1>5 DEF BytesKept, Holds, HoldsBefore
  <1>7. Grown(s, l, 1, w)
    <2>1. l.start \in Int /\ l.end \in Int
      BY LockFields
    <2>2. w.start <= l.start /\ l.end <= w.end
      BY <2>1, <1>2
    <2>3. \A x \in w.start..w.end : l.start <= x /\ x <= l.end
      BY <2>1, <1>2
    <2> QED BY <2>2, <2>3 DEF Grown
  <1>8. PlaceInv(s, l, 1, w)
    <2>1. w.prev <= Len(w.out) /\ w.prev = Len(w.out) /\ ~w.done /\ DOMAIN w.out = {}
      BY <1>1, <1>2
    <2> QED BY <2>1 DEF PlaceInv
  <1> QED BY <1>2, <1>3, <1>4, <1>6, <1>7, <1>8 DEF SetWalk, BuiltInv, w

(* A lock that meets no conflict leaves the locks compatible. *)
LEMMA CompatibleKept ==
    ASSUME NEW s, GoodList(s), Compatible(s), NEW t, GoodList(t),
           NEW l \in AskedLocks, Replaced(s, t, l), l.type = "UNLCK" \/ ~HasConflict(s, l)
    PROVE  Compatible(t)
  <1> SUFFICES ASSUME NEW p \in Pids, NEW q \in Pids, NEW x \in 0..FS_LOCK_EOF,
                      NEW type \in LockTypes, p # q,
                      Holds(t, p, x, "WRLCK"), Holds(t, q, x, type)
               PROVE  FALSE
    BY DEF Compatible
  <1> DEFINE in == l.start <= x /\ x <= l.end
  <1>1. "WRLCK" \in LockTypes /\ x \in Int
    BY EofAssumption DEF LockTypes
  <1>2. ASSUME NEW r \in Pids, NEW ty \in LockTypes, Holds(s, r, x, ty), r # l.owner, in
        PROVE  l.type = "UNLCK" \/ (l.type # "WRLCK" /\ ty # "WRLCK")
    <2>1. PICK i \in DOMAIN s : Covers(s[i], r, x, ty)
      BY <1>2 DEF Holds
    <2>2. s[i] \in AskedLocks
      BY GoodElement
    <2>3. Overlap(l, s[i])
      <3>1. /\ l.start \in Int /\ l.end \in Int /\ s[i].start \in Int /\ s[i].end \in Int
        BY <2>2, LockFields
      <3>2. s[i].start <= x /\ x <= s[i].end
        BY <2>1 DEF Covers
      <3> QED BY <3>1, <3>2, <1>1, <1>2 DEF Overlap
    <2>4. l.type # "UNLCK" => ~Conflict(l, s[i])
      BY DEF HasConflict
    <2> QED BY <2>1, <2>3, <2>4, <1>2 DEF Conflict, Covers
  <1> HIDE DEF in
  <1>3. /\ IF p = l.owner /\ in THEN "WRLCK" = l.type ELSE Holds(s, p, x, "WRLCK")
        /\ IF q = l.owner /\ in THEN type = l.type /\ type # "UNLCK" ELSE Holds(s, q, x, type)
    BY <1>1 DEF Replaced, in
  <1>4. CASE p = l.owner /\ in
    BY <1>2, <1>3, <1>4
  <1>5. CASE q = l.owner /\ in
    <2>1. l.type # "UNLCK" /\ Holds(s, p, x, "WRLCK") /\ p # l.owner
      BY <1>3, <1>5
    <2> QED BY <2>1, <1>1, <1>2, <1>5
  <1>6. CASE ~(p = l.owner /\ in) /\ ~(q = l.owner /\ in)
    BY <1>3, <1>6 DEF Compatible
  <1> QED BY <1>4, <1>5, <1>6

(* The request of file_lock_clear_pid: all bytes of one process. *)
LEMMA AllOfFields ==
    ASSUME NEW p \in Pids
    PROVE  /\ AllOf(p) \in AskedLocks /\ AllOf(p).start <= AllOf(p).end
           /\ AllOf(p).type = "UNLCK" /\ AllOf(p).owner = p
           /\ AllOf(p).start = 0 /\ AllOf(p).end = FS_LOCK_EOF
  <1>1. 0 \in 0..FS_LOCK_EOF /\ FS_LOCK_EOF \in 0..FS_LOCK_EOF /\ 0 <= FS_LOCK_EOF
    BY EofAssumption
  <1> QED BY <1>1 DEF AllOf, FileLock, AskedLocks, LockTypes

(* The local variables between two calls. *)
LEMMA IdleWalk == WalkFrom(NoCall.lock) \in Walks
  <1>1. 0 \in 0..FS_LOCK_EOF /\ FS_LOCK_EOF \in 0..FS_LOCK_EOF
    BY EofAssumption
  <1>2. <<>> \in Seq(HeldLocks)
    OBVIOUS
  <1> QED BY <1>1, <1>2 DEF WalkFrom, NoCall, AllOf, FileLock, Walks

(* What End makes of the list. *)
LEMMA EndExact ==
    ASSUME WalkInv, WalkEnded
    PROVE  /\ GoodList(Result) /\ Replaced(locks, Result, call.lock)
           /\ call.lock \in AskedLocks
           /\ call.lock.type = "UNLCK" \/ ~HasConflict(locks, call.lock)
  <1>1. at = Len(locks) + 1
    <2>1. at \in Nat /\ Len(locks) \in Nat /\ at <= Len(locks) + 1 /\ at > Len(locks)
      BY DEF WalkInv, WalkEnded, GoodList
    <2> QED BY <2>1
  <1>2. GoodList(locks) /\ walk \in Walks
    BY DEF WalkInv
  <1>3. CASE SetCall
    BY <1>1, <1>2, <1>3, ResultExact DEF SetCall, SetWalk, Result
  <1>4. CASE ClearCall
    <2>1. PICK p \in Pids : call.lock = AllOf(p)
      BY <1>4 DEF ClearCall
    <2>2. call.lock \in AskedLocks /\ call.lock.type = "UNLCK"
      BY <2>1, AllOfFields
    <2>3. BuiltInv(locks, call.lock, Len(locks) + 1, walk)
      BY <1>1, <1>4 DEF ClearCall
    <2>4. Result = walk.out
      BY <2>2 DEF Result, WalkResult
    <2>5. GoodList(walk.out)
      BY <2>3 DEF BuiltInv
    <2> QED BY <1>2, <2>2, <2>3, <2>4, <2>5, UnlockExact
  <1> QED BY <1>3, <1>4 DEF WalkInv, WalkEnded

(* The loops keep their invariant, and the list is well formed between     *)
(* calls.                                                                  *)
LEMMA WalkInvStep == WalkInv /\ [LockWalkNext]_lockVars => WalkInv'
  <1> SUFFICES ASSUME WalkInv, [LockWalkNext]_lockVars PROVE WalkInv'
    OBVIOUS
  <1>1. /\ GoodList(locks) /\ Compatible(locks) /\ walk \in Walks
        /\ at \in Nat \ {0} /\ at <= Len(locks) + 1 /\ Len(locks) \in Nat
    BY DEF WalkInv, GoodList
  <1>2. CASE UNCHANGED lockVars
    BY <1>2 DEF WalkInv, SetCall, ClearCall, lockVars
  <1>3. ASSUME NEW kind, NEW l \in AskedLocks, l.start <= l.end, Begin(kind, l)
        PROVE  /\ GoodList(locks') /\ Compatible(locks') /\ walk' \in Walks
               /\ at' \in Nat \ {0} /\ at' <= Len(locks') + 1
               /\ call'.kind = kind /\ call'.lock = l /\ locks' = locks
               /\ SetWalk(locks', call'.lock, at', walk')
               /\ walk'.start = l.start /\ walk'.end = l.end
    <2>1. /\ locks' = locks /\ call' = [kind |-> kind, lock |-> l] /\ at' = 1
          /\ walk' = WalkFrom(l)
      BY <1>3 DEF Begin
    <2>2. call'.kind = kind /\ call'.lock = l
      BY <2>1
    <2>3. SetWalk(locks, l, 1, WalkFrom(l))
          /\ WalkFrom(l).start = l.start /\ WalkFrom(l).end = l.end
      BY <1>1, <1>3, WalkStarts
    <2>4. at' \in Nat \ {0} /\ at' <= Len(locks) + 1
      BY <2>1, <1>1
    <2>5. WalkFrom(l) \in Walks
      BY <2>3 DEF SetWalk
    <2> QED BY <1>1, <2>1, <2>2, <2>3, <2>4, <2>5
  <1>4. ASSUME NEW p \in Pids, SetLock(p) PROVE WalkInv'
    <2>1. PICK type \in LockTypes, start \in 0..FS_LOCK_EOF : \E end \in start..FS_LOCK_EOF :
             /\ type = "UNLCK" \/ ~HasConflict(locks, FileLock("POSIX", type, start, end, p))
             /\ Begin("set", FileLock("POSIX", type, start, end, p))
      BY <1>4 DEF SetLock
    <2>2. PICK end \in start..FS_LOCK_EOF :
             /\ type = "UNLCK" \/ ~HasConflict(locks, FileLock("POSIX", type, start, end, p))
             /\ Begin("set", FileLock("POSIX", type, start, end, p))
      BY <2>1
    <2> DEFINE l == FileLock("POSIX", type, start, end, p)
    <2>3. end \in 0..FS_LOCK_EOF /\ start <= end
      BY EofAssumption
    <2>4. l \in AskedLocks /\ l.start <= l.end /\ l.type = type
      BY <2>3 DEF FileLock, AskedLocks
    <2>5. Begin("set", l) /\ (type = "UNLCK" \/ ~HasConflict(locks, l))
      BY <2>2
    <2> HIDE DEF l
    <2>6. /\ GoodList(locks') /\ Compatible(locks') /\ walk' \in Walks
          /\ at' \in Nat \ {0} /\ at' <= Len(locks') + 1
          /\ call'.kind = "set" /\ call'.lock = l /\ locks' = locks
          /\ SetWalk(locks', call'.lock, at', walk')
      BY <1>3, <2>4, <2>5
    <2>7. SetCall'
      BY <2>4, <2>5, <2>6 DEF SetCall
    <2> QED BY <2>6, <2>7 DEF WalkInv
  <1>5. ASSUME NEW p \in Pids, ClearPid(p) PROVE WalkInv'
    <2>1. /\ AllOf(p) \in AskedLocks /\ AllOf(p).start <= AllOf(p).end
          /\ AllOf(p).start = 0 /\ AllOf(p).end = FS_LOCK_EOF
      BY AllOfFields
    <2>2. Begin("clear", AllOf(p))
      BY <1>5 DEF ClearPid
    <2>3. /\ GoodList(locks') /\ Compatible(locks') /\ walk' \in Walks
          /\ at' \in Nat \ {0} /\ at' <= Len(locks') + 1
          /\ call'.kind = "clear" /\ call'.lock = AllOf(p)
          /\ SetWalk(locks', call'.lock, at', walk')
          /\ walk'.start = 0 /\ walk'.end = FS_LOCK_EOF
      BY <1>3, <2>1, <2>2
    <2>4. ClearCall'
      BY <2>3 DEF ClearCall, SetWalk
    <2> QED BY <2>3, <2>4 DEF WalkInv
  <1>6. CASE Turn
    <2>1. /\ locks' = locks /\ call' = call /\ at' = at + 1 /\ call # NoCall
          /\ at <= Len(locks)
          /\ walk' = IF call.kind = "set" THEN PosixTurn(call.lock, walk, locks[at])
                                          ELSE ClearTurn(call.lock, walk, locks[at])
      BY <1>6 DEF Turn
    <2>2. at \in DOMAIN locks
      BY <1>1, <2>1 DEF GoodList
    <2>3. at' \in Nat \ {0} /\ at' <= Len(locks') + 1
      BY <1>1, <2>1
    <2>4. CASE SetCall
      <3>1. SetWalk(locks, call.lock, at + 1, PosixTurn(call.lock, walk, locks[at]))
        BY <1>1, <2>2, <2>4, PosixTurnKeeps DEF SetCall
      <3>2. walk' = PosixTurn(call.lock, walk, locks[at])
        BY <2>1, <2>4 DEF SetCall
      <3>3. SetWalk(locks', call'.lock, at', walk')
        BY <3>1, <3>2, <2>1
      <3>4. walk' \in Walks
        BY <3>3 DEF SetWalk
      <3>5. SetCall'
        BY <3>3, <2>1, <2>4 DEF SetCall
      <3> QED BY <1>1, <2>1, <2>3, <3>4, <3>5 DEF WalkInv
    <2>5. CASE ClearCall
      <3> DEFINE w2 == ClearTurn(call.lock, walk, locks[at])
      <3>1. PICK p \in Pids : call.lock = AllOf(p)
        BY <2>5 DEF ClearCall
      <3>2. call.lock \in AskedLocks
        BY <3>1, AllOfFields
      <3>3. /\ w2 \in Walks /\ BuiltInv(locks, call.lock, at + 1, w2)
            /\ w2.start = 0 /\ w2.end = FS_LOCK_EOF
        BY <1>1, <2>2, <2>5, <3>2, ClearTurnKeeps DEF ClearCall
      <3>4. walk' = w2
        BY <2>1, <2>5 DEF ClearCall
      <3> HIDE DEF w2
      <3>5. ClearCall'
        BY <3>1, <3>3, <3>4, <2>1, <2>5 DEF ClearCall
      <3>6. walk' \in Walks
        BY <3>3, <3>4
      <3> QED BY <1>1, <2>1, <2>3, <3>5, <3>6 DEF WalkInv
    <2> QED BY <2>1, <2>4, <2>5 DEF WalkInv
  <1>7. CASE End
    <2>1. /\ WalkEnded /\ locks' = Result /\ call' = NoCall /\ at' = 1
          /\ walk' = WalkFrom(NoCall.lock)
      BY <1>7 DEF End
    <2>2. /\ GoodList(Result) /\ Replaced(locks, Result, call.lock)
          /\ call.lock \in AskedLocks
          /\ call.lock.type = "UNLCK" \/ ~HasConflict(locks, call.lock)
      BY <2>1, EndExact
    <2>3. Compatible(Result)
      BY <1>1, <2>2, CompatibleKept
    <2>4. at' \in Nat \ {0} /\ at' <= Len(locks') + 1
      <3>1. Len(locks') \in Nat
        BY <2>1, <2>2 DEF GoodList
      <3> QED BY <3>1, <2>1
    <2>5. walk' \in Walks
      BY <2>1, IdleWalk
    <2> QED BY <2>1, <2>2, <2>3, <2>4, <2>5 DEF WalkInv
  <1> QED BY <1>2, <1>4, <1>5, <1>6, <1>7 DEF LockWalkNext

(* The empty list has the invariant. *)
LEMMA WalkInvInit == LockWalkInit => WalkInv
  <1> SUFFICES ASSUME LockWalkInit PROVE WalkInv
    OBVIOUS
  <1>1. locks = <<>> /\ call = NoCall /\ at = 1 /\ walk = WalkFrom(NoCall.lock)
    BY DEF LockWalkInit
  <1>2. <<>> \in Seq(HeldLocks) /\ DOMAIN <<>> = {} /\ Len(<<>>) = 0
    OBVIOUS
  <1>3. GoodList(locks) /\ Compatible(locks)
    BY <1>1, <1>2 DEF GoodList, NonEmpty, Sorted, Compatible, Holds
  <1>4. at \in Nat \ {0} /\ at <= Len(locks) + 1
    BY <1>1, <1>2
  <1> QED BY <1>1, <1>3, <1>4, IdleWalk DEF WalkInv

(* The lock list of a file is, after any calls of file_lock_set and        *)
(* file_lock_clear_pid, sorted by process and start, its ranges are        *)
(* disjoint and not empty, and no two adjacent locks could be one.         *)
THEOREM ListWellFormedHolds == LockWalkSpec => []ListWellFormed
  <1>1. WalkInv => ListWellFormed
    <2> SUFFICES ASSUME WalkInv PROVE ListWellFormed
      OBVIOUS
    <2>1. GoodList(locks)
      BY DEF WalkInv
    <2>2. ASSUME NEW i \in DOMAIN locks, NEW j \in DOMAIN locks, i < j
          PROVE  Precedes(locks[i], locks[j])
      BY <2>1, <2>2 DEF GoodList, Sorted
    <2>3. ASSUME NEW i \in DOMAIN locks
          PROVE  /\ locks[i].start \in Int /\ locks[i].end \in Int /\ locks[i].owner \in Int
                 /\ locks[i].start <= locks[i].end /\ i \in Int
                 /\ locks[i].start \in 0..FS_LOCK_EOF /\ locks[i].end \in 0..FS_LOCK_EOF
      <3>1. locks[i] \in HeldLocks /\ locks[i].start <= locks[i].end
        BY <2>1, GoodElement
      <3>2. i \in Int
        BY <2>1 DEF GoodList
      <3> QED BY <3>1, <3>2, HeldFields
    <2>4. Ordered(locks)
      BY <2>2 DEF Ordered, Precedes
    <2>5. Merged(locks)
      <3> SUFFICES ASSUME NEW i \in DOMAIN locks, NEW j \in DOMAIN locks,
                          locks[i].owner = locks[j].owner, locks[i].type = locks[j].type,
                          locks[i].end + 1 = locks[j].start
                   PROVE  FALSE
        BY DEF Merged
      <3>1. CASE i < j
        <4>1. Precedes(locks[i], locks[j])
          BY <3>1, <2>2
        <4> QED BY <4>1, <2>3 DEF Precedes
      <3>2. CASE j < i
        <4>1. Precedes(locks[j], locks[i])
          BY <3>2, <2>2
        <4> QED BY <4>1, <2>3 DEF Precedes
      <3>3. CASE i = j
        BY <3>3, <2>3
      <3> QED BY <3>1, <3>2, <3>3, <2>3
    <2>6. \A i \in DOMAIN locks : 0 <= locks[i].start /\ locks[i].start <= locks[i].end
                                  /\ locks[i].end <= FS_LOCK_EOF
      BY <2>3, EofAssumption
    <2> QED BY <2>4, <2>5, <2>6 DEF ListWellFormed
  <1> QED BY <1>1, WalkInvInit, WalkInvStep, PTL DEF LockWalkSpec

(* No two locks in the list of a file conflict. *)
NoTwoConflict == \A i, j \in DOMAIN locks : ~Conflict(locks[i], locks[j])

(* Looking for a conflict once, before the list is changed, is enough: no  *)
(* two processes ever hold locks in the list that file_lock_find_conflict  *)
(* would have found in each other's way.                                   *)
THEOREM NoTwoConflictHolds == LockWalkSpec => []NoTwoConflict
  <1>1. WalkInv => NoTwoConflict
    <2> SUFFICES ASSUME WalkInv, NEW i \in DOMAIN locks, NEW j \in DOMAIN locks,
                        Conflict(locks[i], locks[j])
                 PROVE  FALSE
      BY DEF NoTwoConflict
    <2> DEFINE l == locks[i]
               m == locks[j]
               x == IF l.start <= m.start THEN m.start ELSE l.start
    <2>1. GoodList(locks) /\ Compatible(locks)
      BY DEF WalkInv
    <2>2. l \in HeldLocks /\ m \in HeldLocks /\ l.start <= l.end /\ m.start <= m.end
      BY <2>1, GoodElement
    <2>3. /\ l.start \in Int /\ l.end \in Int /\ m.start \in Int /\ m.end \in Int
          /\ l.start \in 0..FS_LOCK_EOF /\ m.start \in 0..FS_LOCK_EOF
          /\ l.owner \in Pids /\ m.owner \in Pids /\ l.family = "POSIX"
          /\ l.type \in {"RDLCK", "WRLCK"} /\ m.type \in {"RDLCK", "WRLCK"}
      BY <2>2, HeldFields
    <2>4. /\ l.owner # m.owner /\ l.start <= m.end /\ m.start <= l.end
          /\ l.type = "WRLCK" \/ m.type = "WRLCK"
      BY <2>3 DEF Conflict, Overlap
    <2> HIDE DEF l, m
    <2>5. /\ x \in 0..FS_LOCK_EOF
          /\ l.start <= x /\ x <= l.end /\ m.start <= x /\ x <= m.end
      BY <2>2, <2>3, <2>4
    <2> HIDE DEF x
    <2>6. Holds(locks, l.owner, x, l.type) /\ Holds(locks, m.owner, x, m.type)
      BY <2>5 DEF Holds, Covers, l, m
    <2>7. l.type \in LockTypes /\ m.type \in LockTypes
      BY <2>3 DEF LockTypes
    <2> QED BY <2>1, <2>3, <2>4, <2>5, <2>6, <2>7 DEF Compatible
  <1> QED BY <1>1, WalkInvInit, WalkInvStep, PTL DEF LockWalkSpec

-----------------------------------------------------------------------------
(* The byte-wise promise                                                   *)

(* HeldIn is the type with which a process holds a byte. *)
LEMMA HeldInTypes ==
    ASSUME NEW s, GoodList(s), NEW p \in Pids, NEW x \in 0..FS_LOCK_EOF
    PROVE  /\ HeldIn(s, p, x) \in LockTypes
           /\ \A type \in LockTypes : type # "UNLCK" =>
                 (Holds(s, p, x, type) <=> HeldIn(s, p, x) = type)
  <1> DEFINE mine == {i \in DOMAIN s : s[i].owner = p /\ s[i].start <= x /\ x <= s[i].end}
  <1>1. x \in Int
    BY EofAssumption
  <1>2. CASE mine = {}
    <2>1. HeldIn(s, p, x) = "UNLCK"
      BY <1>2 DEF HeldIn
    <2>2. \A type : ~Holds(s, p, x, type)
      BY <1>2 DEF Holds, Covers
    <2> QED BY <2>1, <2>2 DEF LockTypes
  <1>3. CASE mine # {}
    <2> DEFINE i == CHOOSE j \in mine : TRUE
    <2>1. i \in mine
      BY <1>3
    <2>2. HeldIn(s, p, x) = s[i].type
      BY <1>3 DEF HeldIn
    <2> HIDE DEF i
    <2>3. i \in DOMAIN s /\ s[i].owner = p /\ s[i].start <= x /\ x <= s[i].end
      BY <2>1
    <2>4. s[i].type \in {"RDLCK", "WRLCK"}
      BY <2>3, GoodElement, HeldFields
    <2>5. ASSUME NEW type, Holds(s, p, x, type) PROVE s[i].type = type
      <3>1. PICK j \in DOMAIN s : Covers(s[j], p, x, type)
        BY <2>5 DEF Holds
      <3>2. i = j
        BY <3>1, <2>3, <1>1, HoldsOnce DEF Covers
      <3> QED BY <3>1, <3>2 DEF Covers
    <2>6. Holds(s, p, x, s[i].type)
      BY <2>3 DEF Holds, Covers
    <2> QED BY <2>2, <2>4, <2>5, <2>6 DEF LockTypes
  <1> QED BY <1>2, <1>3

(* The replacement of the range, in terms of HeldIn. *)
LEMMA HeldReplaced ==
    ASSUME NEW s, GoodList(s), NEW t, GoodList(t), NEW l \in AskedLocks, Replaced(s, t, l),
           NEW p \in Pids, NEW x \in 0..FS_LOCK_EOF
    PROVE  HeldIn(t, p, x) = IF p = l.owner /\ l.start <= x /\ x <= l.end
                             THEN l.type ELSE HeldIn(s, p, x)
  <1> DEFINE in == p = l.owner /\ l.start <= x /\ x <= l.end
  <1>1. /\ HeldIn(t, p, x) \in LockTypes
        /\ \A type \in LockTypes : type # "UNLCK" =>
              (Holds(t, p, x, type) <=> HeldIn(t, p, x) = type)
    BY HeldInTypes
  <1>2. /\ HeldIn(s, p, x) \in LockTypes
        /\ \A type \in LockTypes : type # "UNLCK" =>
              (Holds(s, p, x, type) <=> HeldIn(s, p, x) = type)
    BY HeldInTypes
  <1>3. \A type \in LockTypes : Holds(t, p, x, type) <=>
           IF in THEN type = l.type /\ type # "UNLCK" ELSE Holds(s, p, x, type)
    BY DEF Replaced
  <1>4. l.type \in LockTypes
    BY LockFields
  <1> HIDE DEF in
  <1>5. CASE in
    <2>1. \A type \in LockTypes : type # "UNLCK" => (HeldIn(t, p, x) = type <=> type = l.type)
      BY <1>1, <1>3, <1>5
    <2>2. HeldIn(t, p, x) = l.type
      BY <2>1, <1>1, <1>4
    <2> QED BY <2>2, <1>5 DEF in
  <1>6. CASE ~in
    <2>1. \A type \in LockTypes : type # "UNLCK" =>
             (HeldIn(t, p, x) = type <=> HeldIn(s, p, x) = type)
      BY <1>1, <1>2, <1>3, <1>6
    <2>2. HeldIn(t, p, x) = HeldIn(s, p, x)
      BY <2>1, <1>1, <1>2
    <2> QED BY <2>2, <1>6 DEF in
  <1> QED BY <1>5, <1>6

(* held of ByteLocks, for a list. *)
HeldBy(s) == [p \in Pids |-> [x \in 0..FS_LOCK_EOF |-> HeldIn(s, p, x)]]

(* When a range is replaced in the list, the owner's bytes in the abstract *)
(* map change and nothing else.                                            *)
LEMMA HeldByReplaced ==
    ASSUME NEW s, GoodList(s), NEW t, GoodList(t), NEW l \in AskedLocks, Replaced(s, t, l)
    PROVE  HeldBy(t) = [HeldBy(s) EXCEPT ![l.owner] =
              [x \in 0..FS_LOCK_EOF |-> IF x \in l.start..l.end THEN l.type ELSE @[x]]]
  <1> DEFINE h == [HeldBy(s) EXCEPT ![l.owner] =
              [x \in 0..FS_LOCK_EOF |-> IF x \in l.start..l.end THEN l.type ELSE @[x]]]
             f(p) == [x \in 0..FS_LOCK_EOF |->
                        IF p = l.owner /\ l.start <= x /\ x <= l.end
                        THEN l.type ELSE HeldIn(s, p, x)]
  <1>1. l.owner \in Pids /\ l.start \in Int /\ l.end \in Int
    BY LockFields
  <1>2. \A x \in 0..FS_LOCK_EOF : x \in l.start..l.end <=> l.start <= x /\ x <= l.end
    BY <1>1, EofAssumption
  <1>3. ASSUME NEW p \in Pids PROVE HeldBy(t)[p] = f(p)
    <2>1. HeldBy(t)[p] = [x \in 0..FS_LOCK_EOF |-> HeldIn(t, p, x)]
      BY DEF HeldBy
    <2>2. \A x \in 0..FS_LOCK_EOF : HeldIn(t, p, x) =
             IF p = l.owner /\ l.start <= x /\ x <= l.end THEN l.type ELSE HeldIn(s, p, x)
      BY HeldReplaced
    <2> QED BY <2>1, <2>2
  <1>4. ASSUME NEW p \in Pids PROVE h[p] = f(p)
    <2>1. HeldBy(s)[p] = [x \in 0..FS_LOCK_EOF |-> HeldIn(s, p, x)]
      BY DEF HeldBy
    <2>2. CASE p = l.owner
      <3>1. h[p] = [x \in 0..FS_LOCK_EOF |->
                      IF x \in l.start..l.end THEN l.type ELSE HeldBy(s)[p][x]]
        BY <2>2 DEF HeldBy
      <3>2. \A x \in 0..FS_LOCK_EOF : HeldBy(s)[p][x] = HeldIn(s, p, x)
        BY <2>1
      <3> QED BY <3>1, <3>2, <2>2, <1>2
    <2>3. CASE p # l.owner
      <3>1. h[p] = HeldBy(s)[p]
        BY <2>3 DEF HeldBy
      <3>2. f(p) = [x \in 0..FS_LOCK_EOF |-> HeldIn(s, p, x)]
        BY <2>3
      <3> QED BY <3>1, <3>2, <2>1
    <2> QED BY <2>2, <2>3
  <1>5. DOMAIN HeldBy(t) = Pids /\ DOMAIN h = Pids
    BY DEF HeldBy
  <1>6. HeldBy(t) = [p \in Pids |-> HeldBy(t)[p]] /\ h = [p \in Pids |-> h[p]]
    BY DEF HeldBy
  <1>7. ASSUME NEW p \in Pids PROVE HeldBy(t)[p] = h[p]
    BY <1>3, <1>4
  <1> HIDE DEF h
  <1>8. HeldBy(t) = h
    BY <1>6, <1>7
  <1> QED BY <1>8 DEF h

(* Every change of the lock list replaces the range byte by byte: the      *)
(* merging, cutting and splitting of _posix_lock_set keep the promise of   *)
(* file_lock_set, for any list it can meet.                                *)
THEOREM ListKeepsPromiseHolds == LockWalkSpec => ListKeepsPromise
  <1>1. LockWalkInit => Promise!Init
    BY DEF LockWalkInit, Promise!Init, Promise!Bytes, HeldIn
  <1>2. WalkInv /\ [LockWalkNext]_lockVars
        => [Promise!Next]_([p \in Pids |-> [x \in 0..FS_LOCK_EOF |-> HeldIn(locks, p, x)]])
    <2> SUFFICES ASSUME WalkInv, [LockWalkNext]_lockVars
                 PROVE  Promise!Next \/ HeldBy(locks)' = HeldBy(locks)
      BY DEF HeldBy
    <2>1. CASE ~End
      <3>1. locks' = locks
        BY <2>1 DEF LockWalkNext, lockVars, SetLock, ClearPid, Begin, Turn
      <3> QED BY <3>1 DEF HeldBy
    <2>2. CASE End
      <3> DEFINE l == call.lock
      <3>1. WalkEnded /\ locks' = Result /\ GoodList(locks)
        BY <2>2 DEF End, WalkInv
      <3>2. /\ GoodList(Result) /\ Replaced(locks, Result, l) /\ l \in AskedLocks
            /\ l.type = "UNLCK" \/ ~HasConflict(locks, l)
        BY <3>1, EndExact
      <3>3. HeldBy(locks)' = [HeldBy(locks) EXCEPT ![l.owner] =
              [x \in 0..FS_LOCK_EOF |-> IF x \in l.start..l.end THEN l.type ELSE @[x]]]
        <4>1. HeldBy(locks)' = HeldBy(Result)
          BY <3>1 DEF HeldBy
        <4> QED BY <4>1, <3>1, <3>2, HeldByReplaced
      <3>4. /\ l.owner \in Pids /\ l.type \in LockTypes /\ l.start \in Int /\ l.end \in Int
            /\ l.start \in 0..FS_LOCK_EOF /\ l.end \in 0..FS_LOCK_EOF
        BY <3>2, LockFields
      <3>5. l.start <= l.end
        <4>1. CASE SetCall
          BY <4>1 DEF SetCall, SetWalk
        <4>2. CASE ClearCall
          BY <4>2, AllOfFields DEF ClearCall
        <4> QED BY <3>1, <4>1, <4>2 DEF WalkInv, WalkEnded
      <3>6. ASSUME NEW q \in Pids \ {l.owner}, NEW x \in l.start..l.end
            PROVE  \/ l.type = "UNLCK" \/ HeldIn(locks, q, x) = "UNLCK"
                   \/ l.type = "RDLCK" /\ HeldIn(locks, q, x) = "RDLCK"
        <4> SUFFICES ASSUME l.type # "UNLCK", HeldIn(locks, q, x) # "UNLCK"
                     PROVE  l.type = "RDLCK" /\ HeldIn(locks, q, x) = "RDLCK"
          OBVIOUS
        <4> DEFINE type == HeldIn(locks, q, x)
        <4>1. x \in 0..FS_LOCK_EOF /\ x \in Int /\ l.start <= x /\ x <= l.end
          BY <3>4, EofAssumption
        <4>2. type \in LockTypes /\ Holds(locks, q, x, type)
          BY <4>1, <3>1, HeldInTypes
        <4> HIDE DEF type
        <4>3. PICK i \in DOMAIN locks : Covers(locks[i], q, x, type)
          BY <4>2 DEF Holds
        <4>4. locks[i].start \in Int /\ locks[i].end \in Int
          BY <3>1, GoodElement, LockFields
        <4>5. Overlap(l, locks[i])
          BY <4>1, <4>3, <4>4, <3>4 DEF Overlap, Covers
        <4>6. ~Conflict(l, locks[i])
          BY <3>2 DEF HasConflict
        <4>7. l.type # "WRLCK" /\ type # "WRLCK"
          BY <4>3, <4>5, <4>6 DEF Conflict, Covers
        <4> QED BY <4>2, <4>7, <3>4 DEF LockTypes, type
      <3>7. Promise!Allowed(l.owner, l.type, l.start, l.end)
        <4>1. \A q \in Pids \ {l.owner} : \A x \in l.start..l.end :
                 /\ x \in 0..FS_LOCK_EOF
                 /\ [p \in Pids |-> [y \in 0..FS_LOCK_EOF |-> HeldIn(locks, p, y)]][q][x]
                      = HeldIn(locks, q, x)
          BY <3>4, EofAssumption
        <4> QED BY <4>1, <3>6 DEF Promise!Allowed
      <3>8. Promise!SetRange(l.owner, l.type, l.start, l.end)
        BY <3>3, <3>7 DEF Promise!SetRange, Promise!Bytes, HeldBy
      <3>9. Promise!Next
        <4>1. l.end \in l.start..FS_LOCK_EOF /\ l.start \in Promise!Bytes
          BY <3>4, <3>5, EofAssumption DEF Promise!Bytes
        <4> QED BY <4>1, <3>4, <3>8 DEF Promise!Next, LockTypes
      <3> QED BY <3>9
    <2> QED BY <2>1, <2>2
  <1> QED BY <1>1, <1>2, WalkInvInit, WalkInvStep, PTL DEF LockWalkSpec, ListKeepsPromise, Promise!Spec

-----------------------------------------------------------------------------
(* The range of an fcntl lock                                              *)

RangeInv == FcntlArguments /\ (lock = NoAnswer \/ lock = FlockToFileLock(origin, l_start, l_len))

(* The answers of flock_to_file_lock are exact, and F_GETLK reports them   *)
(* such that asking again gives the same answer, whatever the width of the *)
(* integers.                                                               *)
THEOREM RangesExactHolds == RangeSpec => []RangesExact
  <1>1. FcntlArguments /\ lock = NoAnswer => RangeInv
    BY DEF RangeInv
  <1>2. RangeInv /\ [Convert]_rangeVars => RangeInv'
    BY DEF RangeInv, Convert, rangeVars, FcntlArguments, Offsets, NoAnswer
  <1>3. RangeInv => RangesExact
    <2> SUFFICES ASSUME RangeInv PROVE RangesExact
      OBVIOUS
    <2> USE SignBitAssumption
    <2>1. /\ origin \in 0..(SignBit - 1)
          /\ l_start \in (-SignBit)..(SignBit - 1)
          /\ l_len \in (-SignBit)..(SignBit - 1)
      BY DEF RangeInv, FcntlArguments, Offsets
    <2>2. CASE lock = NoAnswer
      BY <2>2 DEF RangesExact, ConversionExact, RoundTrip, NoAnswer
    <2>3. CASE lock # NoAnswer
      <3>1. lock = FlockToFileLock(origin, l_start, l_len)
        BY <2>3 DEF RangeInv
      <3>2. ConversionExact
        BY <3>1, <2>1 DEF ConversionExact, FlockToFileLock, RangeOf, Overflows, Positions,
              MaxPosition, ByteRange, Fail, FirstByte, LastByte
      <3>3. RoundTrip
        BY <3>1, <2>1 DEF RoundTrip, FlockToFileLock, RangeOf, Overflows, Positions,
              MaxPosition, ByteRange, Fail, GetLk, Signed, Offsets
      <3> QED BY <3>2, <3>3 DEF RangesExact
    <2> QED BY <2>2, <2>3
  <1> QED BY <1>1, <1>2, <1>3, PTL DEF RangeSpec
=============================================================================
