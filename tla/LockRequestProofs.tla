------------------------- MODULE LockRequestProofs --------------------------
(***************************************************************************)
(* Proofs about FileLocks: file locks across processes, for any number of  *)
(* processes, threads, locks and pending requests, any FS_LOCK_EOF, and    *)
(* whatever fails, exits or is killed.                                     *)
(*                                                                         *)
(* Three loops run inside of one step: over the locks (_posix_lock_set),   *)
(* over the requests (a pass of file_lock_process_requests) and over the   *)
(* passes.  What a loop does for a list of any length is shown by          *)
(* induction on the turns; NatSetInduction states the induction for a set  *)
(* of numbers, which it gets from the least member of its complement.  The *)
(* turns of the first loop are those of FileLockProofs.                    *)
(*                                                                         *)
(* LockInv: the list is well formed, of one family, free of conflicts, and *)
(* every request is blocked; and a thread only asks for locks of its own.  *)
(* After the last pass every request is blocked because a pass that grants *)
(* something shortens the list, and one that grants nothing changes        *)
(* nothing.  WaitInv adds who waits: a thread waits exactly while there is *)
(* a request of its in the list, and never for two.  After undefined       *)
(* behaviour in the leader it claims nothing.  ExitInv adds what a process *)
(* has left in the leader while it exits, and while its flag               *)
(* maybe_has_file_locks is not set: no step of another process brings any  *)
(* of that back.                                                           *)
(***************************************************************************)
EXTENDS FileLockProofs, FileLocks, WellFoundedInduction

-----------------------------------------------------------------------------
(* Induction, and the loops over lists                                     *)

(* A set of natural numbers that is not empty has a least member. *)
LEMMA LeastMember ==
    ASSUME NEW T, T \subseteq Nat, T # {}
    PROVE  \E x \in T : \A y \in T : ~(y < x)
  <1> DEFINE R == OpToRel(<, Nat)
  <1>1. IsWellFoundedOn(R, Nat)
    BY NatLessThanWellFounded
  <1>2. \E x \in T : \A y \in T : ~(<<y, x>> \in R)
    <2> HIDE DEF R
    <2> QED BY <1>1, WFMin
  <1>3. \A x, y \in T : y < x => <<y, x>> \in R
    BY DEF OpToRel
  <1> QED BY <1>2, <1>3

(* Induction, for a property given by the set of the numbers that have it. *)
LEMMA NatSetInduction ==
    ASSUME NEW T, 0 \in T, \A n \in Nat : n \in T => n+1 \in T
    PROVE  \A n \in Nat : n \in T
  <1> DEFINE B == {n \in Nat : n \notin T}
  <1> SUFFICES ASSUME B # {} PROVE FALSE
    OBVIOUS
  <1>1. B \subseteq Nat
    OBVIOUS
  <1>2. PICK x \in B : \A y \in B : ~(y < x)
    <2> HIDE DEF B
    <2> QED BY <1>1, LeastMember
  <1>3. x # 0 /\ x \in Nat
    OBVIOUS
  <1>4. x - 1 \in Nat /\ x - 1 < x
    BY <1>3
  <1>5. x - 1 \in T
    BY <1>2, <1>4
  <1> QED BY <1>3, <1>4, <1>5

(* The loop of _posix_lock_set, turn by turn. *)
LEMMA PosixWalkTurns ==
    ASSUME NEW s, NEW l, Len(s) \in Nat
    PROVE  /\ PosixWalk(s, l)[0] = WalkFrom(l)
           /\ \A n \in 1..Len(s) : PosixWalk(s, l)[n] = PosixTurn(l, PosixWalk(s, l)[n-1], s[n])
  <1> DEFINE F(m, f) == [n \in 0..m |-> IF n = 0 THEN WalkFrom(l) ELSE PosixTurn(l, f[n-1], s[n])]
             T == {m \in Nat : \E f : f = F(m, f)}
  <1>1. 0 \in T
    <2> DEFINE f == [n \in 0..0 |-> WalkFrom(l)]
    <2>1. f = F(0, f)
      OBVIOUS
    <2> QED BY <2>1
  <1>2. ASSUME NEW m \in Nat, m \in T PROVE m+1 \in T
    <2>1. PICK f : f = F(m, f)
      BY <1>2
    <2> DEFINE g == [n \in 0..(m+1) |-> IF n = m+1 THEN PosixTurn(l, f[m], s[m+1]) ELSE f[n]]
    <2>2. ASSUME NEW n \in 0..(m+1) PROVE g[n] = F(m+1, g)[n]
      <3>1. CASE n = m+1
        <4>1. m \in 0..(m+1) /\ m # m+1 /\ m+1 # 0 /\ (m+1)-1 = m
          OBVIOUS
        <4>2. g[m] = f[m]
          BY <4>1
        <4> QED BY <3>1, <4>1, <4>2
      <3>2. CASE n = 0
        <4>1. f[0] = WalkFrom(l) /\ 0 # m+1
          BY <2>1
        <4> QED BY <3>2, <4>1
      <3>3. CASE n # m+1 /\ n # 0
        <4>1. n \in 0..m /\ n-1 \in 0..(m+1) /\ n-1 # m+1
          BY <3>3
        <4>2. g[n] = f[n] /\ g[n-1] = f[n-1]
          BY <4>1, <3>3
        <4>3. f[n] = PosixTurn(l, f[n-1], s[n])
          BY <2>1, <4>1, <3>3
        <4> QED BY <4>2, <4>3, <3>3
      <3> QED BY <3>1, <3>2, <3>3
    <2>3. g = F(m+1, g)
      BY <2>2
    <2> HIDE DEF g
    <2> QED BY <2>3
  <1>3. \A m \in Nat : m \in T
    <2> HIDE DEF T
    <2> QED BY <1>1, <1>2, NatSetInduction
  <1>4. \E f : f = F(Len(s), f)
    BY <1>3
  <1>5. PosixWalk(s, l) = CHOOSE f : f = F(Len(s), f)
    BY Zenon DEF PosixWalk
  <1>6. PosixWalk(s, l) = F(Len(s), PosixWalk(s, l))
    <2> HIDE DEF F
    <2> QED BY <1>4, <1>5, Zenon
  <1> HIDE DEF T
  <1>7. ASSUME NEW f, f = F(Len(s), f)
        PROVE  f[0] = WalkFrom(l) /\ \A n \in 1..Len(s) : f[n] = PosixTurn(l, f[n-1], s[n])
    <2>1. f[0] = F(Len(s), f)[0] /\ \A n \in 1..Len(s) : f[n] = F(Len(s), f)[n]
      <3> HIDE DEF F
      <3> QED BY <1>7
    <2>2. 0 \in 0..Len(s) /\ \A n \in 1..Len(s) : n \in 0..Len(s) /\ n # 0
      OBVIOUS
    <2>3. F(Len(s), f)[0] = WalkFrom(l)
      BY <2>2
    <2>4. \A n \in 1..Len(s) : F(Len(s), f)[n] = PosixTurn(l, f[n-1], s[n])
      BY <2>2
    <2> HIDE DEF F
    <2> QED BY <2>1, <2>3, <2>4
  <1> QED BY <1>6, <1>7

(* A loop that deletes from a list, turn by turn. *)
LEMMA KeptTurns ==
    ASSUME NEW s, NEW D, Len(s) \in Nat
    PROVE  /\ Kept(s, D)[0] = <<>>
           /\ \A n \in 1..Len(s) : Kept(s, D)[n] = (IF n \in D THEN Kept(s, D)[n-1] ELSE Append(Kept(s, D)[n-1], s[n]))
  <1> DEFINE F(m, f) == [n \in 0..m |-> IF n = 0 THEN <<>> ELSE (IF n \in D THEN f[n-1] ELSE Append(f[n-1], s[n]))]
             T == {m \in Nat : \E f : f = F(m, f)}
  <1>1. 0 \in T
    <2> DEFINE f == [n \in 0..0 |-> <<>>]
    <2>1. f = F(0, f)
      OBVIOUS
    <2> QED BY <2>1
  <1>2. ASSUME NEW m \in Nat, m \in T PROVE m+1 \in T
    <2>1. PICK f : f = F(m, f)
      BY <1>2
    <2> DEFINE g == [n \in 0..(m+1) |-> IF n = m+1 THEN (IF m+1 \in D THEN f[m] ELSE Append(f[m], s[m+1])) ELSE f[n]]
    <2>2. ASSUME NEW n \in 0..(m+1) PROVE g[n] = F(m+1, g)[n]
      <3>1. CASE n = m+1
        <4>1. m \in 0..(m+1) /\ m # m+1 /\ m+1 # 0 /\ (m+1)-1 = m
          OBVIOUS
        <4>2. g[m] = f[m]
          BY <4>1
        <4> QED BY <3>1, <4>1, <4>2
      <3>2. CASE n = 0
        <4>1. f[0] = <<>> /\ 0 # m+1
          BY <2>1
        <4> QED BY <3>2, <4>1
      <3>3. CASE n # m+1 /\ n # 0
        <4>1. n \in 0..m /\ n-1 \in 0..(m+1) /\ n-1 # m+1
          BY <3>3
        <4>2. g[n] = f[n] /\ g[n-1] = f[n-1]
          BY <4>1, <3>3
        <4>3. f[n] = (IF n \in D THEN f[n-1] ELSE Append(f[n-1], s[n]))
          BY <2>1, <4>1, <3>3
        <4> QED BY <4>2, <4>3, <3>3
      <3> QED BY <3>1, <3>2, <3>3
    <2>3. g = F(m+1, g)
      BY <2>2
    <2> HIDE DEF g
    <2> QED BY <2>3
  <1>3. \A m \in Nat : m \in T
    <2> HIDE DEF T
    <2> QED BY <1>1, <1>2, NatSetInduction
  <1>4. \E f : f = F(Len(s), f)
    BY <1>3
  <1>5. Kept(s, D) = CHOOSE f : f = F(Len(s), f)
    BY Zenon DEF Kept
  <1>6. Kept(s, D) = F(Len(s), Kept(s, D))
    <2> HIDE DEF F
    <2> QED BY <1>4, <1>5, Zenon
  <1> HIDE DEF T
  <1>7. ASSUME NEW f, f = F(Len(s), f)
        PROVE  f[0] = <<>> /\ \A n \in 1..Len(s) : f[n] = (IF n \in D THEN f[n-1] ELSE Append(f[n-1], s[n]))
    <2>1. f[0] = F(Len(s), f)[0] /\ \A n \in 1..Len(s) : f[n] = F(Len(s), f)[n]
      <3> HIDE DEF F
      <3> QED BY <1>7
    <2>2. 0 \in 0..Len(s) /\ \A n \in 1..Len(s) : n \in 0..Len(s) /\ n # 0
      OBVIOUS
    <2>3. F(Len(s), f)[0] = <<>>
      BY <2>2
    <2>4. \A n \in 1..Len(s) : F(Len(s), f)[n] = (IF n \in D THEN f[n-1] ELSE Append(f[n-1], s[n]))
      BY <2>2
    <2> HIDE DEF F
    <2> QED BY <2>1, <2>3, <2>4
  <1> QED BY <1>6, <1>7

(* A pass of file_lock_process_requests, request by request. *)
LEMMA GrantTurnsTurns ==
    ASSUME NEW s, NEW oom, Len(s.reqs) \in Nat
    PROVE  /\ GrantTurns(s, oom)[0] = [s EXCEPT !.reqs = <<>>]
           /\ \A n \in 1..Len(s.reqs) : GrantTurns(s, oom)[n] = GrantTurn(GrantTurns(s, oom)[n-1], s.reqs[n], oom)
  <1> DEFINE F(m, f) == [n \in 0..m |-> IF n = 0 THEN [s EXCEPT !.reqs = <<>>] ELSE GrantTurn(f[n-1], s.reqs[n], oom)]
             T == {m \in Nat : \E f : f = F(m, f)}
  <1>1. 0 \in T
    <2> DEFINE f == [n \in 0..0 |-> [s EXCEPT !.reqs = <<>>]]
    <2>1. f = F(0, f)
      OBVIOUS
    <2> QED BY <2>1
  <1>2. ASSUME NEW m \in Nat, m \in T PROVE m+1 \in T
    <2>1. PICK f : f = F(m, f)
      BY <1>2
    <2> DEFINE g == [n \in 0..(m+1) |-> IF n = m+1 THEN GrantTurn(f[m], s.reqs[m+1], oom) ELSE f[n]]
    <2>2. ASSUME NEW n \in 0..(m+1) PROVE g[n] = F(m+1, g)[n]
      <3>1. CASE n = m+1
        <4>1. m \in 0..(m+1) /\ m # m+1 /\ m+1 # 0 /\ (m+1)-1 = m
          OBVIOUS
        <4>2. g[m] = f[m]
          BY <4>1
        <4> QED BY <3>1, <4>1, <4>2
      <3>2. CASE n = 0
        <4>1. f[0] = [s EXCEPT !.reqs = <<>>] /\ 0 # m+1
          BY <2>1
        <4> QED BY <3>2, <4>1
      <3>3. CASE n # m+1 /\ n # 0
        <4>1. n \in 0..m /\ n-1 \in 0..(m+1) /\ n-1 # m+1
          BY <3>3
        <4>2. g[n] = f[n] /\ g[n-1] = f[n-1]
          BY <4>1, <3>3
        <4>3. f[n] = GrantTurn(f[n-1], s.reqs[n], oom)
          BY <2>1, <4>1, <3>3
        <4> QED BY <4>2, <4>3, <3>3
      <3> QED BY <3>1, <3>2, <3>3
    <2>3. g = F(m+1, g)
      BY <2>2
    <2> HIDE DEF g
    <2> QED BY <2>3
  <1>3. \A m \in Nat : m \in T
    <2> HIDE DEF T
    <2> QED BY <1>1, <1>2, NatSetInduction
  <1>4. \E f : f = F(Len(s.reqs), f)
    BY <1>3
  <1>5. GrantTurns(s, oom) = CHOOSE f : f = F(Len(s.reqs), f)
    BY Zenon DEF GrantTurns
  <1>6. GrantTurns(s, oom) = F(Len(s.reqs), GrantTurns(s, oom))
    <2> HIDE DEF F
    <2> QED BY <1>4, <1>5, Zenon
  <1> HIDE DEF T
  <1>7. ASSUME NEW f, f = F(Len(s.reqs), f)
        PROVE  f[0] = [s EXCEPT !.reqs = <<>>] /\ \A n \in 1..Len(s.reqs) : f[n] = GrantTurn(f[n-1], s.reqs[n], oom)
    <2>1. f[0] = F(Len(s.reqs), f)[0] /\ \A n \in 1..Len(s.reqs) : f[n] = F(Len(s.reqs), f)[n]
      <3> HIDE DEF F
      <3> QED BY <1>7
    <2>2. 0 \in 0..Len(s.reqs) /\ \A n \in 1..Len(s.reqs) : n \in 0..Len(s.reqs) /\ n # 0
      OBVIOUS
    <2>3. F(Len(s.reqs), f)[0] = [s EXCEPT !.reqs = <<>>]
      BY <2>2
    <2>4. \A n \in 1..Len(s.reqs) : F(Len(s.reqs), f)[n] = GrantTurn(f[n-1], s.reqs[n], oom)
      BY <2>2
    <2> HIDE DEF F
    <2> QED BY <2>1, <2>3, <2>4
  <1> QED BY <1>6, <1>7

(* The passes of file_lock_process_requests. *)
LEMMA GrantPassesTurns ==
    ASSUME NEW s, NEW reqs, NEW oom, Len(reqs) \in Nat
    PROVE  /\ GrantPasses(s, reqs, oom)[0] = [locks |-> s, reqs |-> reqs, granted |-> {}]
           /\ \A n \in 1..Len(reqs) : GrantPasses(s, reqs, oom)[n] = GrantPass(GrantPasses(s, reqs, oom)[n-1], oom)
  <1> DEFINE F(m, f) == [n \in 0..m |-> IF n = 0 THEN [locks |-> s, reqs |-> reqs, granted |-> {}] ELSE GrantPass(f[n-1], oom)]
             T == {m \in Nat : \E f : f = F(m, f)}
  <1>1. 0 \in T
    <2> DEFINE f == [n \in 0..0 |-> [locks |-> s, reqs |-> reqs, granted |-> {}]]
    <2>1. f = F(0, f)
      OBVIOUS
    <2> QED BY <2>1
  <1>2. ASSUME NEW m \in Nat, m \in T PROVE m+1 \in T
    <2>1. PICK f : f = F(m, f)
      BY <1>2
    <2> DEFINE g == [n \in 0..(m+1) |-> IF n = m+1 THEN GrantPass(f[m], oom) ELSE f[n]]
    <2>2. ASSUME NEW n \in 0..(m+1) PROVE g[n] = F(m+1, g)[n]
      <3>1. CASE n = m+1
        <4>1. m \in 0..(m+1) /\ m # m+1 /\ m+1 # 0 /\ (m+1)-1 = m
          OBVIOUS
        <4>2. g[m] = f[m]
          BY <4>1
        <4> QED BY <3>1, <4>1, <4>2
      <3>2. CASE n = 0
        <4>1. f[0] = [locks |-> s, reqs |-> reqs, granted |-> {}] /\ 0 # m+1
          BY <2>1
        <4> QED BY <3>2, <4>1
      <3>3. CASE n # m+1 /\ n # 0
        <4>1. n \in 0..m /\ n-1 \in 0..(m+1) /\ n-1 # m+1
          BY <3>3
        <4>2. g[n] = f[n] /\ g[n-1] = f[n-1]
          BY <4>1, <3>3
        <4>3. f[n] = GrantPass(f[n-1], oom)
          BY <2>1, <4>1, <3>3
        <4> QED BY <4>2, <4>3, <3>3
      <3> QED BY <3>1, <3>2, <3>3
    <2>3. g = F(m+1, g)
      BY <2>2
    <2> HIDE DEF g
    <2> QED BY <2>3
  <1>3. \A m \in Nat : m \in T
    <2> HIDE DEF T
    <2> QED BY <1>1, <1>2, NatSetInduction
  <1>4. \E f : f = F(Len(reqs), f)
    BY <1>3
  <1>5. GrantPasses(s, reqs, oom) = CHOOSE f : f = F(Len(reqs), f)
    BY Zenon DEF GrantPasses
  <1>6. GrantPasses(s, reqs, oom) = F(Len(reqs), GrantPasses(s, reqs, oom))
    <2> HIDE DEF F
    <2> QED BY <1>4, <1>5, Zenon
  <1> HIDE DEF T
  <1>7. ASSUME NEW f, f = F(Len(reqs), f)
        PROVE  f[0] = [locks |-> s, reqs |-> reqs, granted |-> {}] /\ \A n \in 1..Len(reqs) : f[n] = GrantPass(f[n-1], oom)
    <2>1. f[0] = F(Len(reqs), f)[0] /\ \A n \in 1..Len(reqs) : f[n] = F(Len(reqs), f)[n]
      <3> HIDE DEF F
      <3> QED BY <1>7
    <2>2. 0 \in 0..Len(reqs) /\ \A n \in 1..Len(reqs) : n \in 0..Len(reqs) /\ n # 0
      OBVIOUS
    <2>3. F(Len(reqs), f)[0] = [locks |-> s, reqs |-> reqs, granted |-> {}]
      BY <2>2
    <2>4. \A n \in 1..Len(reqs) : F(Len(reqs), f)[n] = GrantPass(f[n-1], oom)
      BY <2>2
    <2> HIDE DEF F
    <2> QED BY <2>1, <2>3, <2>4
  <1> QED BY <1>6, <1>7

-----------------------------------------------------------------------------
(* The lock list                                                           *)

Families == {"POSIX", "FLOCK"}

(* The locks of BSD handles. *)
Handles == {HandleOf[p] : p \in Pids}

FlockHeld == [family : {"FLOCK"}, type : {"RDLCK", "WRLCK"}, start : {0}, end : {0}, owner : Handles]

FlockAsked == [family : {"FLOCK"}, type : LockTypes, start : {0}, end : {0}, owner : Handles]

(* A list of POSIX locks, and one of BSD locks: the handles differ, and    *)
(* where there are two all are for reading.                                *)
PosixList(s) == GoodList(s) /\ Compatible(s)

FlockList(s) == /\ s \in Seq(FlockHeld)
                /\ \A i, j \in DOMAIN s : i # j => s[i].owner # s[j].owner /\ s[i].type = "RDLCK"

ListOf(fam, s) == IF fam = "POSIX" THEN PosixList(s) ELSE FlockList(s)

AskedOf(fam) == IF fam = "POSIX" THEN {l \in AskedLocks : l.start <= l.end} ELSE FlockAsked

(* _posix_lock_set replaces the range, byte by byte, whatever the list. *)
LEMMA PosixSetExact ==
    ASSUME NEW s, GoodList(s), NEW l \in AskedLocks, l.start <= l.end
    PROVE  GoodList(PosixLockSet(s, l)) /\ Replaced(s, PosixLockSet(s, l), l)
  <1> DEFINE N == Len(s)
             w == PosixWalk(s, l)
             T == {n \in Nat : n <= N => SetWalk(s, l, n+1, w[n])}
  <1>1. N \in Nat /\ DOMAIN s = 1..N
    BY DEF GoodList
  <1>2. w[0] = WalkFrom(l) /\ \A n \in 1..N : w[n] = PosixTurn(l, w[n-1], s[n])
    BY <1>1, PosixWalkTurns
  <1> HIDE DEF w
  <1>3. 0 \in T
    <2>1. SetWalk(s, l, 1, w[0])
      BY <1>2, WalkStarts
    <2>2. 0+1 = 1
      OBVIOUS
    <2> QED BY <2>1, <2>2
  <1>4. ASSUME NEW n \in Nat, n \in T PROVE n+1 \in T
    <2> SUFFICES ASSUME n+1 <= N PROVE SetWalk(s, l, (n+1)+1, w[n+1])
      OBVIOUS
    <2>1. SetWalk(s, l, n+1, w[n]) /\ n+1 \in DOMAIN s /\ (n+1)-1 = n
      BY <1>1, <1>4
    <2>2. w[n+1] = PosixTurn(l, w[n], s[n+1])
      BY <1>1, <1>2, <2>1
    <2> QED BY <2>1, <2>2, PosixTurnKeeps
  <1>5. \A n \in Nat : n \in T
    <2> HIDE DEF T
    <2> QED BY <1>3, <1>4, NatSetInduction
  <1>6. SetWalk(s, l, N+1, w[N])
    BY <1>1, <1>5
  <1> QED BY <1>6, ResultExact DEF PosixLockSet, w

(* A POSIX unlock leaves a list of BSD locks alone. *)
LEMMA PosixUnlockFlock ==
    ASSUME NEW s, FlockList(s), NEW l, l.type = "UNLCK"
    PROVE  PosixLockSet(s, l) = s
  <1> DEFINE N == Len(s)
             w == PosixWalk(s, l)
             Same(n, o) == o \in Seq(FlockHeld) /\ Len(o) = n /\ \A i \in 1..n : o[i] = s[i]
             R == [out : Seq(FlockHeld), prev : {0}, start : {l.start}, end : {l.end}, done : {FALSE}]
             G(n) == w[n] \in R /\ Same(n, w[n].out)
             T == {n \in Nat : n <= N => G(n)}
  <1>1. N \in Nat /\ DOMAIN s = 1..N /\ s \in Seq(FlockHeld)
    BY DEF FlockList
  <1>2. w[0] = WalkFrom(l) /\ \A n \in 1..N : w[n] = PosixTurn(l, w[n-1], s[n])
    BY <1>1, PosixWalkTurns
  <1> HIDE DEF w
  <1>3. 0 \in T
    <2>1. <<>> \in Seq(FlockHeld) /\ Len(<<>>) = 0
      OBVIOUS
    <2>2. w[0].out = <<>> /\ w[0] \in R
      BY <1>2, <2>1 DEF WalkFrom
    <2>3. Same(0, <<>>)
      BY <2>1
    <2> QED BY <2>2, <2>3
  <1>4. ASSUME NEW n \in Nat, n \in T PROVE n+1 \in T
    <2> SUFFICES ASSUME n+1 <= N PROVE G(n+1)
      <3> HIDE DEF G
      <3> QED OBVIOUS
    <2>1. G(n) /\ n+1 \in 1..N /\ (n+1)-1 = n
      <3> HIDE DEF G
      <3> QED BY <1>1, <1>4
    <2>2. s[n+1] \in FlockHeld
      BY <1>1, <2>1
    <2>3. s[n+1].family # "POSIX"
      BY <2>2 DEF FlockHeld
    <2>4. w[n+1] = Keep(w[n], s[n+1])
      BY <1>1, <1>2, <2>1, <2>3 DEF PosixTurn
    <2>5. Same(n+1, Append(w[n].out, s[n+1]))
      BY <2>1, <2>2, AppendProperties
    <2>6. w[n+1].out = Append(w[n].out, s[n+1]) /\ w[n+1] \in R
      BY <2>1, <2>4, <2>5 DEF Keep
    <2> QED BY <2>5, <2>6
  <1>5. \A n \in Nat : n \in T
    <2> HIDE DEF T
    <2> QED BY <1>3, <1>4, NatSetInduction
  <1>6. Same(N, w[N].out)
    <2>1. N \in T
      BY <1>1, <1>5
    <2> HIDE DEF Same
    <2> QED BY <1>1, <2>1
  <1>7. w[N].out = s
    BY <1>1, <1>6, SeqEqual
  <1> QED BY <1>7 DEF PosixLockSet, WalkResult, w

(* A BSD unlock leaves a list of POSIX locks alone. *)
LEMMA FlockUnlockPosix ==
    ASSUME NEW s, GoodList(s), NEW l, l.type = "UNLCK"
    PROVE  FlockLockSet(s, l) = s
  <1>1. \A i \in DOMAIN s : s[i].family # "FLOCK"
    BY GoodElement, HeldFields
  <1> QED BY <1>1 DEF FlockLockSet

(* A list without one member. *)
LEMMA RemoveOne ==
    ASSUME NEW S, NEW s \in Seq(S), NEW k \in DOMAIN s
    PROVE  /\ RemoveAt(s, k) \in Seq(S) /\ Len(RemoveAt(s, k)) = Len(s) - 1
           /\ \A i \in DOMAIN RemoveAt(s, k) :
                 RemoveAt(s, k)[i] = s[IF i < k THEN i ELSE i+1]
  <1> DEFINE f == SubSeq(s, 1, k-1)
             g == SubSeq(s, k+1, Len(s))
             r == RemoveAt(s, k)
  <1>1. Len(s) \in Nat /\ k \in 1..Len(s) /\ DOMAIN s = 1..Len(s)
    OBVIOUS
  <1>2. f \in Seq(S) /\ Len(f) = k-1 /\ \A i \in 1..(k-1) : f[i] = s[i]
    <2>1. \A i \in 1..(k-1) : s[i] \in S
      BY <1>1
    <2> QED BY <1>1, <2>1, SubSeqProperties
  <1>3. g \in Seq(S) /\ Len(g) = Len(s) - k /\ \A i \in 1..(Len(s)-k) : g[i] = s[k+i]
    <2>1. \A i \in (k+1)..Len(s) : s[i] \in S
      BY <1>1
    <2> QED BY <1>1, <2>1, SubSeqProperties
  <1>4. r = f \o g
    BY DEF RemoveAt
  <1> HIDE DEF f, g, r
  <1>5. r \in Seq(S) /\ Len(r) = Len(s) - 1 /\ DOMAIN r = 1..(Len(s)-1)
    <2>1. r \in Seq(S) /\ Len(r) = Len(f) + Len(g)
      BY <1>2, <1>3, <1>4, ConcatProperties
    <2>2. Len(r) = Len(s) - 1
      BY <1>1, <1>2, <1>3, <2>1
    <2> QED BY <2>1, <2>2, LenProperties
  <1>6. ASSUME NEW i \in 1..(Len(s)-1) PROVE r[i] = s[IF i < k THEN i ELSE i+1]
    <2>1. r[i] = IF i <= k-1 THEN f[i] ELSE g[i-(k-1)]
      BY <1>1, <1>2, <1>3, <1>4, ConcatProperties
    <2>2. CASE i < k
      BY <1>1, <1>2, <2>1, <2>2
    <2>3. CASE ~(i < k)
      <3>1. i-(k-1) \in 1..(Len(s)-k) /\ k + (i-(k-1)) = i+1
        BY <1>1, <2>3
      <3> QED BY <1>1, <1>3, <2>1, <2>3, <3>1
    <2> QED BY <2>2, <2>3
  <1> QED BY <1>5, <1>6 DEF r

(* BSD locks: one that meets no conflict, or an unlock, leaves a list of   *)
(* BSD locks without conflict.                                             *)
LEMMA FlockSetGood ==
    ASSUME NEW s, FlockList(s), NEW l \in FlockAsked, l.type = "UNLCK" \/ ~HasConflict(s, l)
    PROVE  FlockList(FlockLockSet(s, l))
  <1> DEFINE mine == {i \in DOMAIN s : s[i].family = "FLOCK" /\ s[i].owner = l.owner}
             k == CHOOSE i \in mine : \A j \in mine : i <= j
             rest == IF mine = {} THEN s ELSE RemoveAt(s, k)
  <1>1. s \in Seq(FlockHeld) /\ DOMAIN s = 1..Len(s) /\ Len(s) \in Nat
    BY DEF FlockList
  <1>2. \A i \in DOMAIN s : s[i].family = "FLOCK" /\ s[i] \in FlockHeld
    <2>1. \A i \in DOMAIN s : s[i] \in FlockHeld
      BY <1>1
    <2> QED BY <2>1 DEF FlockHeld
  <1>3. FlockList(rest) /\ \A i \in DOMAIN rest : /\ rest[i].owner # l.owner
                                                  /\ \E j \in DOMAIN s : rest[i] = s[j]
    <2>1. CASE mine = {}
      BY <1>2, <2>1
    <2>2. CASE mine # {}
      <3>1. k \in mine
        <4>1. \E i \in mine : \A j \in mine : i <= j
          <5>1. mine \subseteq Nat
            BY <1>1
          <5>2. \A i, j \in mine : i = j
            BY DEF FlockList
          <5>3. PICK i \in mine : TRUE
            BY <2>2
          <5> HIDE DEF mine
          <5>4. \A j \in mine : i <= j
            BY <5>1, <5>2
          <5> QED BY <5>4
        <4> HIDE DEF mine
        <4> QED BY <4>1
      <3>2. k \in DOMAIN s /\ s[k].owner = l.owner
        BY <3>1
      <3> HIDE DEF k
      <3> DEFINE r == RemoveAt(s, k)
                 place(i) == IF i < k THEN i ELSE i+1
      <3>3. /\ r \in Seq(FlockHeld) /\ Len(r) = Len(s) - 1
            /\ \A i \in DOMAIN r : r[i] = s[place(i)]
        BY <1>1, <3>2, RemoveOne
      <3> HIDE DEF r
      <3>4. DOMAIN r = 1..(Len(s)-1)
        BY <3>3
      <3>5. \A i \in DOMAIN r : place(i) \in DOMAIN s /\ place(i) # k
        BY <1>1, <3>2, <3>4
      <3>6. \A i, j \in DOMAIN r : i # j => place(i) # place(j)
        BY <1>1, <3>2, <3>4
      <3> HIDE DEF place
      <3>7. FlockList(r)
        BY <3>3, <3>5, <3>6 DEF FlockList
      <3>8. \A i \in DOMAIN r : r[i].owner # l.owner /\ \E j \in DOMAIN s : r[i] = s[j]
        <4> SUFFICES ASSUME NEW i \in DOMAIN r
                     PROVE  r[i].owner # l.owner /\ \E j \in DOMAIN s : r[i] = s[j]
          OBVIOUS
        <4>1. s[place(i)].owner # s[k].owner
          BY <3>2, <3>5 DEF FlockList
        <4> QED BY <3>2, <3>3, <3>5, <4>1
      <3> QED BY <2>2, <3>7, <3>8 DEF r
    <2> QED BY <2>1, <2>2
  <1>4. FlockLockSet(s, l) = IF l.type = "UNLCK" THEN rest ELSE <<l>> \o rest
    BY DEF FlockLockSet
  <1> HIDE DEF rest
  <1>5. CASE l.type = "UNLCK"
    BY <1>3, <1>4, <1>5
  <1>6. CASE l.type # "UNLCK"
    <2> DEFINE t == <<l>> \o rest
    <2>1. l \in FlockHeld /\ <<l>> \in Seq(FlockHeld) /\ Len(<<l>>) = 1 /\ <<l>>[1] = l
      BY <1>6 DEF FlockAsked, FlockHeld, LockTypes
    <2>2. rest \in Seq(FlockHeld) /\ Len(rest) \in Nat /\ DOMAIN rest = 1..Len(rest)
      BY <1>3 DEF FlockList
    <2>3. t \in Seq(FlockHeld) /\ Len(t) = 1 + Len(rest) /\ t[1] = l
          /\ \A i \in 1..Len(t) : i # 1 => t[i] = rest[i-1] /\ i-1 \in DOMAIN rest
      BY <2>1, <2>2, ConcatProperties
    <2> HIDE DEF t
    <2>4. DOMAIN t = 1..Len(t) /\ Len(t) \in Nat
      BY <2>3
    <2>5. ~HasConflict(s, l)
      BY <1>6
    <2>6. \A i \in DOMAIN s : s[i].owner # l.owner => l.type # "WRLCK" /\ s[i].type # "WRLCK"
      BY <2>5 DEF HasConflict, Conflict, FlockAsked
    <2>7. \A i \in DOMAIN rest : rest[i].type = "RDLCK" /\ l.type = "RDLCK"
      <3> SUFFICES ASSUME NEW i \in DOMAIN rest PROVE rest[i].type = "RDLCK" /\ l.type = "RDLCK"
        OBVIOUS
      <3>1. PICK j \in DOMAIN s : rest[i] = s[j]
        BY <1>3
      <3>2. s[j] \in FlockHeld /\ s[j].owner # l.owner
        BY <1>2, <1>3, <3>1
      <3> QED BY <1>6, <2>6, <3>1, <3>2 DEF FlockHeld, FlockAsked, LockTypes
    <2>8. ASSUME NEW i \in DOMAIN t, NEW j \in DOMAIN t, i # j
          PROVE  t[i].owner # t[j].owner /\ t[i].type = "RDLCK"
      <3>1. CASE i = 1
        <4>1. t[j] = rest[j-1] /\ j-1 \in DOMAIN rest
          BY <2>3, <2>4, <2>8, <3>1
        <4> QED BY <1>3, <2>3, <2>7, <3>1, <4>1
      <3>2. CASE j = 1
        <4>1. t[i] = rest[i-1] /\ i-1 \in DOMAIN rest
          BY <2>3, <2>4, <2>8, <3>2
        <4> QED BY <1>3, <2>3, <2>7, <3>2, <4>1
      <3>3. CASE i # 1 /\ j # 1
        <4>1. t[i] = rest[i-1] /\ i-1 \in DOMAIN rest /\ t[j] = rest[j-1] /\ j-1 \in DOMAIN rest
          BY <2>3, <2>4, <3>3
        <4>2. i-1 # j-1
          BY <2>4, <2>8
        <4> QED BY <1>3, <4>1, <4>2 DEF FlockList
      <3> QED BY <3>1, <3>2, <3>3
    <2>9. FlockList(t)
      BY <2>3, <2>8 DEF FlockList
    <2> QED BY <1>4, <1>6, <2>9 DEF t
  <1> QED BY <1>5, <1>6

(* file_lock_set on a list of one family: a lock of that family that meets *)
(* no conflict, or an unlock of either, leaves such a list.                *)
LEMMA LockSetGood ==
    ASSUME NEW fam \in Families, NEW s, ListOf(fam, s), NEW g \in Families, NEW l \in AskedOf(g),
           l.type # "UNLCK" => g = fam /\ ~HasConflict(s, l)
    PROVE  ListOf(fam, LockSet(s, l))
  <1>1. CASE g = "POSIX"
    <2>1. l \in AskedLocks /\ l.start <= l.end /\ l.family = "POSIX"
      BY <1>1, LockFields DEF AskedOf
    <2>2. LockSet(s, l) = PosixLockSet(s, l)
      BY <2>1 DEF LockSet
    <2>3. CASE fam = "POSIX"
      <3>1. GoodList(s) /\ Compatible(s)
        BY <2>3 DEF ListOf, PosixList
      <3>2. GoodList(PosixLockSet(s, l)) /\ Replaced(s, PosixLockSet(s, l), l)
        BY <2>1, <3>1, PosixSetExact
      <3>3. Compatible(PosixLockSet(s, l))
        BY <2>1, <3>1, <3>2, CompatibleKept
      <3> QED BY <2>2, <2>3, <3>2, <3>3 DEF ListOf, PosixList
    <2>4. CASE fam = "FLOCK"
      <3>1. FlockList(s) /\ l.type = "UNLCK"
        BY <1>1, <2>4 DEF ListOf
      <3> QED BY <2>2, <3>1, PosixUnlockFlock
    <2> QED BY <2>3, <2>4 DEF Families
  <1>2. CASE g = "FLOCK"
    <2>1. l \in FlockAsked
      BY <1>2 DEF AskedOf
    <2>2. LockSet(s, l) = FlockLockSet(s, l)
      BY <2>1 DEF LockSet, FlockAsked
    <2>3. CASE fam = "POSIX"
      <3>1. GoodList(s) /\ l.type = "UNLCK"
        BY <1>2, <2>3 DEF ListOf, PosixList
      <3> QED BY <2>2, <3>1, FlockUnlockPosix
    <2>4. CASE fam = "FLOCK"
      <3>1. FlockList(s)
        BY <2>4 DEF ListOf
      <3>2. FlockList(FlockLockSet(s, l))
        BY <2>1, <3>1, FlockSetGood
      <3> QED BY <2>2, <2>4, <3>2 DEF ListOf
    <2> QED BY <2>3, <2>4 DEF Families
  <1> QED BY <1>1, <1>2 DEF Families

(* What is left of a list after some of its members were deleted. *)
IsRest(r, s, D, n) ==
    /\ \A i \in DOMAIN r : \E a \in 1..n : a \notin D /\ r[i] = s[a]
    /\ \A i, j \in DOMAIN r : i < j =>
          \E a, b \in 1..n : a < b /\ a \notin D /\ b \notin D /\ r[i] = s[a] /\ r[j] = s[b]
    /\ \A a \in 1..n : a \notin D => \E i \in DOMAIN r : r[i] = s[a]

(* The next member of the list is deleted, or kept. *)
LEMMA RestStep ==
    ASSUME NEW S, NEW s \in Seq(S), NEW D, NEW n \in Nat, n+1 <= Len(s),
           NEW r \in Seq(S), IsRest(r, s, D, n)
    PROVE  /\ n+1 \in D => IsRest(r, s, D, n+1)
           /\ n+1 \notin D => Append(r, s[n+1]) \in Seq(S) /\ IsRest(Append(r, s[n+1]), s, D, n+1)
  <1>1. \A a \in 1..n : a \in 1..(n+1) /\ a < n+1
    OBVIOUS
  <1>2. \A a \in 1..(n+1) : a = n+1 \/ a \in 1..n
    OBVIOUS
  <1>3. ASSUME n+1 \in D PROVE IsRest(r, s, D, n+1)
    BY <1>1, <1>2, <1>3 DEF IsRest
  <1>4. ASSUME n+1 \notin D
        PROVE  Append(r, s[n+1]) \in Seq(S) /\ IsRest(Append(r, s[n+1]), s, D, n+1)
    <2> DEFINE t == Append(r, s[n+1])
               m == Len(r) + 1
    <2>1. s[n+1] \in S /\ n+1 \in 1..(n+1)
      OBVIOUS
    <2>2. /\ t \in Seq(S) /\ DOMAIN t = 1..m /\ t[m] = s[n+1] /\ DOMAIN r = 1..(m-1) /\ m \in Nat
          /\ \A i \in DOMAIN r : t[i] = r[i] /\ i \in DOMAIN t
      BY <2>1, AppendProperties
    <2> HIDE DEF t, m
    <2>3. \A i \in DOMAIN t : i = m \/ i \in DOMAIN r
      BY <2>2
    <2>4. \A i, j \in DOMAIN t : i < j => i \in DOMAIN r
      BY <2>2
    <2>5. m \in DOMAIN t
      BY <2>2 DEF m
    <2>6. ASSUME NEW i \in DOMAIN t
          PROVE  \E a \in 1..(n+1) : a \notin D /\ t[i] = s[a]
      <3>1. CASE i = m
        BY <1>4, <2>1, <2>2, <3>1
      <3>2. CASE i \in DOMAIN r
        <4>1. PICK a \in 1..n : a \notin D /\ r[i] = s[a]
          BY <3>2 DEF IsRest
        <4> QED BY <1>1, <2>2, <3>2, <4>1
      <3> QED BY <2>3, <3>1, <3>2
    <2>7. ASSUME NEW i \in DOMAIN t, NEW j \in DOMAIN t, i < j
          PROVE  \E a, b \in 1..(n+1) : a < b /\ a \notin D /\ b \notin D /\ t[i] = s[a] /\ t[j] = s[b]
      <3>1. i \in DOMAIN r
        BY <2>4, <2>7
      <3>2. CASE j = m
        <4>1. PICK a \in 1..n : a \notin D /\ r[i] = s[a]
          BY <3>1 DEF IsRest
        <4>2. a \in 1..(n+1) /\ a < n+1 /\ n+1 \in 1..(n+1)
          BY <1>1, <2>1
        <4> QED BY <1>4, <2>2, <3>1, <3>2, <4>1, <4>2
      <3>3. CASE j \in DOMAIN r
        <4>1. PICK a \in 1..n, b \in 1..n :
                 a < b /\ a \notin D /\ b \notin D /\ r[i] = s[a] /\ r[j] = s[b]
          BY <2>7, <3>1, <3>3 DEF IsRest
        <4> QED BY <1>1, <2>2, <3>1, <3>3, <4>1
      <3> QED BY <2>3, <3>2, <3>3
    <2>8. ASSUME NEW a \in 1..(n+1), a \notin D
          PROVE  \E i \in DOMAIN t : t[i] = s[a]
      <3>1. CASE a = n+1
        BY <2>2, <2>5, <3>1
      <3>2. CASE a \in 1..n
        <4>1. PICK i \in DOMAIN r : r[i] = s[a]
          BY <2>8, <3>2 DEF IsRest
        <4> QED BY <2>2, <4>1
      <3> QED BY <1>2, <3>1, <3>2
    <2>9. IsRest(t, s, D, n+1)
      BY <2>6, <2>7, <2>8 DEF IsRest
    <2> QED BY <2>2, <2>9 DEF t
  <1> QED BY <1>3, <1>4

(* Remaining does what IsRest says, for a list of any length. *)
LEMMA WithoutRest ==
    ASSUME NEW S, NEW s \in Seq(S), NEW D
    PROVE  Remaining(s, D) \in Seq(S) /\ IsRest(Remaining(s, D), s, D, Len(s))
  <1> DEFINE k == Kept(s, D)
             G(n) == k[n] \in Seq(S) /\ IsRest(k[n], s, D, n)
             T == {n \in Nat : n <= Len(s) => G(n)}
  <1>1. Len(s) \in Nat
    OBVIOUS
  <1>2. k[0] = <<>> /\ \A n \in 1..Len(s) : k[n] = IF n \in D THEN k[n-1] ELSE Append(k[n-1], s[n])
    BY <1>1, KeptTurns
  <1> HIDE DEF k
  <1>3. 0 \in T
    <2>1. <<>> \in Seq(S) /\ DOMAIN <<>> = {} /\ 1..0 = {}
      OBVIOUS
    <2>2. IsRest(<<>>, s, D, 0)
      BY <2>1 DEF IsRest
    <2> QED BY <1>2, <2>1, <2>2
  <1>4. ASSUME NEW n \in Nat, n \in T PROVE n+1 \in T
    <2> SUFFICES ASSUME n+1 <= Len(s) PROVE G(n+1)
      <3> HIDE DEF G
      <3> QED OBVIOUS
    <2>1. G(n) /\ n+1 \in 1..Len(s) /\ (n+1)-1 = n
      <3> HIDE DEF G
      <3> QED BY <1>1, <1>4
    <2>2. k[n+1] = IF n+1 \in D THEN k[n] ELSE Append(k[n], s[n+1])
      BY <1>2, <2>1
    <2> QED BY <2>1, <2>2, RestStep
  <1>5. \A n \in Nat : n \in T
    <2> HIDE DEF T
    <2> QED BY <1>3, <1>4, NatSetInduction
  <1>6. G(Len(s))
    <2> HIDE DEF G
    <2> QED BY <1>1, <1>5
  <1> QED BY <1>6 DEF Remaining, k

(* A list of one family stays one when locks are deleted from it. *)
LEMMA WithoutGood ==
    ASSUME NEW fam \in Families, NEW s, ListOf(fam, s), NEW D
    PROVE  ListOf(fam, Remaining(s, D))
  <1> DEFINE r == Remaining(s, D)
  <1>1. CASE fam = "POSIX"
    <2>1. s \in Seq(HeldLocks) /\ NonEmpty(s) /\ Sorted(s) /\ Compatible(s)
          /\ DOMAIN s = 1..Len(s)
      BY <1>1 DEF ListOf, PosixList, GoodList
    <2>2. r \in Seq(HeldLocks) /\ IsRest(r, s, D, Len(s))
      BY <2>1, WithoutRest
    <2> HIDE DEF r
    <2>3. \A i \in DOMAIN r : \E a \in DOMAIN s : r[i] = s[a]
      BY <2>1, <2>2 DEF IsRest
    <2>4. Sorted(r)
      <3> SUFFICES ASSUME NEW i \in DOMAIN r, NEW j \in DOMAIN r, i < j PROVE Precedes(r[i], r[j])
        BY DEF Sorted
      <3>1. PICK a \in 1..Len(s), b \in 1..Len(s) : a < b /\ r[i] = s[a] /\ r[j] = s[b]
        BY <2>2 DEF IsRest
      <3>2. Precedes(s[a], s[b])
        BY <2>1, <3>1 DEF Sorted
      <3> QED BY <3>1, <3>2
    <2>5. NonEmpty(r)
      BY <2>1, <2>3 DEF NonEmpty
    <2>6. \A p, x, type : Holds(r, p, x, type) => Holds(s, p, x, type)
      BY <2>3 DEF Holds
    <2>7. Compatible(r)
      BY <2>1, <2>6 DEF Compatible
    <2> QED BY <1>1, <2>2, <2>4, <2>5, <2>7 DEF ListOf, PosixList, GoodList, r
  <1>2. CASE fam = "FLOCK"
    <2>1. s \in Seq(FlockHeld) /\ FlockList(s) /\ DOMAIN s = 1..Len(s)
      BY <1>2 DEF ListOf, FlockList
    <2>2. r \in Seq(FlockHeld) /\ IsRest(r, s, D, Len(s))
      BY <2>1, WithoutRest
    <2> HIDE DEF r
    <2>3. ASSUME NEW i \in DOMAIN r, NEW j \in DOMAIN r, i < j
          PROVE  r[i].owner # r[j].owner /\ r[i].type = "RDLCK" /\ r[j].type = "RDLCK"
      <3>1. PICK a \in 1..Len(s), b \in 1..Len(s) : a < b /\ r[i] = s[a] /\ r[j] = s[b]
        BY <2>2, <2>3 DEF IsRest
      <3>2. a # b /\ a \in DOMAIN s /\ b \in DOMAIN s
        BY <2>1, <3>1
      <3> QED BY <2>1, <3>1, <3>2 DEF FlockList
    <2>4. \A i, j \in DOMAIN r : i # j => i < j \/ j < i
      BY <2>2
    <2>5. FlockList(r)
      BY <2>2, <2>3, <2>4 DEF FlockList
    <2> QED BY <1>2, <2>5 DEF ListOf, r
  <1> QED BY <1>1, <1>2 DEF Families

-----------------------------------------------------------------------------
(* The pending requests                                                    *)

(* A request for a lock of one family. *)
Requests(fam) == [lock : {l \in AskedOf(fam) : l.type # "UNLCK"}, thread : Threads, notify : BOOLEAN]

(* The state of file_lock_process_requests between two turns. *)
Granting(fam, s) ==
    /\ s = [locks |-> s.locks, reqs |-> s.reqs, granted |-> s.granted]
    /\ ListOf(fam, s.locks)
    /\ s.reqs \in Seq(Requests(fam))

(* All requests are blocked. *)
AllBlocked(s) == \A i \in DOMAIN s.reqs : HasConflict(s.locks, s.reqs[i].lock)

(* What the waiter of request r is told. *)
Told(r, oom) == [thread |-> r.thread, notify |-> r.notify,
                 ret |-> IF r.thread \in oom THEN "ENOMEM" ELSE "OK"]

(* One turn: a request that is blocked stays, any other one is granted. *)
LEMMA GrantTurnCases ==
    ASSUME NEW fam \in Families, NEW s, Granting(fam, s), NEW r \in Requests(fam), NEW oom
    PROVE  /\ Granting(fam, GrantTurn(s, r, oom))
           /\ HasConflict(s.locks, r.lock) =>
                 /\ GrantTurn(s, r, oom).locks = s.locks
                 /\ GrantTurn(s, r, oom).reqs = Append(s.reqs, r)
                 /\ GrantTurn(s, r, oom).granted = s.granted
           /\ ~HasConflict(s.locks, r.lock) =>
                 /\ GrantTurn(s, r, oom).reqs = s.reqs
                 /\ GrantTurn(s, r, oom).granted = s.granted \cup {Told(r, oom)}
                 /\ GrantTurn(s, r, oom).locks =
                       IF r.thread \in oom THEN s.locks ELSE LockSet(s.locks, r.lock)
  <1> DEFINE g == GrantTurn(s, r, oom)
  <1>1. /\ s = [locks |-> s.locks, reqs |-> s.reqs, granted |-> s.granted]
        /\ ListOf(fam, s.locks) /\ s.reqs \in Seq(Requests(fam))
    BY DEF Granting
  <1>2. CASE HasConflict(s.locks, r.lock)
    <2>1. g = [s EXCEPT !.reqs = Append(@, r)]
      BY <1>2 DEF GrantTurn
    <2>2. /\ g.locks = s.locks /\ g.reqs = Append(s.reqs, r) /\ g.granted = s.granted
          /\ g = [locks |-> g.locks, reqs |-> g.reqs, granted |-> g.granted]
      BY <1>1, <2>1
    <2>3. Append(s.reqs, r) \in Seq(Requests(fam))
      BY <1>1, AppendProperties
    <2> HIDE DEF g
    <2> QED BY <1>1, <1>2, <2>2, <2>3 DEF Granting, g
  <1>3. CASE ~HasConflict(s.locks, r.lock)
    <2> DEFINE t == IF r.thread \in oom THEN s.locks ELSE LockSet(s.locks, r.lock)
    <2>1. g = [s EXCEPT !.locks = t, !.granted = @ \cup {Told(r, oom)}]
      BY <1>3 DEF GrantTurn, Told
    <2>2. /\ g.locks = t /\ g.reqs = s.reqs /\ g.granted = s.granted \cup {Told(r, oom)}
          /\ g = [locks |-> g.locks, reqs |-> g.reqs, granted |-> g.granted]
      <3> HIDE DEF t
      <3> QED BY <1>1, <2>1
    <2>3. ListOf(fam, t)
      <3>1. r.lock \in AskedOf(fam)
        BY DEF Requests
      <3>2. ListOf(fam, LockSet(s.locks, r.lock))
        BY <1>1, <1>3, <3>1, LockSetGood
      <3> QED BY <1>1, <3>2
    <2> HIDE DEF g, t
    <2> QED BY <1>1, <1>3, <2>2, <2>3 DEF Granting, g, t
  <1> QED BY <1>2, <1>3

(* PalEventCreate may fail in these threads, and leave a request behind    *)
(* that its thread does not wait for.                                      *)
Loose == IF "event" \in scenario.failures THEN {t \in Threads : ProcOf[t] = Leader} ELSE {}

(* Somebody waits, or will wait, for the answer to this request. *)
Live(r) == r.thread \in Loose => r.notify

Apart(r, s) == r.thread = s.thread => ~Live(r) \/ ~Live(s)

(* Nobody waits for two requests. *)
OneEach(p) == \A i, j \in DOMAIN p : i # j => Apart(p[i], p[j])

(* Of the requests at the first n places of p, those not in q are told     *)
(* their result, and nobody else beside those in old.                      *)
Served(p, n, q, granted, old, oom) ==
    /\ \A i \in DOMAIN q : \E k \in 1..n : q[i] = p[k]
    /\ OneEach(q)
    /\ \A k \in 1..n : (\E i \in DOMAIN q : q[i] = p[k]) \/ Told(p[k], oom) \in granted
    /\ old \subseteq granted
    /\ \A g \in granted : g \in old \/ \E k \in 1..n : g = Told(p[k], oom)
                                                       /\ \A i \in DOMAIN q : Apart(q[i], p[k])

(* n requests of a pass are done: when all are blocked, or none has been   *)
(* granted, nothing has changed.                                           *)
TurnDone(p, n, s, start) ==
    /\ Len(s.reqs) <= n
    /\ Len(s.reqs) = n => /\ s.locks = start.locks
                          /\ \A i \in 1..n : s.reqs[i] = p[i] /\ HasConflict(start.locks, p[i].lock)
    /\ AllBlocked(start) => Len(s.reqs) = n

(* A turn, as far as it concerns who is blocked. *)
LEMMA TurnStep ==
    ASSUME NEW fam \in Families, NEW start, Granting(fam, start),
           NEW oom, NEW n \in Nat, n+1 <= Len(start.reqs),
           NEW s, Granting(fam, s), TurnDone(start.reqs, n, s, start)
    PROVE  /\ Granting(fam, GrantTurn(s, start.reqs[n+1], oom))
           /\ TurnDone(start.reqs, n+1, GrantTurn(s, start.reqs[n+1], oom), start)
  <1> DEFINE p == start.reqs
             r == p[n+1]
             g == GrantTurn(s, r, oom)
             q == s.reqs
  <1>1. p \in Seq(Requests(fam)) /\ q \in Seq(Requests(fam)) /\ n+1 \in DOMAIN p
        /\ Len(p) \in Nat /\ Len(q) \in Nat /\ DOMAIN q = 1..Len(q) /\ DOMAIN p = 1..Len(p)
    BY DEF Granting
  <1>2. r \in Requests(fam)
    BY <1>1
  <1>3. Granting(fam, g)
    BY <1>2, GrantTurnCases
  <1>4. \A k \in 1..(n+1) : k \in 1..n \/ k = n+1
    OBVIOUS
  <1>5. /\ Len(q) <= n
        /\ Len(q) = n => /\ s.locks = start.locks
                         /\ \A i \in 1..n : q[i] = p[i] /\ HasConflict(start.locks, p[i].lock)
        /\ AllBlocked(start) => Len(q) = n
    BY DEF TurnDone
  <1> HIDE DEF p, r
  <1>6. CASE HasConflict(s.locks, r.lock)
    <2> DEFINE t == Append(q, r)
    <2>1. g.locks = s.locks /\ g.reqs = t
      BY <1>2, <1>6, GrantTurnCases
    <2>2. /\ Len(t) = Len(q) + 1 /\ t[Len(q)+1] = r
          /\ \A i \in DOMAIN q : t[i] = q[i]
      BY <1>1, <1>2, AppendProperties
    <2> HIDE DEF t
    <2>3. ASSUME Len(t) = n+1
          PROVE  /\ g.locks = start.locks
                 /\ \A i \in 1..(n+1) : t[i] = p[i] /\ HasConflict(start.locks, p[i].lock)
      <3>1. Len(q) = n
        BY <1>1, <2>2, <2>3
      <3>2. s.locks = start.locks /\ \A i \in 1..n : q[i] = p[i] /\ HasConflict(start.locks, p[i].lock)
        BY <1>5, <3>1
      <3>3. \A i \in 1..n : t[i] = p[i]
        BY <1>1, <2>2, <3>1, <3>2
      <3>4. t[n+1] = p[n+1] /\ HasConflict(start.locks, p[n+1].lock)
        BY <1>6, <2>2, <3>1, <3>2 DEF r
      <3> QED BY <1>4, <2>1, <3>2, <3>3, <3>4
    <2>4. AllBlocked(start) => Len(t) = n+1
      BY <1>5, <2>2
    <2>5. Len(t) <= n+1
      BY <1>1, <1>5, <2>2
    <2> HIDE DEF g, q
    <2>6. TurnDone(p, n+1, g, start)
      BY <2>1, <2>3, <2>4, <2>5 DEF TurnDone
    <2> QED BY <1>3, <2>6 DEF g, r, p
  <1>7. CASE ~HasConflict(s.locks, r.lock)
    <2>1. g.reqs = q
      BY <1>2, <1>7, GrantTurnCases
    <2>2. Len(q) <= n+1 /\ Len(q) # n+1
      BY <1>1, <1>5
    <2>3. ~AllBlocked(start)
      <3> SUFFICES ASSUME AllBlocked(start) PROVE FALSE
        OBVIOUS
      <3>1. s.locks = start.locks
        BY <1>5
      <3> QED BY <1>1, <1>7, <3>1 DEF AllBlocked, r, p
    <2> HIDE DEF g, q
    <2>4. TurnDone(p, n+1, g, start)
      BY <2>1, <2>2, <2>3 DEF TurnDone
    <2> QED BY <1>3, <2>4 DEF g, r, p
  <1> QED BY <1>6, <1>7

(* A turn, as far as it concerns who is told a result. *)
LEMMA ServedStep ==
    ASSUME NEW fam \in Families, NEW p \in Seq(Requests(fam)), OneEach(p), NEW oom, NEW old,
           NEW n \in Nat, n+1 <= Len(p),
           NEW s, Granting(fam, s), Served(p, n, s.reqs, s.granted, old, oom)
    PROVE  LET g == GrantTurn(s, p[n+1], oom)
           IN Served(p, n+1, g.reqs, g.granted, old, oom)
  <1> DEFINE r == p[n+1]
             g == GrantTurn(s, r, oom)
             q == s.reqs
  <1>1. q \in Seq(Requests(fam)) /\ n+1 \in DOMAIN p
        /\ Len(p) \in Nat /\ Len(q) \in Nat /\ DOMAIN q = 1..Len(q) /\ DOMAIN p = 1..Len(p)
    BY DEF Granting
  <1>2. r \in Requests(fam)
    BY <1>1
  <1>4. \A k \in 1..n : k \in DOMAIN p /\ k # n+1 /\ k \in 1..(n+1) /\ Apart(p[k], r)
    BY <1>1 DEF OneEach
  <1>5. \A k \in 1..(n+1) : k \in 1..n \/ k = n+1
    OBVIOUS
  <1>6. n+1 \in 1..(n+1)
    OBVIOUS
  <1>7. Served(p, n, q, s.granted, old, oom)
    OBVIOUS
  <1> HIDE DEF r
  <1>8. \A i \in DOMAIN q : Apart(q[i], r)
    <2> SUFFICES ASSUME NEW i \in DOMAIN q PROVE Apart(q[i], r)
      OBVIOUS
    <2>1. PICK k \in 1..n : q[i] = p[k]
      BY <1>7 DEF Served
    <2> QED BY <1>4, <2>1
  <1>9. CASE HasConflict(s.locks, r.lock)
    <2> DEFINE t == Append(q, r)
    <2>1. g.reqs = t /\ g.granted = s.granted
      BY <1>2, <1>9, GrantTurnCases
    <2>2. /\ Len(t) = Len(q) + 1 /\ DOMAIN t = 1..(Len(q)+1) /\ t[Len(q)+1] = r
          /\ \A i \in DOMAIN q : t[i] = q[i] /\ i \in DOMAIN t
      BY <1>1, <1>2, AppendProperties
    <2> HIDE DEF t
    <2>3. \A i \in DOMAIN t : i \in DOMAIN q \/ i = Len(q)+1
      BY <1>1, <2>2
    <2>4. Len(q)+1 \in DOMAIN t
      BY <1>1, <2>2
    <2>5. Served(p, n+1, t, s.granted, old, oom)
      <3>1. ASSUME NEW i \in DOMAIN t PROVE \E k \in 1..(n+1) : t[i] = p[k]
        <4>1. CASE i \in DOMAIN q
          <5>1. PICK k \in 1..n : q[i] = p[k]
            BY <1>7, <4>1 DEF Served
          <5> QED BY <1>4, <2>2, <4>1, <5>1
        <4>2. CASE i = Len(q)+1
          BY <1>6, <2>2, <4>2 DEF r
        <4> QED BY <2>3, <4>1, <4>2
      <3>2. OneEach(t)
        <4> SUFFICES ASSUME NEW i \in DOMAIN t, NEW j \in DOMAIN t, i # j
                     PROVE  Apart(t[i], t[j])
          BY DEF OneEach
        <4>1. CASE i \in DOMAIN q /\ j \in DOMAIN q
          BY <1>7, <2>2, <4>1 DEF Served, OneEach
        <4>2. CASE i \in DOMAIN q /\ j = Len(q)+1
          BY <1>8, <2>2, <4>2
        <4>3. CASE i = Len(q)+1 /\ j \in DOMAIN q
          BY <1>8, <2>2, <4>3 DEF Apart
        <4> QED BY <2>3, <4>1, <4>2, <4>3
      <3>3. ASSUME NEW k \in 1..(n+1)
            PROVE  (\E i \in DOMAIN t : t[i] = p[k]) \/ Told(p[k], oom) \in s.granted
        <4>1. CASE k \in 1..n
          BY <1>7, <2>2, <4>1 DEF Served
        <4>2. CASE k = n+1
          BY <2>2, <2>4, <4>2 DEF r
        <4> QED BY <1>5, <4>1, <4>2
      <3>4. ASSUME NEW x \in s.granted
            PROVE  x \in old \/ \E k \in 1..(n+1) : x = Told(p[k], oom)
                                            /\ \A i \in DOMAIN t : Apart(t[i], p[k])
        <4>1. CASE x \in old
          BY <4>1
        <4>2. CASE x \notin old
          <5>1. PICK k \in 1..n : x = Told(p[k], oom) /\ \A i \in DOMAIN q : Apart(q[i], p[k])
            BY <1>7, <4>2 DEF Served
          <5>2. \A i \in DOMAIN t : Apart(t[i], p[k])
            BY <1>4, <2>2, <2>3, <5>1 DEF Apart
          <5> QED BY <1>4, <5>1, <5>2
        <4> QED BY <4>1, <4>2
      <3>5. old \subseteq s.granted
        BY <1>7 DEF Served
      <3> QED BY <3>1, <3>2, <3>3, <3>4, <3>5 DEF Served
    <2> HIDE DEF g, q
    <2> QED BY <2>1, <2>5 DEF g, r
  <1>10. CASE ~HasConflict(s.locks, r.lock)
    <2>1. g.reqs = q /\ g.granted = s.granted \cup {Told(r, oom)}
      BY <1>2, <1>10, GrantTurnCases
    <2>2. Served(p, n+1, q, s.granted \cup {Told(r, oom)}, old, oom)
      <3>1. ASSUME NEW i \in DOMAIN q PROVE \E k \in 1..(n+1) : q[i] = p[k]
        <4>1. PICK k \in 1..n : q[i] = p[k]
          BY <1>7 DEF Served
        <4> QED BY <1>4, <4>1
      <3>2. OneEach(q)
        BY <1>7 DEF Served
      <3>3. ASSUME NEW k \in 1..(n+1)
            PROVE  (\E i \in DOMAIN q : q[i] = p[k]) \/ Told(p[k], oom) \in s.granted \cup {Told(r, oom)}
        <4>1. CASE k \in 1..n
          BY <1>7, <4>1 DEF Served
        <4>2. CASE k = n+1
          BY <4>2 DEF r
        <4> QED BY <1>5, <4>1, <4>2
      <3>4. ASSUME NEW x \in s.granted \cup {Told(r, oom)}
            PROVE  x \in old \/ \E k \in 1..(n+1) : x = Told(p[k], oom)
                                            /\ \A i \in DOMAIN q : Apart(q[i], p[k])
        <4>1. CASE x = Told(r, oom)
          BY <1>6, <1>8, <4>1 DEF r
        <4>2. CASE x \in s.granted
          <5>1. CASE x \notin old
            <6>1. PICK k \in 1..n : x = Told(p[k], oom) /\ \A i \in DOMAIN q : Apart(q[i], p[k])
              BY <1>7, <4>2, <5>1 DEF Served
            <6> QED BY <1>4, <6>1
          <5> QED BY <5>1
        <4> QED BY <4>1, <4>2
      <3>5. old \subseteq s.granted \cup {Told(r, oom)}
        BY <1>7 DEF Served
      <3> QED BY <3>1, <3>2, <3>3, <3>4, <3>5 DEF Served
    <2> HIDE DEF g, q
    <2> QED BY <2>1, <2>2 DEF g, r
  <1> QED BY <1>9, <1>10

(* A pass of file_lock_process_requests. *)
LEMMA PassDone ==
    ASSUME NEW fam \in Families, NEW s, Granting(fam, s), NEW oom
    PROVE  LET g == GrantPass(s, oom)
           IN /\ Granting(fam, g) /\ TurnDone(s.reqs, Len(s.reqs), g, s)
              /\ OneEach(s.reqs) => Served(s.reqs, Len(s.reqs), g.reqs, g.granted, s.granted, oom)
  <1> DEFINE N == Len(s.reqs)
             w == GrantTurns(s, oom)
             G(n) == /\ Granting(fam, w[n]) /\ TurnDone(s.reqs, n, w[n], s)
                     /\ OneEach(s.reqs) => Served(s.reqs, n, w[n].reqs, w[n].granted, s.granted, oom)
             T == {n \in Nat : n <= N => G(n)}
  <1>1. s.reqs \in Seq(Requests(fam)) /\ N \in Nat
    BY DEF Granting
  <1>2. /\ w[0] = [s EXCEPT !.reqs = <<>>]
        /\ \A n \in 1..N : w[n] = GrantTurn(w[n-1], s.reqs[n], oom)
    BY <1>1, GrantTurnsTurns
  <1> HIDE DEF w
  <1>3. 0 \in T
    <2>1. <<>> \in Seq(Requests(fam)) /\ Len(<<>>) = 0 /\ DOMAIN <<>> = {} /\ 1..0 = {}
      OBVIOUS
    <2>2. w[0].locks = s.locks /\ w[0].reqs = <<>> /\ w[0].granted = s.granted
          /\ w[0] = [locks |-> w[0].locks, reqs |-> w[0].reqs, granted |-> w[0].granted]
      BY <1>2 DEF Granting
    <2>3. Granting(fam, w[0])
      BY <2>1, <2>2 DEF Granting
    <2>4. TurnDone(s.reqs, 0, w[0], s)
      BY <2>1, <2>2 DEF TurnDone
    <2>5. Served(s.reqs, 0, w[0].reqs, w[0].granted, s.granted, oom)
      BY <2>1, <2>2 DEF Served, OneEach
    <2> QED BY <2>3, <2>4, <2>5
  <1>4. ASSUME NEW n \in Nat, n \in T PROVE n+1 \in T
    <2> SUFFICES ASSUME n+1 <= N PROVE G(n+1)
      <3> HIDE DEF G
      <3> QED OBVIOUS
    <2>1. G(n) /\ n+1 \in 1..N /\ (n+1)-1 = n
      <3> HIDE DEF G
      <3> QED BY <1>1, <1>4
    <2>2. w[n+1] = GrantTurn(w[n], s.reqs[n+1], oom)
      BY <1>2, <2>1
    <2>3. Granting(fam, w[n+1]) /\ TurnDone(s.reqs, n+1, w[n+1], s)
      BY <2>1, <2>2, TurnStep
    <2>4. ASSUME OneEach(s.reqs)
          PROVE  Served(s.reqs, n+1, w[n+1].reqs, w[n+1].granted, s.granted, oom)
      BY <1>1, <2>1, <2>2, <2>4, ServedStep
    <2> QED BY <2>3, <2>4
  <1>5. \A n \in Nat : n \in T
    <2> HIDE DEF T
    <2> QED BY <1>3, <1>4, NatSetInduction
  <1>6. G(N)
    <2> HIDE DEF G
    <2> QED BY <1>1, <1>5
  <1> QED BY <1>6 DEF GrantPass, w

(* Who is served by two passes. *)
LEMMA ServedTwice ==
    ASSUME NEW p, NEW n, NEW q, NEW G, NEW H, NEW r, NEW oom, Len(q) \in Nat, DOMAIN q = 1..Len(q),
           Served(p, n, q, G, {}, oom), Served(q, Len(q), r, H, G, oom)
    PROVE  Served(p, n, r, H, {}, oom)
  <1>1. ASSUME NEW i \in DOMAIN r PROVE \E k \in 1..n : r[i] = p[k]
    <2>1. PICK j \in 1..Len(q) : r[i] = q[j]
      BY DEF Served
    <2>2. PICK k \in 1..n : q[j] = p[k]
      BY DEF Served
    <2> QED BY <2>1, <2>2
  <1>2. ASSUME NEW k \in 1..n
        PROVE  (\E i \in DOMAIN r : r[i] = p[k]) \/ Told(p[k], oom) \in H
    <2>1. CASE Told(p[k], oom) \in G
      BY <2>1 DEF Served
    <2>2. CASE Told(p[k], oom) \notin G
      <3>1. PICK j \in DOMAIN q : q[j] = p[k]
        BY <2>2 DEF Served
      <3>2. (\E i \in DOMAIN r : r[i] = q[j]) \/ Told(q[j], oom) \in H
        BY DEF Served
      <3> QED BY <3>1, <3>2
    <2> QED BY <2>1, <2>2
  <1>3. ASSUME NEW g \in H
        PROVE  \E k \in 1..n : g = Told(p[k], oom) /\ \A i \in DOMAIN r : Apart(r[i], p[k])
    <2>1. CASE g \in G
      <3>1. PICK k \in 1..n : g = Told(p[k], oom) /\ \A i \in DOMAIN q : Apart(q[i], p[k])
        BY <2>1 DEF Served
      <3>2. ASSUME NEW i \in DOMAIN r PROVE Apart(r[i], p[k])
        <4>1. PICK j \in 1..Len(q) : r[i] = q[j]
          BY DEF Served
        <4> QED BY <3>1, <4>1
      <3> QED BY <3>1, <3>2
    <2>2. CASE g \notin G
      <3>1. PICK j \in 1..Len(q) : g = Told(q[j], oom) /\ \A i \in DOMAIN r : Apart(r[i], q[j])
        BY <2>2 DEF Served
      <3>2. PICK k \in 1..n : q[j] = p[k]
        BY DEF Served
      <3> QED BY <3>1, <3>2
    <2> QED BY <2>1, <2>2
  <1>4. OneEach(r)
    BY DEF Served
  <1> QED BY <1>1, <1>2, <1>3, <1>4 DEF Served

(* file_lock_process_requests leaves only requests that are blocked, and   *)
(* tells every other one its result.                                       *)
LEMMA ProcessRequestsDone ==
    ASSUME NEW fam \in Families, NEW locks0, ListOf(fam, locks0), NEW reqs \in Seq(Requests(fam)), NEW oom
    PROVE  LET g == ProcessRequests(locks0, reqs, oom)
           IN /\ Granting(fam, g) /\ AllBlocked(g)
              /\ OneEach(reqs) => Served(reqs, Len(reqs), g.reqs, g.granted, {}, oom)
  <1> DEFINE N == Len(reqs)
             w == GrantPasses(locks0, reqs, oom)
             Less(n) == Len(w[n].reqs) <= N - n \/ AllBlocked(w[n])
             G(n) == /\ Granting(fam, w[n]) /\ Less(n)
                     /\ OneEach(reqs) => Served(reqs, N, w[n].reqs, w[n].granted, {}, oom)
             T == {n \in Nat : n <= N => G(n)}
  <1>1. N \in Nat /\ DOMAIN reqs = 1..N
    OBVIOUS
  <1>2. /\ w[0] = [locks |-> locks0, reqs |-> reqs, granted |-> {}]
        /\ \A n \in 1..N : w[n] = GrantPass(w[n-1], oom)
    BY <1>1, GrantPassesTurns
  <1> HIDE DEF w
  <1>3. 0 \in T
    <2>1. Granting(fam, w[0])
      BY <1>2 DEF Granting
    <2>2. Less(0)
      BY <1>1, <1>2
    <2>3. OneEach(reqs) => Served(reqs, N, reqs, {}, {}, oom)
      BY <1>1 DEF Served
    <2>4. w[0].reqs = reqs /\ w[0].granted = {}
      BY <1>2
    <2>5. OneEach(reqs) => Served(reqs, N, w[0].reqs, w[0].granted, {}, oom)
      BY <2>3, <2>4
    <2>6. G(0)
      BY <2>1, <2>2, <2>5
    <2> HIDE DEF G
    <2> QED BY <2>6
  <1>4. ASSUME NEW n \in Nat, n \in T PROVE n+1 \in T
    <2> SUFFICES ASSUME n+1 <= N PROVE G(n+1)
      <3> HIDE DEF G
      <3> QED OBVIOUS
    <2>1. G(n) /\ n+1 \in 1..N /\ (n+1)-1 = n
      <3> HIDE DEF G
      <3> QED BY <1>1, <1>4
    <2>2. w[n+1] = GrantPass(w[n], oom)
      BY <1>2, <2>1
    <2> DEFINE q == w[n].reqs
               r == w[n+1].reqs
    <2>3. Granting(fam, w[n+1]) /\ TurnDone(q, Len(q), w[n+1], w[n])
          /\ (OneEach(q) => Served(q, Len(q), r, w[n+1].granted, w[n].granted, oom))
      BY <2>1, <2>2, PassDone
    <2>4. Len(q) \in Nat /\ DOMAIN q = 1..Len(q) /\ Len(r) \in Nat /\ DOMAIN r = 1..Len(r)
      BY <2>1, <2>3 DEF Granting
    <2>5. Less(n+1)
      <3>1. CASE Len(r) = Len(q)
        <4>1. w[n+1].locks = w[n].locks
              /\ \A i \in 1..Len(q) : r[i] = q[i] /\ HasConflict(w[n].locks, q[i].lock)
          BY <2>3, <3>1 DEF TurnDone
        <4>2. AllBlocked(w[n+1])
          BY <2>4, <3>1, <4>1 DEF AllBlocked
        <4> QED BY <4>2
      <3>2. CASE Len(r) # Len(q)
        <4>1. Len(r) < Len(q) /\ ~AllBlocked(w[n])
          BY <2>3, <2>4, <3>2 DEF TurnDone
        <4>2. Len(q) <= N - n
          BY <2>1, <4>1
        <4> QED BY <1>1, <2>4, <4>1, <4>2
      <3> QED BY <3>1, <3>2
    <2>6. ASSUME OneEach(reqs) PROVE Served(reqs, N, r, w[n+1].granted, {}, oom)
      <3>1. Served(reqs, N, q, w[n].granted, {}, oom)
        BY <2>1, <2>6
      <3>2. OneEach(q)
        BY <3>1 DEF Served
      <3>3. Served(q, Len(q), r, w[n+1].granted, w[n].granted, oom)
        BY <2>3, <3>2
      <3> HIDE DEF q, r
      <3> QED BY <2>4, <3>1, <3>3, ServedTwice
    <2> QED BY <2>3, <2>5, <2>6
  <1>5. \A n \in Nat : n \in T
    <2> HIDE DEF T
    <2> QED BY <1>3, <1>4, NatSetInduction
  <1>6. G(N)
    <2> HIDE DEF G
    <2> QED BY <1>1, <1>5
  <1>7. AllBlocked(w[N])
    <2>1. Len(w[N].reqs) <= 0 => AllBlocked(w[N])
      BY <1>6 DEF AllBlocked, Granting
    <2> QED BY <1>1, <1>6, <2>1
  <1> QED BY <1>6, <1>7 DEF ProcessRequests, w

-----------------------------------------------------------------------------
(* The object of the file in the leader                                    *)

(* dent->file_locks: locks and requests of one family, or nothing at all. *)
DentOf(fam, d) ==
    /\ d = [locks |-> d.locks, reqs |-> d.reqs, used |-> d.used]
    /\ ListOf(fam, d.locks)
    /\ d.reqs \in Seq(Requests(fam))
    /\ d.used \subseteq {fam}
    /\ d.used = {} => d = EmptyDent

(* Outside of g_fs_lock_lock every request is blocked, too. *)
GoodDent(d) == (\E fam \in Families : DentOf(fam, d)) /\ AllBlocked(d)

(* The object before the first lock belongs to either family. *)
LEMMA EmptyDentOf == \A fam \in Families : DentOf(fam, EmptyDent)
  <1>1. /\ EmptyDent.locks = <<>> /\ EmptyDent.reqs = <<>> /\ EmptyDent.used = {}
        /\ EmptyDent = [locks |-> EmptyDent.locks, reqs |-> EmptyDent.reqs, used |-> EmptyDent.used]
    BY DEF EmptyDent
  <1>2. DOMAIN <<>> = {} /\ \A S : <<>> \in Seq(S)
    OBVIOUS
  <1>3. PosixList(<<>>)
    BY <1>2 DEF PosixList, GoodList, NonEmpty, Sorted, Compatible, Holds
  <1>4. FlockList(<<>>)
    BY <1>2 DEF FlockList
  <1> QED BY <1>1, <1>2, <1>3, <1>4 DEF DentOf, ListOf

(* dent_file_locks_gc loses nothing. *)
LEMMA GcDent ==
    ASSUME NEW fam \in Families, NEW d, DentOf(fam, d)
    PROVE  DentOf(fam, Gc(d)) /\ Gc(d).locks = d.locks /\ Gc(d).reqs = d.reqs
  <1>1. CASE d.locks = <<>> /\ d.reqs = <<>>
    BY <1>1, EmptyDentOf DEF Gc, EmptyDent
  <1>2. CASE ~(d.locks = <<>> /\ d.reqs = <<>>)
    BY <1>2 DEF Gc
  <1> QED BY <1>1, <1>2

(* A lock that does not mix families fits the object. *)
LEMMA NoMix ==
    ASSUME NEW fam \in Families, DentOf(fam, dent), NEW g \in Families, NEW l, l.family = g,
           ~Mixes(l), l.type # "UNLCK"
    PROVE  DentOf(g, dent)
  <1>1. CASE dent.used = {}
    BY <1>1, EmptyDentOf DEF DentOf
  <1>2. CASE dent.used # {}
    <2>1. dent.used = {fam}
      BY <1>2 DEF DentOf
    <2>2. fam = g
      BY <2>1 DEF Mixes
    <2> QED BY <2>2
  <1> QED BY <1>1, <1>2

(* The family of a lock that is asked for. *)
LEMMA AskedFamily ==
    ASSUME NEW g \in Families, NEW l \in AskedOf(g)
    PROVE  l.family = g /\ l.type \in LockTypes
  <1>1. CASE g = "POSIX"
    BY <1>1 DEF AskedOf, AskedLocks
  <1>2. CASE g = "FLOCK"
    BY <1>2 DEF AskedOf, FlockAsked
  <1> QED BY <1>1, <1>2 DEF Families

(* When nothing is granted, everybody keeps what he has. *)
LEMMA ServedNone ==
    ASSUME NEW fam \in Families, NEW p \in Seq(Requests(fam)), NEW oom
    PROVE  OneEach(p) => Served(p, Len(p), p, {}, {}, oom)
  <1>1. DOMAIN p = 1..Len(p)
    OBVIOUS
  <1> QED BY <1>1 DEF Served

(* file_lock_add_request. *)
LEMMA AddRequestGood ==
    ASSUME NEW g \in Families, DentOf(g, dent), AllBlocked(dent), NEW t \in Threads,
           NEW l \in AskedOf(g), l.type # "UNLCK", HasConflict(dent.locks, l)
    PROVE  LET d == AddRequest(t, l)
               r == [lock |-> l, thread |-> t, notify |-> FALSE]
           IN /\ DentOf(g, d) /\ AllBlocked(d) /\ d.reqs = <<r>> \o dent.reqs /\ d.locks = dent.locks
              /\ d.reqs # <<>>
  <1> DEFINE d == AddRequest(t, l)
             r == [lock |-> l, thread |-> t, notify |-> FALSE]
             q == <<r>> \o dent.reqs
  <1>1. l.family = g
    BY AskedFamily
  <1>2. r \in Requests(g)
    BY DEF Requests
  <1>3. dent.reqs \in Seq(Requests(g)) /\ Len(dent.reqs) \in Nat
    BY DEF DentOf
  <1>4. <<r>> \in Seq(Requests(g)) /\ Len(<<r>>) = 1 /\ <<r>>[1] = r
    BY <1>2
  <1>5. /\ q \in Seq(Requests(g)) /\ Len(q) = 1 + Len(dent.reqs) /\ DOMAIN q = 1..Len(q)
        /\ q[1] = r /\ \A i \in DOMAIN q : i # 1 => i-1 \in DOMAIN dent.reqs /\ q[i] = dent.reqs[i-1]
    <2> HIDE DEF r
    <2> QED BY <1>3, <1>4, ConcatProperties
  <1>6. d = [locks |-> dent.locks, reqs |-> q, used |-> dent.used \cup {g}]
    <2>1. dent = [locks |-> dent.locks, reqs |-> dent.reqs, used |-> dent.used]
      BY DEF DentOf
    <2>2. d = [dent EXCEPT !.reqs = <<r>> \o @, !.used = dent.used \cup {g}]
      BY <1>1 DEF AddRequest, UsedAfter
    <2> HIDE DEF d, r
    <2> QED BY <2>1, <2>2
  <1>7. dent.used \cup {g} = {g}
    BY DEF DentOf
  <1>8. r.lock = l
    OBVIOUS
  <1> HIDE DEF d, q, r
  <1>9. d.locks = dent.locks /\ d.reqs = q /\ d.used = {g}
        /\ d = [locks |-> d.locks, reqs |-> d.reqs, used |-> d.used]
    BY <1>6, <1>7
  <1>10. DentOf(g, d)
    BY <1>5, <1>9 DEF DentOf
  <1>11. AllBlocked(d)
    <2> SUFFICES ASSUME NEW i \in DOMAIN q PROVE HasConflict(dent.locks, q[i].lock)
      BY <1>9 DEF AllBlocked
    <2>1. CASE i = 1
      BY <1>5, <1>8, <2>1
    <2>2. CASE i # 1
      BY <1>5, <2>2 DEF AllBlocked
    <2> QED BY <2>1, <2>2
  <1>12. q # <<>>
    BY <1>3, <1>5
  <1> QED BY <1>9, <1>10, <1>11, <1>12 DEF d, q, r

(* A change of the locks, and then file_lock_process_requests. *)
LEMMA ChangeGood ==
    ASSUME NEW fam \in Families, NEW locks0, ListOf(fam, locks0),
           NEW reqs \in Seq(Requests(fam)), NEW oom
    PROVE  LET s == ProcessRequests(locks0, reqs, oom)
               d == [locks |-> s.locks, reqs |-> s.reqs, used |-> {fam}]
           IN /\ DentOf(fam, Gc(d)) /\ AllBlocked(Gc(d))
              /\ Gc(d).locks = s.locks /\ Gc(d).reqs = s.reqs
              /\ OneEach(reqs) => Served(reqs, Len(reqs), Gc(d).reqs, s.granted, {}, oom)
  <1> DEFINE s == ProcessRequests(locks0, reqs, oom)
             d == [locks |-> s.locks, reqs |-> s.reqs, used |-> {fam}]
  <1>1. /\ Granting(fam, s) /\ AllBlocked(s)
        /\ OneEach(reqs) => Served(reqs, Len(reqs), s.reqs, s.granted, {}, oom)
    BY ProcessRequestsDone
  <1> HIDE DEF s
  <1>2. d.locks = s.locks /\ d.reqs = s.reqs /\ d.used = {fam}
        /\ d = [locks |-> d.locks, reqs |-> d.reqs, used |-> d.used]
    OBVIOUS
  <1> HIDE DEF d
  <1>3. DentOf(fam, d)
    BY <1>1, <1>2 DEF DentOf, Granting
  <1>4. DentOf(fam, Gc(d)) /\ Gc(d).locks = s.locks /\ Gc(d).reqs = s.reqs
    BY <1>2, <1>3, GcDent
  <1>5. AllBlocked(Gc(d))
    BY <1>1, <1>4 DEF AllBlocked
  <1> QED BY <1>1, <1>4, <1>5 DEF s, d

(* What is true of every outcome of file_lock_set_or_add_request. *)
SetDone(t, l, o) ==
    /\ GoodDent(o.dent)
    /\ o.queued => /\ o.granted = {}
                   /\ o.dent.reqs = <<[lock |-> l, thread |-> t, notify |-> FALSE]>> \o dent.reqs
                   /\ o.dent.locks = dent.locks
    /\ ~o.queued => \E oom : OneEach(dent.reqs) =>
                       Served(dent.reqs, Len(dent.reqs), o.dent.reqs, o.granted, {}, oom)

(* An outcome that changes nothing. *)
LEMMA NoChange ==
    ASSUME GoodDent(dent), NEW t, NEW l, NEW ret
    PROVE  SetDone(t, l, Outcome(dent, ret, {}, FALSE))
  <1> DEFINE o == Outcome(dent, ret, {}, FALSE)
  <1>1. PICK fam \in Families : DentOf(fam, dent)
    BY DEF GoodDent
  <1>2. o.dent = Gc(dent) /\ o.granted = {} /\ o.queued = FALSE
    BY DEF Outcome
  <1> HIDE DEF o
  <1>3. DentOf(fam, Gc(dent)) /\ Gc(dent).locks = dent.locks /\ Gc(dent).reqs = dent.reqs
    BY <1>1, GcDent
  <1>4. GoodDent(o.dent)
    BY <1>2, <1>3 DEF GoodDent, AllBlocked
  <1>5. OneEach(dent.reqs) => Served(dent.reqs, Len(dent.reqs), dent.reqs, {}, {}, {})
    BY <1>1, ServedNone DEF DentOf
  <1> QED BY <1>2, <1>3, <1>4, <1>5 DEF SetDone, o

(* There is no memory for the lock: nothing changes. *)
LEMMA NoMemoryDone ==
    ASSUME GoodDent(dent), NEW t, NEW l, NEW o \in NoMemory
    PROVE  SetDone(t, l, o)
  BY NoChange DEF NoMemory

(* The lock is set, and then the requests that this unblocks. *)
LEMMA SetAndProcessDone ==
    ASSUME GoodDent(dent), NEW t, NEW g \in Families, NEW l \in AskedOf(g), NEW oom,
           IF l.type = "UNLCK" THEN dent # EmptyDent ELSE ~Mixes(l) /\ ~HasConflict(dent.locks, l)
    PROVE  SetDone(t, l, SetAndProcess(l, oom))
  <1>1. l.family = g
    BY AskedFamily
  <1>2. PICK fam \in Families : /\ DentOf(fam, dent) /\ UsedAfter(dent, l) = {fam}
                                /\ ListOf(fam, LockSet(dent.locks, l))
    <2>1. PICK f \in Families : DentOf(f, dent)
      BY DEF GoodDent
    <2>2. CASE l.type = "UNLCK"
      <3>1. UsedAfter(dent, l) = {f}
        BY <2>1, <2>2 DEF UsedAfter, DentOf
      <3>2. ListOf(f, LockSet(dent.locks, l))
        BY <2>1, <2>2, LockSetGood DEF DentOf
      <3> QED BY <2>1, <3>1, <3>2
    <2>3. CASE l.type # "UNLCK"
      <3>1. DentOf(g, dent)
        BY <1>1, <2>1, <2>3, NoMix
      <3>2. UsedAfter(dent, l) = {g}
        BY <1>1, <2>3, <3>1 DEF UsedAfter, DentOf
      <3>3. ListOf(g, LockSet(dent.locks, l))
        BY <2>3, <3>1, LockSetGood DEF DentOf
      <3> QED BY <3>1, <3>2, <3>3
    <2> QED BY <2>2, <2>3
  <1> DEFINE s == ProcessRequests(LockSet(dent.locks, l), dent.reqs, oom)
             d == [locks |-> s.locks, reqs |-> s.reqs, used |-> {fam}]
             o == SetAndProcess(l, oom)
  <1>3. dent.reqs \in Seq(Requests(fam))
    BY <1>2 DEF DentOf
  <1>4. /\ DentOf(fam, Gc(d)) /\ AllBlocked(Gc(d))
        /\ OneEach(dent.reqs) => Served(dent.reqs, Len(dent.reqs), Gc(d).reqs, s.granted, {}, oom)
    BY <1>2, <1>3, ChangeGood
  <1>5. o.dent = Gc(d) /\ o.granted = s.granted /\ o.queued = FALSE
    BY <1>2 DEF SetAndProcess, Outcome
  <1> HIDE DEF s, d, o
  <1>6. GoodDent(o.dent)
    BY <1>4, <1>5 DEF GoodDent
  <1> QED BY <1>4, <1>5, <1>6 DEF SetDone, o

(* file_lock_set_or_add_request. *)
LEMMA SetOrAddRequestDone ==
    ASSUME GoodDent(dent), NEW t \in Threads, NEW g \in Families, NEW l \in AskedOf(g), NEW wait,
           NEW o \in SetOrAddRequest(t, l, wait)
    PROVE  SetDone(t, l, o)
  <1>1. l.family = g
    BY AskedFamily
  <1>2. CASE l.type = "UNLCK" /\ dent = EmptyDent
    <2>1. o = Outcome(dent, "OK", {}, FALSE)
      BY <1>2 DEF SetOrAddRequest, Mixes
    <2> QED BY <2>1, NoChange
  <1>3. CASE Mixes(l)
    <2>1. l.type # "UNLCK"
      BY <1>3 DEF Mixes
    <2>2. o = Outcome(dent, "EPERM", {}, FALSE)
      BY <1>3, <2>1 DEF SetOrAddRequest
    <2> QED BY <2>2, NoChange
  <1>4. CASE ~Mixes(l) /\ l.type # "UNLCK" /\ HasConflict(dent.locks, l)
    <2>1. o \in IF wait THEN {Outcome(AddRequest(t, l), "OK", {}, TRUE)} \cup NoMemory
                        ELSE {Outcome(dent, "EAGAIN", {}, FALSE)}
      BY <1>4 DEF SetOrAddRequest
    <2>2. CASE o = Outcome(dent, "EAGAIN", {}, FALSE)
      BY <2>2, NoChange
    <2>3. CASE o \in NoMemory
      BY <2>3, NoMemoryDone
    <2>4. CASE o = Outcome(AddRequest(t, l), "OK", {}, TRUE)
      <3> DEFINE d == AddRequest(t, l)
      <3>1. DentOf(g, dent) /\ AllBlocked(dent)
        BY <1>1, <1>4, NoMix DEF GoodDent
      <3>2. /\ DentOf(g, d) /\ AllBlocked(d) /\ d.locks = dent.locks
            /\ d.reqs = <<[lock |-> l, thread |-> t, notify |-> FALSE]>> \o dent.reqs
        BY <1>4, <3>1, AddRequestGood
      <3> HIDE DEF d
      <3>3. DentOf(g, Gc(d)) /\ Gc(d).locks = d.locks /\ Gc(d).reqs = d.reqs
        BY <3>2, GcDent
      <3>4. o.dent = Gc(d) /\ o.granted = {} /\ o.queued = TRUE
        BY <2>4 DEF Outcome, d
      <3>5. GoodDent(o.dent)
        BY <3>2, <3>3, <3>4 DEF GoodDent, AllBlocked
      <3> QED BY <3>2, <3>3, <3>4, <3>5 DEF SetDone
    <2> QED BY <2>1, <2>2, <2>3, <2>4
  <1>5. CASE /\ ~(l.type = "UNLCK" /\ dent = EmptyDent) /\ ~Mixes(l)
             /\ ~(~Mixes(l) /\ l.type # "UNLCK" /\ HasConflict(dent.locks, l))
    <2>1. o \in {SetAndProcess(l, oom) : oom \in OutOfMemory}
                \cup (IF l.family = "FLOCK" /\ l.type = "UNLCK" THEN {} ELSE NoMemory)
      BY <1>5 DEF SetOrAddRequest
    <2>2. CASE o \in NoMemory
      BY <2>2, NoMemoryDone
    <2>3. CASE \E oom \in OutOfMemory : o = SetAndProcess(l, oom)
      <3>1. PICK oom \in OutOfMemory : o = SetAndProcess(l, oom)
        BY <2>3
      <3> QED BY <1>5, <3>1, SetAndProcessDone
    <2> QED BY <2>1, <2>2, <2>3
  <1> QED BY <1>2, <1>3, <1>4, <1>5

(* Writing the notify part of a request changes neither locks nor requests *)
(* otherwise.                                                              *)
LEMMA SetNotifyGood ==
    ASSUME NEW d, GoodDent(d), NEW i \in DOMAIN d.reqs
    PROVE  LET e == SetNotify(d, i)
           IN /\ GoodDent(e) /\ e.locks = d.locks
              /\ DOMAIN e.reqs = DOMAIN d.reqs
              /\ \A j \in DOMAIN d.reqs : /\ e.reqs[j].lock = d.reqs[j].lock
                                          /\ e.reqs[j].thread = d.reqs[j].thread
                                          /\ j # i => e.reqs[j] = d.reqs[j]
              /\ e.reqs[i].notify = TRUE
  <1> DEFINE e == SetNotify(d, i)
             r == [d.reqs[i] EXCEPT !.notify = TRUE]
             q == [d.reqs EXCEPT ![i] = r]
  <1>1. PICK fam \in Families : DentOf(fam, d)
    BY DEF GoodDent
  <1>2. d.reqs \in Seq(Requests(fam)) /\ d.reqs[i] \in Requests(fam)
    BY <1>1 DEF DentOf
  <1>3. r \in Requests(fam) /\ r.lock = d.reqs[i].lock /\ r.thread = d.reqs[i].thread /\ r.notify = TRUE
    BY <1>2 DEF Requests
  <1> HIDE DEF r
  <1>4. q \in Seq(Requests(fam)) /\ DOMAIN q = DOMAIN d.reqs
        /\ \A j \in DOMAIN d.reqs : q[j] = IF j = i THEN r ELSE d.reqs[j]
    BY <1>2, <1>3
  <1>5. e = [d EXCEPT !.reqs = q]
    BY DEF SetNotify, r
  <1>6. d = [locks |-> d.locks, reqs |-> d.reqs, used |-> d.used]
    BY <1>1 DEF DentOf
  <1> HIDE DEF e, q
  <1>7. e = [locks |-> d.locks, reqs |-> q, used |-> d.used]
    BY <1>5, <1>6
  <1>8. e.locks = d.locks /\ e.reqs = q /\ e.used = d.used
        /\ e = [locks |-> e.locks, reqs |-> e.reqs, used |-> e.used]
    BY <1>7
  <1>9. d.used # {}
    <2>1. EmptyDent.reqs = <<>> /\ DOMAIN <<>> = {}
      BY DEF EmptyDent
    <2> QED BY <1>1, <2>1 DEF DentOf
  <1>10. DentOf(fam, e)
    BY <1>1, <1>4, <1>8, <1>9 DEF DentOf
  <1>11. AllBlocked(e)
    BY <1>3, <1>4, <1>8 DEF GoodDent, AllBlocked
  <1> QED BY <1>3, <1>4, <1>8, <1>10, <1>11 DEF GoodDent, e

(* Deleting none of the requests keeps them all. *)
LEMMA RestServed ==
    ASSUME NEW fam \in Families, NEW p \in Seq(Requests(fam)), NEW r \in Seq(Requests(fam)),
           NEW D, IsRest(r, p, D, Len(p)), NEW oom, OneEach(p), D = {}
    PROVE  Served(p, Len(p), r, {}, {}, oom)
  <1>1. DOMAIN p = 1..Len(p)
    OBVIOUS
  <1>2. ASSUME NEW i \in DOMAIN r PROVE \E k \in 1..Len(p) : r[i] = p[k]
    BY DEF IsRest
  <1>3. ASSUME NEW k \in 1..Len(p) PROVE \E i \in DOMAIN r : r[i] = p[k]
    BY DEF IsRest
  <1>4. OneEach(r)
    <2>1. ASSUME NEW i \in DOMAIN r, NEW j \in DOMAIN r, i < j PROVE Apart(r[i], r[j])
      <3>1. PICK a \in 1..Len(p), b \in 1..Len(p) : a < b /\ r[i] = p[a] /\ r[j] = p[b]
        BY <2>1 DEF IsRest
      <3>2. a # b
        BY <3>1
      <3> QED BY <1>1, <3>1, <3>2 DEF OneEach
    <2>2. ASSUME NEW i \in DOMAIN r, NEW j \in DOMAIN r, i # j PROVE i < j \/ j < i
      BY <2>2
    <2>3. \A x, y : Apart(x, y) <=> Apart(y, x)
      BY DEF Apart
    <2> QED BY <2>1, <2>2, <2>3 DEF OneEach
  <1> QED BY <1>2, <1>3, <1>4 DEF Served

(* Nothing is left of nothing. *)
LEMMA WithoutEmpty == \A D : Remaining(<<>>, D) = <<>>
  <1> SUFFICES ASSUME NEW D PROVE Remaining(<<>>, D) = <<>>
    OBVIOUS
  <1> DEFINE r == Remaining(<<>>, D)
  <1>1. <<>> \in Seq({}) /\ Len(<<>>) = 0 /\ 1..0 = {}
    OBVIOUS
  <1>2. r \in Seq({}) /\ IsRest(r, <<>>, D, 0)
    BY <1>1, WithoutRest
  <1> HIDE DEF r
  <1>3. DOMAIN r = {}
    BY <1>1, <1>2 DEF IsRest
  <1>4. Len(r) = 0
    BY <1>2, <1>3
  <1>5. r = <<>>
    BY <1>2, <1>4
  <1> QED BY <1>5 DEF r

(* file_lock_clear_pid_from_dentry: when the process requests nothing,     *)
(* whoever is not served is still blocked.                                 *)
LEMMA ClearDone ==
    ASSUME GoodDent(dent), NEW pid, NEW oom
    PROVE  LET o == ClearPidFromDentry(pid, oom)
           IN /\ GoodDent(o.dent)
              /\ (\A i \in DOMAIN dent.reqs : ~OfPid(dent.reqs[i].lock, pid)) /\ OneEach(dent.reqs) =>
                    Served(dent.reqs, Len(dent.reqs), o.dent.reqs, o.granted, {}, oom)
  <1> DEFINE o == ClearPidFromDentry(pid, oom)
             D == {i \in DOMAIN dent.reqs : OfPid(dent.reqs[i].lock, pid)}
             rest == Remaining(dent.reqs, D)
             locks0 == WithoutPid(dent.locks, pid)
             s == ProcessRequests(locks0, rest, oom)
             None == (\A i \in DOMAIN dent.reqs : ~OfPid(dent.reqs[i].lock, pid)) /\ OneEach(dent.reqs)
  <1>1. PICK fam \in Families : DentOf(fam, dent)
    BY DEF GoodDent
  <1>2. dent.reqs \in Seq(Requests(fam)) /\ ListOf(fam, dent.locks) /\ dent.used \subseteq {fam}
        /\ dent = [locks |-> dent.locks, reqs |-> dent.reqs, used |-> dent.used]
    BY <1>1 DEF DentOf
  <1>3. rest \in Seq(Requests(fam)) /\ IsRest(rest, dent.reqs, D, Len(dent.reqs))
    <2> HIDE DEF D
    <2> QED BY <1>2, WithoutRest
  <1>4. ListOf(fam, locks0)
    BY <1>2, WithoutGood DEF WithoutPid
  <1>5. ASSUME None PROVE Served(dent.reqs, Len(dent.reqs), rest, {}, {}, oom)
    <2>1. D = {} /\ OneEach(dent.reqs)
      BY <1>5
    <2> HIDE DEF D, rest
    <2> QED BY <1>2, <1>3, <2>1, RestServed
  <1>6. dent.used = {} => locks0 = <<>> /\ rest = <<>> /\ dent.locks = <<>> /\ dent.reqs = <<>>
    <2> SUFFICES ASSUME dent = EmptyDent
                 PROVE  locks0 = <<>> /\ rest = <<>> /\ dent.locks = <<>> /\ dent.reqs = <<>>
      BY <1>1 DEF DentOf
    <2>1. dent.locks = <<>> /\ dent.reqs = <<>>
      BY DEF EmptyDent
    <2> HIDE DEF D
    <2> QED BY <2>1, WithoutEmpty DEF WithoutPid
  <1>7. \A i \in DOMAIN rest : \E j \in DOMAIN dent.reqs : rest[i] = dent.reqs[j]
    <2> HIDE DEF rest, D
    <2>1. DOMAIN dent.reqs = 1..Len(dent.reqs)
      BY <1>2
    <2> QED BY <1>3, <2>1 DEF IsRest
  <1>8. o = IF locks0 = dent.locks
            THEN [dent |-> [dent EXCEPT !.reqs = rest], granted |-> {}]
            ELSE Outcome([dent EXCEPT !.locks = s.locks, !.reqs = s.reqs], "OK", s.granted, FALSE)
    BY DEF ClearPidFromDentry
  <1> HIDE DEF o, D, rest, locks0, None
  <1>9. CASE locks0 = dent.locks
    <2> DEFINE d == [locks |-> dent.locks, reqs |-> rest, used |-> dent.used]
    <2>1. o.dent = d /\ o.granted = {}
      BY <1>2, <1>8, <1>9
    <2>2. d.locks = dent.locks /\ d.reqs = rest /\ d.used = dent.used
          /\ d = [locks |-> d.locks, reqs |-> d.reqs, used |-> d.used]
      OBVIOUS
    <2> HIDE DEF d
    <2>3. dent.used = {} => d = EmptyDent
      BY <1>6, <2>2 DEF EmptyDent
    <2>4. DentOf(fam, d)
      BY <1>2, <1>3, <2>2, <2>3 DEF DentOf
    <2>5. AllBlocked(d)
      BY <1>7, <2>2 DEF GoodDent, AllBlocked
    <2>6. GoodDent(o.dent)
      BY <2>1, <2>4, <2>5 DEF GoodDent
    <2>7. None => Served(dent.reqs, Len(dent.reqs), o.dent.reqs, o.granted, {}, oom)
      BY <1>5, <2>1, <2>2
    <2> QED BY <2>6, <2>7 DEF o, None
  <1>10. CASE locks0 # dent.locks
    <2> DEFINE d == [locks |-> s.locks, reqs |-> s.reqs, used |-> {fam}]
    <2>1. dent.used = {fam}
      BY <1>2, <1>6, <1>10
    <2>2. [dent EXCEPT !.locks = s.locks, !.reqs = s.reqs] = d
      <3> HIDE DEF s
      <3>1. dent = [locks |-> dent.locks, reqs |-> dent.reqs, used |-> {fam}]
        BY <1>2, <2>1
      <3> DEFINE e == [dent EXCEPT !.locks = s.locks]
      <3>2. e = [locks |-> s.locks, reqs |-> dent.reqs, used |-> {fam}]
        BY <3>1
      <3>3. [e EXCEPT !.reqs = s.reqs] = d
        <4> HIDE DEF e
        <4> QED BY <3>2
      <3> QED BY <3>3
    <2>3. o.dent = Gc(d) /\ o.granted = s.granted
      BY <1>8, <1>10, <2>2 DEF Outcome
    <2>4. /\ DentOf(fam, Gc(d)) /\ AllBlocked(Gc(d))
          /\ OneEach(rest) => Served(rest, Len(rest), Gc(d).reqs, s.granted, {}, oom)
      BY <1>3, <1>4, ChangeGood
    <2> HIDE DEF d, s
    <2>5. GoodDent(o.dent)
      BY <2>3, <2>4 DEF GoodDent
    <2>6. ASSUME None PROVE Served(dent.reqs, Len(dent.reqs), o.dent.reqs, o.granted, {}, oom)
      <3>1. Served(dent.reqs, Len(dent.reqs), rest, {}, {}, oom)
        BY <1>5, <2>6
      <3>2. OneEach(rest)
        BY <3>1 DEF Served
      <3>3. Served(rest, Len(rest), o.dent.reqs, o.granted, {}, oom)
        BY <2>3, <2>4, <3>2
      <3>4. Len(rest) \in Nat /\ DOMAIN rest = 1..Len(rest)
        BY <1>3
      <3> QED BY <3>1, <3>3, <3>4, ServedTwice
    <2> QED BY <2>5, <2>6 DEF o, None
  <1> QED BY <1>9, <1>10

-----------------------------------------------------------------------------
(* What is locked, and who is blocked                                      *)

(* l is a lock that thread t may ask for. *)
IsOwn(t, l) == \E fam \in Families, type \in LockTypes, r \in Ranges :
    /\ l = OwnLock(ProcOf[t], fam, type, r)
    /\ type # "UNLCK" => \E a \in scenario.asks[t] : a.family = fam

OpsOwn == /\ op = [t \in Threads |-> op[t]]
          /\ \A t \in Threads : op[t].kind = "SET" => IsOwn(t, op[t].lock)

LockInv == scenario \in Scenarios /\ GoodDent(dent) /\ OpsOwn

(* Such a lock, of either family. *)
LEMMA OwnFields ==
    ASSUME NEW t \in Threads, NEW fam \in Families, NEW type \in LockTypes, NEW r \in Ranges
    PROVE  LET l == OwnLock(ProcOf[t], fam, type, r)
           IN /\ l \in AskedOf(fam) /\ l.family = fam /\ l.type = type
              /\ l.owner = IF fam = "POSIX" THEN ProcOf[t] ELSE HandleOf[ProcOf[t]]
  <1>1. ProcOf[t] \in Pids
    BY ProcsAssumption
  <1>2. r[1] \in 0..FS_LOCK_EOF /\ r[2] \in 0..FS_LOCK_EOF /\ r[1] <= r[2]
    BY DEF Ranges
  <1>3. CASE fam = "POSIX"
    <2> DEFINE l == FileLock("POSIX", type, r[1], r[2], ProcOf[t])
    <2>1. l \in AskedLocks /\ l.start = r[1] /\ l.end = r[2] /\ l.family = "POSIX" /\ l.type = type
          /\ l.owner = ProcOf[t]
      BY <1>1, <1>2 DEF FileLock, AskedLocks
    <2>2. OwnLock(ProcOf[t], fam, type, r) = l
      BY <1>3 DEF OwnLock
    <2> HIDE DEF l
    <2> QED BY <1>2, <1>3, <2>1, <2>2 DEF AskedOf
  <1>4. CASE fam = "FLOCK"
    <2> DEFINE l == FileLock("FLOCK", type, 0, 0, HandleOf[ProcOf[t]])
    <2>1. l \in FlockAsked /\ l.family = "FLOCK" /\ l.type = type /\ l.owner = HandleOf[ProcOf[t]]
      BY <1>1 DEF FileLock, FlockAsked, Handles
    <2>2. OwnLock(ProcOf[t], fam, type, r) = l
      BY <1>4 DEF OwnLock
    <2> HIDE DEF l
    <2> QED BY <1>4, <2>1, <2>2 DEF AskedOf
  <1> QED BY <1>3, <1>4 DEF Families

(* A lock that a thread may ask for is of either family, and its own. *)
LEMMA IsOwnFields ==
    ASSUME NEW t \in Threads, NEW l, IsOwn(t, l)
    PROVE  /\ \E g \in Families : l \in AskedOf(g)
           /\ l.family \in Families
           /\ l.type # "UNLCK" => \E a \in scenario.asks[t] : a.family = l.family
           /\ l.owner = IF l.family = "POSIX" THEN ProcOf[t] ELSE HandleOf[ProcOf[t]]
  <1>1. PICK fam \in Families, type \in LockTypes, r \in Ranges :
          /\ l = OwnLock(ProcOf[t], fam, type, r)
          /\ type # "UNLCK" => \E a \in scenario.asks[t] : a.family = fam
    BY DEF IsOwn
  <1> QED BY <1>1, OwnFields

(* The locks that fcntl and flock ask for, and those that close drops. *)
LEMMA AsksOwn ==
    ASSUME scenario \in Scenarios, NEW t \in Threads, NEW a \in scenario.asks[t]
    PROVE  /\ IsOwn(t, OwnLock(ProcOf[t], a.family, a.type, a.range))
           /\ IsOwn(t, OwnLock(ProcOf[t], a.family, "UNLCK", a.range))
           /\ IsOwn(t, OwnLock(ProcOf[t], a.family, "UNLCK", <<0, FS_LOCK_EOF>>))
  <1>1. a \in AllAsks
    BY ProcsAssumption
  <1>2. a.family \in Families /\ a.type \in LockTypes /\ a.range \in Ranges
    BY <1>1 DEF AllAsks, Asks, Families, LockTypes
  <1>3. "UNLCK" \in LockTypes
    BY DEF LockTypes
  <1>4. <<0, FS_LOCK_EOF>> \in Ranges
    BY EofAssumption DEF Ranges
  <1> QED BY <1>2, <1>3, <1>4 DEF IsOwn

(* So is what detach_all_fds unlocks. *)
LEMMA UnlockAllOwn == \A t \in Threads : IsOwn(t, UnlockAll(ProcOf[t], "FLOCK"))
  <1>1. "UNLCK" \in LockTypes /\ "FLOCK" \in Families
    BY DEF LockTypes, Families
  <1>2. <<0, FS_LOCK_EOF>> \in Ranges
    BY EofAssumption DEF Ranges
  <1> QED BY <1>1, <1>2 DEF IsOwn, UnlockAll

(* The request that was added stands first. *)
LEMMA QueuedFirst ==
    ASSUME NEW fam \in Families, dent.reqs \in Seq(Requests(fam)),
           NEW r, NEW q, q = <<r>> \o dent.reqs
    PROVE  /\ 1 \in DOMAIN q /\ q[1] = r
           /\ \A i \in DOMAIN q : i # 1 => i-1 \in DOMAIN dent.reqs /\ q[i] = dent.reqs[i-1]
           /\ \A i \in DOMAIN dent.reqs : i+1 \in DOMAIN q /\ i+1 # 1 /\ q[i+1] = dent.reqs[i]
  <1> DEFINE T == Requests(fam) \cup {r}
  <1>1. dent.reqs \in Seq(T) /\ <<r>> \in Seq(T) /\ Len(dent.reqs) \in Nat
        /\ Len(<<r>>) = 1 /\ <<r>>[1] = r /\ DOMAIN dent.reqs = 1..Len(dent.reqs)
    OBVIOUS
  <1> HIDE DEF T
  <1>2. /\ q \in Seq(T) /\ Len(q) = 1 + Len(dent.reqs) /\ DOMAIN q = 1..Len(q)
        /\ \A i \in 1..Len(q) : q[i] = IF i <= 1 THEN <<r>>[i] ELSE dent.reqs[i-1]
    BY <1>1, ConcatProperties
  <1> QED BY <1>1, <1>2

(* file_lock_set. *)
LEMMA SetKeeps ==
    ASSUME LockInv, scenario' = scenario, NEW t \in Threads, NEW l, IsOwn(t, l), NEW wait,
           RemoteSet(t, l, wait) \/ LeaderSet(t, l, wait)
    PROVE  LockInv'
  <1>1. GoodDent(dent) /\ OpsOwn /\ scenario' \in Scenarios
    BY DEF LockInv
  <1>2. OpsOwn'
    <2>1. op' = [op EXCEPT ![t] = [kind |-> "SET", lock |-> l, wait |-> wait]]
      BY DEF RemoteSet, LeaderSet
    <2>2. /\ op' = [x \in Threads |-> op'[x]]
          /\ \A x \in Threads : x # t => op'[x] = op[x]
          /\ op'[t].kind = "SET" /\ op'[t].lock = l
      BY <1>1, <2>1 DEF OpsOwn
    <2> QED BY <1>1, <2>2 DEF OpsOwn, IsOwn
  <1>3. CASE RemoteSet(t, l, wait)
    BY <1>1, <1>2, <1>3 DEF RemoteSet, LockInv
  <1>4. CASE LeaderSet(t, l, wait)
    <2>1. PICK o \in SetOrAddRequest(t, l, wait) :
             \/ dent' = o.dent
             \/ o.queued /\ dent' = SetNotify(o.dent, 1)
      BY <1>4 DEF LeaderSet
    <2>2. PICK g \in Families : l \in AskedOf(g)
      BY IsOwnFields
    <2>3. SetDone(t, l, o)
      BY <1>1, <2>2, SetOrAddRequestDone
    <2>4. GoodDent(o.dent)
      BY <2>3 DEF SetDone
    <2>5. o.queued => 1 \in DOMAIN o.dent.reqs
      BY <1>1, <2>3, QueuedFirst DEF SetDone, GoodDent, DentOf
    <2>6. GoodDent(dent')
      BY <2>1, <2>4, <2>5, SetNotifyGood
    <2> QED BY <1>1, <1>2, <2>6 DEF LockInv
  <1> QED BY <1>3, <1>4

(* A step that neither changes the object nor adds an operation. *)
LEMMA OpEnds ==
    ASSUME LockInv, scenario' = scenario, dent' = dent, NEW t \in Threads, NEW v, v.kind # "SET",
           op' = [op EXCEPT ![t] = v] \/ op' = op
    PROVE  LockInv'
  <1>1. GoodDent(dent) /\ OpsOwn /\ scenario' \in Scenarios
    BY DEF LockInv
  <1>2. OpsOwn'
    BY <1>1 DEF OpsOwn, IsOwn
  <1> QED BY <1>1, <1>2 DEF LockInv

(* What the leader's IPC worker does. *)
LEMMA WorkerKeeps ==
    ASSUME LockInv, scenario' = scenario, NEW t \in Threads, WorkerHandles(t)
    PROVE  LockInv'
  <1>1. GoodDent(dent) /\ OpsOwn /\ scenario' \in Scenarios /\ op' = op
    BY DEF LockInv, WorkerHandles
  <1>2. OpsOwn'
    BY <1>1 DEF OpsOwn, IsOwn
  <1>3. CASE SetFromIpc(t)
    <2>1. op[t].kind = "SET"
      BY <1>3 DEF SetFromIpc
    <2>2. CASE dent' = dent
      BY <1>1, <1>2, <2>2 DEF LockInv
    <2>3. CASE \E o \in SetOrAddRequest(t, op[t].lock, op[t].wait) : dent' = o.dent
      <3>1. PICK o \in SetOrAddRequest(t, op[t].lock, op[t].wait) : dent' = o.dent
        BY <2>3
      <3>2. PICK g \in Families : op[t].lock \in AskedOf(g)
        BY <1>1, <2>1, IsOwnFields DEF OpsOwn
      <3>3. SetDone(t, op[t].lock, o)
        BY <1>1, <3>2, SetOrAddRequestDone
      <3> QED BY <1>1, <1>2, <3>1, <3>3 DEF SetDone, LockInv
    <2> QED BY <1>3, <2>2, <2>3 DEF SetFromIpc
  <1>4. CASE ClearPidFromIpc(t)
    <2>1. PICK oom \in OutOfMemory : dent' = ClearPidFromDentry(ProcOf[t], oom).dent
      BY <1>4 DEF ClearPidFromIpc
    <2>2. GoodDent(dent')
      BY <1>1, <2>1, ClearDone
    <2> QED BY <1>1, <1>2, <2>2 DEF LockInv
  <1> QED BY <1>3, <1>4 DEF WorkerHandles

(* Every step keeps the invariant. *)
LEMMA LockInvStep == LockInv /\ [Next]_<<vars, scenario>> => LockInv'
  <1> SUFFICES ASSUME LockInv, [Next]_<<vars, scenario>> PROVE LockInv'
    OBVIOUS
  <1>1. CASE UNCHANGED <<vars, scenario>>
    BY <1>1 DEF LockInv, OpsOwn, IsOwn, vars
  <1>2. CASE Next
    <2>1. scenario' = scenario /\ scenario \in Scenarios
      BY <1>2 DEF Next, LockInv
    <2>2. NoOp.kind # "SET" /\ [kind |-> "CLEAR"].kind # "SET"
      BY DEF NoOp
    <2>3. ASSUME NEW t \in Threads, UserLock(t) PROVE LockInv'
      <3>1. PICK a \in scenario.asks[t] : Set(t, OwnLock(ProcOf[t], a.family, a.type, a.range), a.wait)
        BY <2>3 DEF UserLock
      <3>2. IsOwn(t, OwnLock(ProcOf[t], a.family, a.type, a.range))
        BY <2>1, AsksOwn
      <3> QED BY <2>1, <3>1, <3>2, SetKeeps DEF Set
    <2>4. ASSUME NEW t \in Threads, UserUnlock(t) PROVE LockInv'
      <3>0. PICK a \in scenario.asks[t] : \E r \in {a.range, <<0, FS_LOCK_EOF>>} :
               Set(t, OwnLock(ProcOf[t], a.family, "UNLCK", r), FALSE)
        BY <2>4 DEF UserUnlock
      <3>1. PICK r \in {a.range, <<0, FS_LOCK_EOF>>} :
               Set(t, OwnLock(ProcOf[t], a.family, "UNLCK", r), FALSE)
        BY <3>0
      <3>2. IsOwn(t, OwnLock(ProcOf[t], a.family, "UNLCK", r))
        BY <2>1, AsksOwn
      <3> QED BY <2>1, <3>1, <3>2, SetKeeps DEF Set
    <2>5. ASSUME NEW t \in Threads, Return(t) PROVE LockInv'
      BY <2>1, <2>2, <2>5, OpEnds DEF Return
    <2>6. ASSUME NEW t \in Threads, Exit(t) PROVE LockInv'
      BY <2>1, <2>2, <2>6, OpEnds DEF Exit
    <2>7. ASSUME NEW t \in Threads, DetachAllFds(t) PROVE LockInv'
      <3>1. CASE RemoteSet(t, UnlockAll(ProcOf[t], "FLOCK"), FALSE)
        BY <2>1, <3>1, UnlockAllOwn, SetKeeps
      <3>2. CASE op' = [op EXCEPT ![t] = NoOp] /\ dent' = dent
        BY <2>1, <2>2, <3>2, OpEnds
      <3> QED BY <2>7, <3>1, <3>2 DEF DetachAllFds
    <2>8. ASSUME NEW t \in Threads, WorkerHandles(t) PROVE LockInv'
      BY <2>1, <2>8, WorkerKeeps
    <2>9. CASE WriteNotify
      <3>1. PICK i \in DOMAIN dent.reqs : dent' = SetNotify(dent, i)
        BY <2>9 DEF WriteNotify
      <3>2. GoodDent(dent')
        BY <3>1, SetNotifyGood DEF LockInv
      <3> QED BY <2>1, <2>9, <3>2 DEF WriteNotify, LockInv, OpsOwn, IsOwn
    <2>10. ASSUME NEW p \in Pids, Kill(p) PROVE LockInv'
      BY <2>1, <2>10 DEF Kill, LockInv, OpsOwn, IsOwn
    <2> QED BY <1>2, <2>3, <2>4, <2>5, <2>6, <2>7, <2>8, <2>9, <2>10 DEF Next, ThreadStep
  <1> QED BY <1>1, <1>2

(* It holds in the beginning. *)
LEMMA LockInvInit == Init => LockInv
  <1> SUFFICES ASSUME Init PROVE LockInv
    OBVIOUS
  <1>1. GoodDent(dent)
    <2>1. dent = EmptyDent /\ "POSIX" \in Families
      BY DEF Init, Families
    <2>2. DOMAIN EmptyDent.reqs = {}
      BY DEF EmptyDent
    <2> QED BY <2>1, <2>2, EmptyDentOf DEF GoodDent, AllBlocked
  <1>2. OpsOwn
    BY DEF Init, OpsOwn, NoOp
  <1> QED BY <1>1, <1>2 DEF Init, LockInv

(* Two locks of a list never conflict. *)
LEMMA NoTwoInList ==
    ASSUME NEW fam \in Families, NEW s, ListOf(fam, s), NEW i \in DOMAIN s, NEW j \in DOMAIN s, i # j
    PROVE  ~Conflict(s[i], s[j]) /\ s[i].family = s[j].family
  <1> DEFINE l == s[i]
             m == s[j]
  <1>1. CASE fam = "FLOCK"
    <2>1. s \in Seq(FlockHeld) /\ FlockList(s)
      BY <1>1 DEF ListOf, FlockList
    <2>2. l \in FlockHeld /\ m \in FlockHeld
      BY <2>1
    <2>3. l.type = "RDLCK" /\ m.type = "RDLCK"
      BY <2>1 DEF FlockList
    <2>4. l.family = "FLOCK" /\ m.family = "FLOCK"
      BY <2>2 DEF FlockHeld
    <2> QED BY <2>3, <2>4 DEF Conflict
  <1>2. CASE fam = "POSIX"
    <2> DEFINE x == IF l.start <= m.start THEN m.start ELSE l.start
    <2>1. GoodList(s) /\ Compatible(s)
      BY <1>2 DEF ListOf, PosixList
    <2>2. l \in HeldLocks /\ m \in HeldLocks /\ l.start <= l.end /\ m.start <= m.end
      BY <2>1, GoodElement
    <2>3. /\ l.start \in Int /\ l.end \in Int /\ m.start \in Int /\ m.end \in Int
          /\ l.start \in 0..FS_LOCK_EOF /\ m.start \in 0..FS_LOCK_EOF
          /\ l.owner \in Pids /\ m.owner \in Pids /\ l.family = "POSIX" /\ m.family = "POSIX"
          /\ l.type \in {"RDLCK", "WRLCK"} /\ m.type \in {"RDLCK", "WRLCK"}
      BY <2>2, HeldFields
    <2> SUFFICES ASSUME Conflict(l, m) PROVE FALSE
      BY <2>3
    <2>4. /\ l.owner # m.owner /\ l.start <= m.end /\ m.start <= l.end
          /\ l.type = "WRLCK" \/ m.type = "WRLCK"
      BY <2>3 DEF Conflict, Overlap
    <2> HIDE DEF l, m
    <2>5. /\ x \in 0..FS_LOCK_EOF
          /\ l.start <= x /\ x <= l.end /\ m.start <= x /\ x <= m.end
      BY <2>2, <2>3, <2>4
    <2> HIDE DEF x
    <2>6. Holds(s, l.owner, x, l.type) /\ Holds(s, m.owner, x, m.type)
      BY <2>5 DEF Holds, Covers, l, m
    <2>7. l.type \in LockTypes /\ m.type \in LockTypes
      BY <2>3 DEF LockTypes
    <2> QED BY <2>1, <2>3, <2>4, <2>5, <2>6, <2>7 DEF Compatible
  <1> QED BY <1>1, <1>2 DEF Families

(* The locks that file_lock_set has given out never contradict each other, *)
(* whatever the processes ask for, however they end, and whatever fails.   *)
THEOREM NoConflictHolds == Spec => []NoConflict
  <1>1. LockInv => NoConflict
    <2> SUFFICES ASSUME LockInv PROVE NoConflict
      OBVIOUS
    <2>1. PICK fam \in Families : ListOf(fam, dent.locks)
      BY DEF LockInv, GoodDent, DentOf
    <2> QED BY <2>1, NoTwoInList DEF NoConflict
  <1> QED BY <1>1, LockInvInit, LockInvStep, PTL DEF Spec

(* file_lock_process_requests is called whenever it is needed, and repeats *)
(* its pass often enough: no request is left that nothing blocks.          *)
THEOREM BlockedForReasonHolds == Spec => []BlockedForReason
  <1>1. LockInv => BlockedForReason
    BY DEF LockInv, GoodDent, AllBlocked, BlockedForReason
  <1> QED BY <1>1, LockInvInit, LockInvStep, PTL DEF Spec

-----------------------------------------------------------------------------
(* Who waits                                                               *)

(* A thread waits exactly while a request of its is in the list. *)
WaitersAsk == \A t \in Threads :
    phase[t] = "waiting" <=> \E i \in DOMAIN dent.reqs : dent.reqs[i].thread = t /\ Live(dent.reqs[i])

(* A request is for the lock that its thread asked for, and has its notify *)
(* part unless the IPC worker is about to write it.                        *)
TrueRequest(r) ==
    /\ IsOwn(r.thread, r.lock)
    /\ Live(r) => r.lock = op[r.thread].lock /\ (r.notify <=> worker # r.thread)

RequestsTrue == \A i \in DOMAIN dent.reqs : TrueRequest(dent.reqs[i])

WorkerWaits == worker = NoThread \/ (worker \in Threads /\ ProcOf[worker] # Leader /\ phase[worker] = "waiting")

CallsRemote == \A t \in Threads : phase[t] = "called" => ProcOf[t] # Leader

(* While the last thread of a process clears its locks, no other runs. *)
Alone(t) == /\ proc[ProcOf[t]] # "running" /\ ProcOf[t] # Leader
            /\ \A x \in Threads : ProcOf[x] = ProcOf[t] /\ x # t => phase[x] = "idle"

ClearAlone == \A t \in Threads : op[t].kind = "CLEAR" => Alone(t)

Functions == phase = [t \in Threads |-> phase[t]] /\ proc = [p \in Pids |-> proc[p]]

Waiting == /\ Functions /\ OneEach(dent.reqs) /\ WaitersAsk /\ RequestsTrue
           /\ WorkerWaits /\ CallsRemote /\ ClearAlone

(* After undefined behaviour nothing is claimed. *)
WaitInv == LockInv /\ (leader = "up" => Waiting)

Lucky(x, granted) == \E g \in granted : g.notify /\ g.thread = x

(* Only threads of the leader leave requests behind. *)
LEMMA LooseLeader ==
    ASSUME NEW t \in Threads
    PROVE  t \in Loose => ProcOf[t] = Leader
  BY DEF Loose

(* Thread t does something, and requests of others may be granted. *)
LEMMA Serve ==
    ASSUME LockInv, LockInv', Waiting, scenario' = scenario, worker' = worker,
           NEW t \in Threads, phase[t] # "waiting", NEW v, v # "waiting", v = "called" => ProcOf[t] # Leader,
           NEW granted, \A g \in granted : g.notify,
           phase' = [x \in Threads |-> IF x = t THEN v ELSE IF Lucky(x, granted) THEN "answered" ELSE phase[x]],
           NEW oom, Served(dent.reqs, Len(dent.reqs), dent'.reqs, granted, {}, oom),
           \A x \in Threads : x # t => op'[x] = op[x],
           proc' = [p \in Pids |-> proc'[p]], \A p \in Pids : proc'[p] = "running" => proc[p] = "running",
           proc[ProcOf[t]] = "running" \/ phase[t] # "idle",
           op'[t].kind = "CLEAR" => op[t].kind = "CLEAR" \/ Alone(t)'
    PROVE  Waiting'
  <1> DEFINE p == dent.reqs
             q == dent'.reqs
  <1>1. PICK fam \in Families : p \in Seq(Requests(fam))
    BY DEF LockInv, GoodDent, DentOf
  <1>2. PICK fam2 \in Families : q \in Seq(Requests(fam2))
    BY DEF LockInv, GoodDent, DentOf
  <1>3. DOMAIN p = 1..Len(p)
    BY <1>1
  <1>4. \A i \in DOMAIN q : q[i].thread \in Threads
    <2>1. \A i \in DOMAIN q : q[i] \in Requests(fam2)
      BY <1>2
    <2> QED BY <2>1 DEF Requests
  <1>5. Loose' = Loose
    BY DEF Loose
  <1>6. \A r : Told(r, oom).thread = r.thread /\ Told(r, oom).notify = r.notify
    BY DEF Told
  <1> HIDE DEF p, q
  <1>7. /\ \A i \in DOMAIN q : \E k \in DOMAIN p : q[i] = p[k]
        /\ \A k \in DOMAIN p : (\E i \in DOMAIN q : q[i] = p[k]) \/ Told(p[k], oom) \in granted
        /\ \A g \in granted : \E k \in DOMAIN p :
              g = Told(p[k], oom) /\ \A i \in DOMAIN q : Apart(q[i], p[k])
        /\ OneEach(q)
    BY <1>3 DEF Served, p, q
  <1>8. /\ WaitersAsk /\ RequestsTrue /\ WorkerWaits /\ CallsRemote /\ ClearAlone /\ Functions
    BY DEF Waiting
  <1>9. ASSUME NEW x \in Threads, x # t
        PROVE  /\ Lucky(x, granted) => \A i \in DOMAIN q : q[i].thread = x => ~Live(q[i])
               /\ Lucky(x, granted) => phase[x] = "waiting" /\ x # worker
               /\ phase[x] = "waiting" /\ ~Lucky(x, granted) => \E i \in DOMAIN q : q[i].thread = x /\ Live(q[i])
    <2>1. ASSUME Lucky(x, granted)
          PROVE  (\A i \in DOMAIN q : q[i].thread = x => ~Live(q[i])) /\ phase[x] = "waiting" /\ x # worker
      <3>1. PICK g \in granted : g.notify /\ g.thread = x
        BY <2>1 DEF Lucky
      <3>2. PICK k \in DOMAIN p : g = Told(p[k], oom) /\ \A i \in DOMAIN q : Apart(q[i], p[k])
        BY <1>7
      <3>3. p[k].thread = x /\ p[k].notify
        BY <1>6, <3>1, <3>2
      <3>4. Live(p[k])
        BY <3>3 DEF Live
      <3>5. \A i \in DOMAIN q : q[i].thread = x => ~Live(q[i])
        BY <3>2, <3>3, <3>4 DEF Apart
      <3>6. phase[x] = "waiting"
        BY <1>8, <3>3, <3>4 DEF WaitersAsk, p
      <3>7. x # worker
        BY <1>8, <3>3, <3>4 DEF RequestsTrue, TrueRequest, p
      <3> QED BY <3>5, <3>6, <3>7
    <2>2. ASSUME phase[x] = "waiting", ~Lucky(x, granted)
          PROVE  \E i \in DOMAIN q : q[i].thread = x /\ Live(q[i])
      <3>1. PICK k \in DOMAIN p : p[k].thread = x /\ Live(p[k])
        BY <1>8, <2>2 DEF WaitersAsk, p
      <3>2. Told(p[k], oom) \notin granted
        BY <1>6, <2>2, <3>1 DEF Lucky
      <3>3. PICK i \in DOMAIN q : q[i] = p[k]
        BY <1>7, <3>2
      <3> QED BY <3>1, <3>3
    <2> QED BY <2>1, <2>2
  <1>10. \A i \in DOMAIN q : q[i].thread = t => ~Live(q[i])
    <2>1. \A k \in DOMAIN p : p[k].thread = t => ~Live(p[k])
      BY <1>8 DEF WaitersAsk, p
    <2> QED BY <1>7, <2>1
  <1>11. WaitersAsk'
    <2> SUFFICES ASSUME NEW x \in Threads
                 PROVE  phase'[x] = "waiting" <=> \E i \in DOMAIN q : q[i].thread = x /\ Live(q[i])
      BY <1>5 DEF WaitersAsk, Live, q
    <2>1. CASE x = t
      BY <1>10, <2>1
    <2>2. CASE x # t
      <3>1. CASE Lucky(x, granted)
        BY <1>9, <2>2, <3>1
      <3>2. CASE ~Lucky(x, granted)
        <4>1. phase'[x] = phase[x]
          BY <2>2, <3>2
        <4>2. ASSUME NEW i \in DOMAIN q, q[i].thread = x, Live(q[i]) PROVE phase[x] = "waiting"
          <5>1. PICK k \in DOMAIN p : q[i] = p[k]
            BY <1>7
          <5>2. p[k].thread = x /\ Live(p[k])
            BY <4>2, <5>1
          <5> QED BY <1>8, <5>2 DEF WaitersAsk, p
        <4> QED BY <1>9, <2>2, <3>2, <4>1, <4>2
      <3> QED BY <3>1, <3>2
    <2> QED BY <2>1, <2>2
  <1>12. RequestsTrue'
    <2> SUFFICES ASSUME NEW i \in DOMAIN q, NEW r, r = q[i] PROVE TrueRequest(r)'
      BY DEF RequestsTrue, TrueRequest, IsOwn, Live, q
    <2>1. PICK k \in DOMAIN p : r = p[k]
      BY <1>7
    <2>2. TrueRequest(r)
      BY <1>8, <2>1 DEF RequestsTrue, p
    <2>3. Live(r) => r.thread # t
      BY <1>10
    <2>4. r.thread \in Threads
      BY <1>4
    <2> QED BY <1>5, <2>2, <2>3, <2>4 DEF TrueRequest, IsOwn, Live
  <1>13. WorkerWaits'
    <2> SUFFICES ASSUME worker # NoThread PROVE WorkerWaits'
      BY DEF WorkerWaits
    <2>1. worker \in Threads /\ ProcOf[worker] # Leader /\ phase[worker] = "waiting" /\ worker # t
      BY <1>8 DEF WorkerWaits
    <2>2. ~Lucky(worker, granted)
      BY <1>9, <2>1
    <2> QED BY <2>1, <2>2 DEF WorkerWaits
  <1>14. CallsRemote'
    BY <1>8 DEF CallsRemote
  <1>15. ClearAlone'
    <2> SUFFICES ASSUME NEW x \in Threads, op'[x].kind = "CLEAR" PROVE Alone(x)'
      BY DEF ClearAlone
    <2>1. CASE op[x].kind = "CLEAR"
      <3>1. Alone(x)
        BY <1>8, <2>1 DEF ClearAlone
      <3>2. ProcOf[x] \in Pids
        BY ProcsAssumption
      <3>3. proc'[ProcOf[x]] # "running" /\ ProcOf[x] # Leader
        BY <3>1, <3>2 DEF Alone
      <3>4. ASSUME NEW y \in Threads, ProcOf[y] = ProcOf[x], y # x PROVE phase'[y] = "idle"
        <4>1. phase[y] = "idle"
          BY <3>1, <3>4 DEF Alone
        <4>2. y # t
          BY <3>1, <3>4, <4>1 DEF Alone
        <4>3. ~Lucky(y, granted)
          BY <1>9, <4>1, <4>2
        <4> QED BY <4>1, <4>2, <4>3
      <3> QED BY <3>3, <3>4 DEF Alone
    <2>2. CASE op[x].kind # "CLEAR"
      BY <2>2
    <2> QED BY <2>1, <2>2
  <1>16. Functions'
    BY DEF Functions
  <1>17. OneEach(dent.reqs)'
    BY <1>5, <1>7 DEF OneEach, Apart, Live, q
  <1> QED BY <1>11, <1>12, <1>13, <1>14, <1>15, <1>16, <1>17 DEF Waiting

(* Thread t does something, and no request is added or granted. *)
LEMMA ServeNobody ==
    ASSUME LockInv, LockInv', Waiting, scenario' = scenario, worker' = worker, dent' = dent,
           NEW t \in Threads, phase[t] # "waiting", NEW v, v # "waiting", v = "called" => ProcOf[t] # Leader,
           phase' = [phase EXCEPT ![t] = v],
           \A x \in Threads : x # t => op'[x] = op[x],
           proc' = [p \in Pids |-> proc'[p]], \A p \in Pids : proc'[p] = "running" => proc[p] = "running",
           proc[ProcOf[t]] = "running" \/ phase[t] # "idle",
           op'[t].kind = "CLEAR" => op[t].kind = "CLEAR" \/ Alone(t)'
    PROVE  Waiting'
  <1>1. Functions /\ OneEach(dent.reqs)
    BY DEF Waiting
  <1>2. phase' = [x \in Threads |-> IF x = t THEN v ELSE IF Lucky(x, {}) THEN "answered" ELSE phase[x]]
    <2>1. \A x : ~Lucky(x, {})
      BY DEF Lucky
    <2>2. phase' = [x \in Threads |-> IF x = t THEN v ELSE phase[x]]
      BY <1>1 DEF Functions
    <2> QED BY <2>1, <2>2
  <1>3. Served(dent.reqs, Len(dent.reqs), dent'.reqs, {}, {}, {})
    BY <1>1, ServedNone DEF LockInv, GoodDent, DentOf
  <1> QED BY <1>2, <1>3, Serve

(* The threads that Answer sets to answered. *)
LEMMA AnswerPhase ==
    ASSUME NEW t \in Threads, NEW ret, NEW granted, Answer(t, ret, granted)
    PROVE  phase' = [x \in Threads |-> IF x = t THEN "answered"
                                       ELSE IF Lucky(x, granted) THEN "answered" ELSE phase[x]]
  <1>1. \A x : x \in {g.thread : g \in {h \in granted : h.notify}} <=> Lucky(x, granted)
    BY DEF Lucky
  <1>2. phase' = [x \in Threads |->
                    IF x = t \/ x \in {g.thread : g \in {h \in granted : h.notify}} THEN "answered" ELSE phase[x]]
    BY DEF Answer
  <1> QED BY <1>1, <1>2

(* A request of thread t is added. *)
LEMMA Queue ==
    ASSUME LockInv, LockInv', Waiting, scenario' = scenario, proc' = proc,
           NEW t \in Threads, phase[t] # "waiting", 1 \in DOMAIN dent'.reqs,
           dent'.reqs[1].thread = t, IsOwn(t, dent'.reqs[1].lock),
           \A i \in DOMAIN dent'.reqs : i # 1 => i-1 \in DOMAIN dent.reqs /\ dent'.reqs[i] = dent.reqs[i-1],
           \A i \in DOMAIN dent.reqs : i+1 \in DOMAIN dent'.reqs /\ i+1 # 1 /\ dent'.reqs[i+1] = dent.reqs[i],
           phase' = [phase EXCEPT ![t] = phase'[t]], phase'[t] # "called",
           \/ ~Live(dent'.reqs[1]) /\ phase'[t] # "waiting"
           \/ /\ Live(dent'.reqs[1]) /\ phase'[t] = "waiting" /\ op'[t].lock = dent'.reqs[1].lock
              /\ dent'.reqs[1].notify <=> worker' # t,
           \/ worker' = worker
           \/ worker = NoThread /\ worker' = t /\ ProcOf[t] # Leader /\ phase'[t] = "waiting",
           \A x \in Threads : x # t => op'[x] = op[x], op'[t].kind # "CLEAR",
           proc[ProcOf[t]] = "running" \/ phase[t] # "idle"
    PROVE  Waiting'
  <1> DEFINE p == dent.reqs
             q == dent'.reqs
             r == dent'.reqs[1]
             l == r.lock
             v == phase'[t]
  <1>1. PICK fam \in Families : p \in Seq(Requests(fam))
    BY DEF LockInv, GoodDent, DentOf
  <1>2. PICK fam2 \in Families : q \in Seq(Requests(fam2))
    BY DEF LockInv, GoodDent, DentOf
  <1>3. DOMAIN p = 1..Len(p) /\ DOMAIN q = 1..Len(q) /\ Len(p) \in Nat /\ Len(q) \in Nat
    BY <1>1, <1>2
  <1>4. \A i \in DOMAIN p : p[i].thread \in Threads
    <2>1. \A i \in DOMAIN p : p[i] \in Requests(fam)
      BY <1>1
    <2> QED BY <2>1 DEF Requests
  <1>5. Loose' = Loose
    BY DEF Loose
  <1> HIDE DEF p, q
  <1>6. /\ 1 \in DOMAIN q /\ q[1] = r
        /\ \A i \in DOMAIN q : i # 1 => i-1 \in DOMAIN p /\ q[i] = p[i-1]
        /\ \A i \in DOMAIN p : i+1 \in DOMAIN q /\ i+1 # 1 /\ q[i+1] = p[i]
    BY DEF p, q
  <1>7. /\ WaitersAsk /\ RequestsTrue /\ WorkerWaits /\ CallsRemote /\ ClearAlone /\ Functions
        /\ OneEach(p)
    BY DEF Waiting, p
  <1>8. /\ phase' = [x \in Threads |-> phase'[x]] /\ phase'[t] = v
        /\ \A x \in Threads : x # t => phase'[x] = phase[x]
    BY <1>7 DEF Functions
  <1>9. \A i \in DOMAIN p : p[i].thread = t => ~Live(p[i])
    BY <1>7 DEF WaitersAsk, p
  <1>10. WaitersAsk'
    <2> SUFFICES ASSUME NEW x \in Threads
                 PROVE  phase'[x] = "waiting" <=> \E i \in DOMAIN q : q[i].thread = x /\ Live(q[i])
      BY <1>5 DEF WaitersAsk, Live, q
    <2>0. (\E i \in DOMAIN p : p[i].thread = x /\ Live(p[i])) => \E i \in DOMAIN q : q[i].thread = x /\ Live(q[i])
      BY <1>6
    <2>1. CASE x = t
      <3>1. \A i \in DOMAIN q : i # 1 /\ q[i].thread = t => ~Live(q[i])
        BY <1>6, <1>9
      <3>2. Live(r) <=> phase'[t] = "waiting"
        OBVIOUS
      <3>3. q[1].thread = t
        BY <1>6
      <3> HIDE DEF r
      <3> QED BY <1>6, <2>1, <3>1, <3>2, <3>3
    <2>2. CASE x # t
      <3>1. phase[x] = "waiting" <=> \E i \in DOMAIN p : p[i].thread = x /\ Live(p[i])
        BY <1>7 DEF WaitersAsk, p
      <3>2. (\E i \in DOMAIN q : q[i].thread = x /\ Live(q[i])) => \E i \in DOMAIN p : p[i].thread = x /\ Live(p[i])
        BY <1>6, <2>2
      <3> QED BY <1>8, <2>0, <2>2, <3>1, <3>2
    <2> QED BY <2>1, <2>2
  <1>11. RequestsTrue'
    <2> SUFFICES ASSUME NEW i \in DOMAIN q, NEW s, s = q[i] PROVE TrueRequest(s)'
      BY DEF RequestsTrue, TrueRequest, IsOwn, Live, q
    <2>1. CASE i = 1
      BY <1>5, <1>6, <2>1 DEF TrueRequest, IsOwn, Live
    <2>2. CASE i # 1
      <3>1. i-1 \in DOMAIN p /\ s = p[i-1]
        BY <1>6, <2>2
      <3>2. TrueRequest(s) /\ s.thread \in Threads
        BY <1>4, <1>7, <3>1 DEF RequestsTrue, p
      <3>3. Live(s) => s.thread # t
        BY <1>9, <3>1
      <3>4. s.thread # NoThread
        BY <3>2, ProcsAssumption DEF NoThread
      <3>5. s.thread # t => (worker # s.thread <=> worker' # s.thread)
        BY <3>4
      <3> QED BY <1>5, <3>2, <3>3, <3>5 DEF TrueRequest, IsOwn, Live
    <2> QED BY <2>1, <2>2
  <1>12. WorkerWaits'
    <2>1. CASE worker' = worker
      BY <1>7, <1>8, <2>1 DEF WorkerWaits
    <2>2. CASE worker' = t /\ ProcOf[t] # Leader /\ v = "waiting"
      BY <1>8, <2>2 DEF WorkerWaits
    <2> QED BY <2>1, <2>2
  <1>13. CallsRemote'
    BY <1>7, <1>8 DEF CallsRemote
  <1>14. ClearAlone'
    <2> SUFFICES ASSUME NEW x \in Threads, op'[x].kind = "CLEAR" PROVE Alone(x)'
      BY DEF ClearAlone
    <2>1. x # t /\ Alone(x)
      BY <1>7 DEF ClearAlone
    <2>2. ProcOf[t] # ProcOf[x]
      BY <2>1 DEF Alone
    <2> QED BY <1>8, <2>1, <2>2 DEF Alone
  <1>15. OneEach(dent.reqs)'
    <2>1. OneEach(q)
      <3> SUFFICES ASSUME NEW i \in DOMAIN q, NEW j \in DOMAIN q, i # j PROVE Apart(q[i], q[j])
        BY DEF OneEach
      <3>1. \A k \in DOMAIN p : Apart(p[k], r) /\ Apart(r, p[k])
        BY <1>9 DEF Apart
      <3>2. CASE i = 1
        BY <1>6, <3>1, <3>2
      <3>3. CASE j = 1
        BY <1>6, <3>1, <3>3
      <3>4. CASE i # 1 /\ j # 1
        <4>1. i-1 \in DOMAIN p /\ j-1 \in DOMAIN p /\ i-1 # j-1
          BY <1>3, <1>6, <3>4
        <4> QED BY <1>6, <1>7, <3>4, <4>1 DEF OneEach
      <3> QED BY <3>2, <3>3, <3>4
    <2> QED BY <1>5, <2>1 DEF OneEach, Apart, Live, q
  <1>16. Functions'
    BY <1>7, <1>8 DEF Functions
  <1> QED BY <1>10, <1>11, <1>12, <1>13, <1>14, <1>15, <1>16 DEF Waiting

(* file_lock_set in another process than the leader. *)
LEMMA RemoteWaits ==
    ASSUME LockInv, Waiting, scenario' = scenario, NEW t \in Threads, phase[t] # "waiting",
           NEW l, IsOwn(t, l), NEW wait, RemoteSet(t, l, wait),
           proc' = [p \in Pids |-> proc'[p]], \A p \in Pids : proc'[p] = "running" => proc[p] = "running",
           proc[ProcOf[t]] = "running" \/ phase[t] # "idle"
    PROVE  Waiting'
  <1>1. LockInv'
    BY SetKeeps
  <1>2. dent' = dent /\ worker' = worker /\ ProcOf[t] # Leader
    BY DEF RemoteSet
  <1>3. \A x \in Threads : x # t => op'[x] = op[x]
    BY DEF RemoteSet, LockInv, OpsOwn
  <1>4. op'[t].kind # "CLEAR"
    BY DEF RemoteSet, LockInv, OpsOwn
  <1>5. PICK v \in {"called", "answered"} : phase' = [phase EXCEPT ![t] = v]
    <2>1. CASE phase' = [phase EXCEPT ![t] = "called"]
      BY <2>1
    <2>2. CASE \E ret : Answer(t, ret, {})
      <3>1. phase' = [x \in Threads |-> IF x = t THEN "answered"
                                        ELSE IF Lucky(x, {}) THEN "answered" ELSE phase[x]]
        BY <2>2, AnswerPhase
      <3>2. \A x : ~Lucky(x, {})
        BY DEF Lucky
      <3>3. phase = [x \in Threads |-> phase[x]]
        BY DEF Waiting, Functions
      <3>4. phase' = [phase EXCEPT ![t] = "answered"]
        BY <3>1, <3>2, <3>3
      <3> QED BY <3>4
    <2> QED BY <2>1, <2>2 DEF RemoteSet
  <1> QED BY <1>1, <1>2, <1>3, <1>4, <1>5, ServeNobody

(* A thread gets its answer, and others with it. *)
LEMMA AnswerWaits ==
    ASSUME LockInv, LockInv', Waiting, scenario' = scenario, worker' = worker, proc' = proc,
           NEW t \in Threads, phase[t] # "waiting", NEW ret, NEW granted, ~Undefined(granted),
           Answer(t, ret, granted),
           NEW oom, Served(dent.reqs, Len(dent.reqs), dent'.reqs, granted, {}, oom),
           \A x \in Threads : x # t => op'[x] = op[x],
           op'[t].kind = "CLEAR" => op[t].kind = "CLEAR",
           proc[ProcOf[t]] = "running" \/ phase[t] # "idle"
    PROVE  Waiting'
  <1>1. phase' = [x \in Threads |-> IF x = t THEN "answered"
                                    ELSE IF Lucky(x, granted) THEN "answered" ELSE phase[x]]
    BY AnswerPhase
  <1>2. \A g \in granted : g.notify
    BY DEF Undefined
  <1>3. proc' = [p \in Pids |-> proc'[p]]
    BY DEF Waiting, Functions
  <1> QED BY <1>1, <1>2, <1>3, Serve

(* file_lock_set in the leader. *)
LEMMA LeaderWaits ==
    ASSUME LockInv, Waiting, scenario' = scenario, leader = "up", leader' = "up",
           NEW t \in Threads, phase[t] = "idle", proc[ProcOf[t]] = "running",
           NEW l, IsOwn(t, l), NEW wait, LeaderSet(t, l, wait), proc' = proc
    PROVE  Waiting'
  <1>1. LockInv'
    BY SetKeeps
  <1>2. /\ \A x \in Threads : x # t => op'[x] = op[x]
        /\ op'[t].kind # "CLEAR" /\ op'[t].lock = l
    BY DEF LeaderSet, LockInv, OpsOwn
  <1>3. PICK o \in SetOrAddRequest(t, l, wait) :
          /\ leader' = IF Undefined(o.granted) THEN "undefined" ELSE leader
          /\ \/ ~o.queued /\ dent' = o.dent /\ Answer(t, o.ret, o.granted)
             \/ /\ o.queued /\ dent' = SetNotify(o.dent, 1)
                /\ phase' = [phase EXCEPT ![t] = "waiting"] /\ UNCHANGED result
             \/ /\ o.queued /\ "event" \in scenario.failures /\ NoOrphan
                /\ dent' = o.dent /\ Answer(t, "ENOMEM", {})
    BY DEF LeaderSet
  <1>4. SetDone(t, l, o)
    BY IsOwnFields, SetOrAddRequestDone DEF LockInv
  <1>5. ~Undefined(o.granted) /\ worker' = worker /\ ProcOf[t] = Leader
    BY <1>3 DEF LeaderSet
  <1>6. OneEach(dent.reqs)
    BY DEF Waiting
  <1>7. CASE ~o.queued /\ dent' = o.dent /\ Answer(t, o.ret, o.granted)
    <2>1. PICK oom : Served(dent.reqs, Len(dent.reqs), dent'.reqs, o.granted, {}, oom)
      BY <1>4, <1>6, <1>7 DEF SetDone
    <2> QED BY <1>1, <1>2, <1>5, <1>7, <2>1, AnswerWaits
  <1> DEFINE r == [lock |-> l, thread |-> t, notify |-> FALSE]
             q == o.dent.reqs
  <1>8. r.lock = l /\ r.thread = t /\ r.notify = FALSE
    OBVIOUS
  <1>9. ASSUME o.queued
        PROVE  /\ 1 \in DOMAIN q /\ q[1] = r /\ GoodDent(o.dent)
               /\ \A i \in DOMAIN q : i # 1 => i-1 \in DOMAIN dent.reqs /\ q[i] = dent.reqs[i-1]
               /\ \A i \in DOMAIN dent.reqs : i+1 \in DOMAIN q /\ i+1 # 1 /\ q[i+1] = dent.reqs[i]
    <2>1. q = <<r>> \o dent.reqs /\ GoodDent(o.dent)
      BY <1>4, <1>9 DEF SetDone
    <2>2. PICK fam \in Families : dent.reqs \in Seq(Requests(fam))
      BY DEF LockInv, GoodDent, DentOf
    <2> HIDE DEF r, q
    <2> QED BY <2>1, <2>2, QueuedFirst
  <1> HIDE DEF r
  <1>10. CASE /\ o.queued /\ dent' = SetNotify(o.dent, 1)
              /\ phase' = [phase EXCEPT ![t] = "waiting"]
    <2> DEFINE e == SetNotify(o.dent, 1).reqs
               r1 == e[1]
    <2>1. /\ DOMAIN e = DOMAIN q
          /\ r1.lock = l /\ r1.thread = t /\ r1.notify = TRUE
          /\ \A j \in DOMAIN q : j # 1 => e[j] = q[j]
      <3>1. GoodDent(o.dent) /\ 1 \in DOMAIN o.dent.reqs /\ q[1] = r
        BY <1>9, <1>10
      <3>2. /\ DOMAIN e = DOMAIN q
            /\ \A j \in DOMAIN q : /\ e[j].lock = q[j].lock /\ e[j].thread = q[j].thread
                                   /\ j # 1 => e[j] = q[j]
            /\ e[1].notify = TRUE
        BY <3>1, SetNotifyGood
      <3> HIDE DEF e
      <3> QED BY <1>8, <3>1, <3>2
    <2>4. dent'.reqs = e
      BY <1>10
    <2>2. worker' # t
      <3>1. WorkerWaits
        BY DEF Waiting
      <3>2. t # NoThread
        BY ProcsAssumption DEF NoThread
      <3> QED BY <1>5, <3>1, <3>2 DEF WorkerWaits
    <2> HIDE DEF q, e, r1
    <2>3. /\ 1 \in DOMAIN e /\ e[1] = r1
          /\ \A i \in DOMAIN e : i # 1 => i-1 \in DOMAIN dent.reqs /\ e[i] = dent.reqs[i-1]
          /\ \A i \in DOMAIN dent.reqs : i+1 \in DOMAIN e /\ i+1 # 1 /\ e[i+1] = dent.reqs[i]
      BY <1>9, <1>10, <2>1 DEF r1
    <2>5. /\ 1 \in DOMAIN dent'.reqs /\ dent'.reqs[1] = r1
          /\ \A i \in DOMAIN dent'.reqs : i # 1 => i-1 \in DOMAIN dent.reqs /\ dent'.reqs[i] = dent.reqs[i-1]
          /\ \A i \in DOMAIN dent.reqs : i+1 \in DOMAIN dent'.reqs /\ i+1 # 1 /\ dent'.reqs[i+1] = dent.reqs[i]
      BY <2>3, <2>4
    <2>6. phase[t] # "waiting" /\ phase' = [phase EXCEPT ![t] = "waiting"]
      BY <1>10
    <2> HIDE DEF q
    <2>7. phase' = [phase EXCEPT ![t] = phase'[t]] /\ phase'[t] = "waiting"
      BY <2>6 DEF Waiting, Functions
    <2>8. /\ dent'.reqs[1].thread = t /\ dent'.reqs[1].lock = l /\ dent'.reqs[1].notify
          /\ IsOwn(t, dent'.reqs[1].lock)
      BY <2>1, <2>5
    <2>9. Live(dent'.reqs[1])
      BY <2>8 DEF Live
    <2> QED BY <1>1, <1>2, <1>5, <2>2, <2>5, <2>6, <2>7, <2>8, <2>9, Queue
  <1>11. CASE /\ o.queued /\ "event" \in scenario.failures
              /\ dent' = o.dent /\ Answer(t, "ENOMEM", {})
    <2>1. t \in Loose
      BY <1>5, <1>11 DEF Loose
    <2>2. phase' = [phase EXCEPT ![t] = "answered"]
      <3>1. phase' = [x \in Threads |-> IF x = t THEN "answered"
                                        ELSE IF Lucky(x, {}) THEN "answered" ELSE phase[x]]
        BY <1>11, AnswerPhase
      <3>2. \A x : ~Lucky(x, {})
        BY DEF Lucky
      <3>3. phase = [x \in Threads |-> phase[x]]
        BY DEF Waiting, Functions
      <3> QED BY <3>1, <3>2, <3>3
    <2>3. /\ 1 \in DOMAIN dent'.reqs /\ dent'.reqs[1] = r
          /\ \A i \in DOMAIN dent'.reqs : i # 1 => i-1 \in DOMAIN dent.reqs /\ dent'.reqs[i] = dent.reqs[i-1]
          /\ \A i \in DOMAIN dent.reqs : i+1 \in DOMAIN dent'.reqs /\ i+1 # 1 /\ dent'.reqs[i+1] = dent.reqs[i]
      BY <1>9, <1>11
    <2>4. phase[t] # "waiting"
      OBVIOUS
    <2> HIDE DEF q
    <2>5. phase' = [phase EXCEPT ![t] = phase'[t]] /\ phase'[t] = "answered"
      BY <2>2 DEF Waiting, Functions
    <2>6. dent'.reqs[1].thread = t /\ IsOwn(t, dent'.reqs[1].lock) /\ ~Live(dent'.reqs[1])
      BY <1>8, <2>1, <2>3 DEF Live
    <2> QED BY <1>1, <1>2, <1>5, <2>1, <2>3, <2>4, <2>5, <2>6, Queue
  <1> QED BY <1>3, <1>7, <1>10, <1>11

(* file_lock_set_from_ipc. *)
LEMMA SetFromIpcWaits ==
    ASSUME LockInv, LockInv', Waiting, scenario' = scenario, leader = "up", leader' = "up",
           NEW t \in Threads, phase[t] = "called", worker = NoThread,
           SetFromIpc(t), proc' = proc, op' = op
    PROVE  Waiting'
  <1> DEFINE l == op[t].lock
  <1>1. IsOwn(t, l) /\ op[t].kind = "SET"
    BY DEF SetFromIpc, LockInv, OpsOwn
  <1>2. OneEach(dent.reqs) /\ ProcOf[t] # Leader
    BY DEF Waiting, CallsRemote
  <1>3. CASE \E o \in SetOrAddRequest(t, l, op[t].wait) :
             /\ dent' = o.dent
             /\ leader' = CASE Undefined(o.granted) -> "undefined"
                            [] ~Undefined(o.granted) /\ ~o.queued /\ SendFails(t) -> "exited"
                            [] OTHER -> leader
             /\ IF RespondsNow(o)
                THEN Answer(t, o.ret, o.granted) /\ UNCHANGED worker
                ELSE /\ phase' = [phase EXCEPT ![t] = "waiting"]
                     /\ worker' = t
                     /\ UNCHANGED result
    <2>1. PICK o \in SetOrAddRequest(t, l, op[t].wait) :
             /\ dent' = o.dent
             /\ leader' = CASE Undefined(o.granted) -> "undefined"
                            [] ~Undefined(o.granted) /\ ~o.queued /\ SendFails(t) -> "exited"
                            [] OTHER -> leader
             /\ IF RespondsNow(o)
                THEN Answer(t, o.ret, o.granted) /\ UNCHANGED worker
                ELSE /\ phase' = [phase EXCEPT ![t] = "waiting"]
                     /\ worker' = t
                     /\ UNCHANGED result
      BY <1>3
    <2>2. SetDone(t, l, o)
      BY <1>1, IsOwnFields, SetOrAddRequestDone DEF LockInv
    <2>3. ~Undefined(o.granted)
      BY <2>1
    <2>4. CASE ~o.queued
      <3>1. PICK oom : Served(dent.reqs, Len(dent.reqs), dent'.reqs, o.granted, {}, oom)
        BY <1>2, <2>1, <2>2, <2>4 DEF SetDone
      <3>2. Answer(t, o.ret, o.granted) /\ worker' = worker
        BY <2>1, <2>4 DEF RespondsNow
      <3> QED BY <2>3, <3>1, <3>2, AnswerWaits
    <2>5. CASE o.queued
      <3> DEFINE r == [lock |-> l, thread |-> t, notify |-> FALSE]
      <3>1. r.lock = l /\ r.thread = t /\ r.notify = FALSE
        OBVIOUS
      <3>2. dent'.reqs = <<r>> \o dent.reqs
        BY <2>1, <2>2, <2>5 DEF SetDone
      <3>3. PICK fam \in Families : dent.reqs \in Seq(Requests(fam))
        BY DEF LockInv, GoodDent, DentOf
      <3>4. phase' = [phase EXCEPT ![t] = "waiting"] /\ worker' = t
        BY <2>1, <2>5 DEF RespondsNow
      <3> HIDE DEF r
      <3>5. /\ 1 \in DOMAIN dent'.reqs /\ dent'.reqs[1] = r
            /\ \A i \in DOMAIN dent'.reqs : i # 1 => i-1 \in DOMAIN dent.reqs /\ dent'.reqs[i] = dent.reqs[i-1]
            /\ \A i \in DOMAIN dent.reqs : i+1 \in DOMAIN dent'.reqs /\ i+1 # 1 /\ dent'.reqs[i+1] = dent.reqs[i]
        BY <3>2, <3>3, QueuedFirst
      <3> HIDE DEF l
      <3>6. op'[t].lock = l /\ op'[t].kind # "CLEAR"
        BY <1>1 DEF l
      <3>7. phase' = [phase EXCEPT ![t] = phase'[t]] /\ phase'[t] = "waiting"
        BY <3>4 DEF Waiting, Functions
      <3>8. /\ dent'.reqs[1].thread = t /\ dent'.reqs[1].lock = l /\ ~dent'.reqs[1].notify
            /\ IsOwn(t, dent'.reqs[1].lock)
        BY <1>1, <3>1, <3>5
      <3>9. Live(dent'.reqs[1])
        BY <1>2, <3>8, LooseLeader DEF Live
      <3> QED BY <1>2, <3>4, <3>5, <3>6, <3>7, <3>8, <3>9, Queue
    <2> QED BY <2>4, <2>5
  <1>4. CASE Answer(t, "ENOENT", {}) /\ dent' = dent /\ worker' = worker
    <2>1. Served(dent.reqs, Len(dent.reqs), dent'.reqs, {}, {}, {})
      BY <1>2, <1>4, ServedNone DEF LockInv, GoodDent, DentOf
    <2>2. ~Undefined({})
      BY DEF Undefined
    <2> QED BY <1>4, <2>1, <2>2, AnswerWaits
  <1> QED BY <1>3, <1>4 DEF SetFromIpc

(* While a process clears its locks it has no requests. *)
LEMMA ClearFinds ==
    ASSUME LockInv, Waiting, NEW t \in Threads, op[t].kind = "CLEAR", phase[t] # "waiting"
    PROVE  \A i \in DOMAIN dent.reqs : ~OfPid(dent.reqs[i].lock, ProcOf[t])
  <1>0. Alone(t) /\ WaitersAsk /\ RequestsTrue
    BY DEF Waiting, ClearAlone
  <1> SUFFICES ASSUME NEW i \in DOMAIN dent.reqs, OfPid(dent.reqs[i].lock, ProcOf[t]) PROVE FALSE
    OBVIOUS
  <1> DEFINE x == dent.reqs[i].thread
  <1>1. PICK fam \in Families : dent.reqs \in Seq(Requests(fam))
    BY DEF LockInv, GoodDent, DentOf
  <1>2. dent.reqs[i] \in Requests(fam)
    BY <1>1
  <1>3. x \in Threads
    BY <1>2 DEF Requests
  <1>4. IsOwn(x, dent.reqs[i].lock)
    BY <1>0 DEF RequestsTrue, TrueRequest
  <1>5. ProcOf[x] = ProcOf[t]
    BY <1>3, <1>4, IsOwnFields DEF OfPid
  <1>6. x \notin Loose
    BY <1>0, <1>3, <1>5, LooseLeader DEF Alone
  <1>7. phase[x] = "waiting"
    BY <1>0, <1>3, <1>6 DEF WaitersAsk, Live
  <1> QED BY <1>0, <1>3, <1>5, <1>7 DEF Alone

(* file_lock_clear_pid_from_ipc: the process has no requests left. *)
LEMMA ClearWaits ==
    ASSUME LockInv, LockInv', Waiting, scenario' = scenario, leader = "up", leader' = "up",
           NEW t \in Threads, phase[t] = "called",
           ClearPidFromIpc(t), proc' = proc, op' = op
    PROVE  Waiting'
  <1>1. PICK oom \in OutOfMemory : LET o == ClearPidFromDentry(ProcOf[t], oom) IN
          /\ dent' = o.dent
          /\ leader' = CASE Undefined(o.granted) -> "undefined"
                         [] ~Undefined(o.granted) /\ SendFails(t) -> "exited"
                         [] OTHER -> leader
          /\ Answer(t, "OK", o.granted)
    BY DEF ClearPidFromIpc
  <1> DEFINE o == ClearPidFromDentry(ProcOf[t], oom)
  <1>2. ~Undefined(o.granted)
    BY <1>1
  <1>3. OneEach(dent.reqs)
    BY DEF Waiting
  <1>4. \A i \in DOMAIN dent.reqs : ~OfPid(dent.reqs[i].lock, ProcOf[t])
    BY ClearFinds DEF ClearPidFromIpc
  <1>5. Served(dent.reqs, Len(dent.reqs), dent'.reqs, o.granted, {}, oom)
    BY <1>1, <1>3, <1>4, ClearDone DEF LockInv
  <1>6. Answer(t, "OK", o.granted) /\ worker' = worker
    BY <1>1 DEF ClearPidFromIpc
  <1> HIDE DEF o
  <1> QED BY <1>2, <1>5, <1>6, AnswerWaits

(* The rest of file_lock_set_from_ipc. *)
LEMMA WriteNotifyWaits ==
    ASSUME LockInv, Waiting, scenario' = scenario, WriteNotify
    PROVE  Waiting'
  <1>1. PICK i \in DOMAIN dent.reqs : dent.reqs[i].thread = worker /\ dent' = SetNotify(dent, i)
    BY DEF WriteNotify
  <1> DEFINE p == dent.reqs
             q == SetNotify(dent, i).reqs
  <1>2. /\ DOMAIN q = DOMAIN p
        /\ \A j \in DOMAIN p : /\ q[j].lock = p[j].lock /\ q[j].thread = p[j].thread
                               /\ j # i => q[j] = p[j]
        /\ q[i].notify = TRUE
    BY SetNotifyGood DEF LockInv
  <1>3. dent'.reqs = q /\ worker' = NoThread /\ Loose' = Loose
        /\ UNCHANGED <<leader, proc, maybe, op, phase, result>>
    BY <1>1 DEF WriteNotify, Loose
  <1>4. PICK fam \in Families : p \in Seq(Requests(fam))
    BY DEF LockInv, GoodDent, DentOf
  <1>5. \A j \in DOMAIN p : p[j].thread \in Threads /\ p[j].thread # NoThread
    <2>1. \A j \in DOMAIN p : p[j] \in Requests(fam)
      BY <1>4
    <2>2. \A j \in DOMAIN p : p[j].thread \in Threads
      BY <2>1 DEF Requests
    <2> QED BY <2>2, ProcsAssumption DEF NoThread
  <1>6. worker \in Threads /\ ProcOf[worker] # Leader /\ worker \notin Loose
    <2>1. worker \in Threads /\ ProcOf[worker] # Leader
      BY <1>1, <1>5 DEF Waiting, WorkerWaits
    <2> QED BY <2>1, LooseLeader
  <1>7. p[i].thread = worker
    BY <1>1
  <1> HIDE DEF q
  <1>8. \A j \in DOMAIN p : Live(q[j]) <=> Live(p[j])
    BY <1>2, <1>6, <1>7 DEF Live
  <1>9. OneEach(dent.reqs)'
    <2>1. OneEach(p)
      BY DEF Waiting
    <2>2. OneEach(q)
      BY <1>2, <1>8, <2>1 DEF OneEach, Apart
    <2> QED BY <1>3, <2>2 DEF OneEach, Apart, Live
  <1>10. WaitersAsk'
    <2> SUFFICES ASSUME NEW x \in Threads
                 PROVE  phase'[x] = "waiting" <=> \E j \in DOMAIN q : q[j].thread = x /\ Live(q[j])
      BY <1>3 DEF WaitersAsk, Live
    <2>1. WaitersAsk
      BY DEF Waiting
    <2> QED BY <1>2, <1>3, <1>8, <2>1 DEF WaitersAsk
  <1>11. RequestsTrue'
    <2> SUFFICES ASSUME NEW j \in DOMAIN p, NEW s, s = q[j] PROVE TrueRequest(s)'
      BY <1>2, <1>3 DEF RequestsTrue, TrueRequest, IsOwn, Live
    <2>1. TrueRequest(p[j]) /\ p[j].thread # NoThread
      BY <1>5 DEF Waiting, RequestsTrue
    <2>2. s.thread = p[j].thread /\ s.lock = p[j].lock /\ (Live(s) <=> Live(p[j]))
      BY <1>2, <1>8
    <2>3. Live(s) => s.notify
      <3>1. CASE j = i
        BY <1>2, <3>1
      <3>2. CASE j # i
        <4>1. Live(p[i])
          BY <1>6, <1>7 DEF Live
        <4>2. Live(s) => p[j].thread # worker
          BY <1>7, <2>2, <3>2, <4>1 DEF Waiting, OneEach, Apart
        <4> QED BY <1>2, <2>1, <2>2, <3>2, <4>2 DEF TrueRequest
      <3> QED BY <3>1, <3>2
    <2> QED BY <1>3, <2>1, <2>2, <2>3 DEF TrueRequest, IsOwn, Live
  <1>12. WorkerWaits'
    BY <1>3 DEF WorkerWaits
  <1>13. CallsRemote' /\ ClearAlone' /\ Functions'
    BY <1>3 DEF Waiting, CallsRemote, ClearAlone, Alone, Functions
  <1> QED BY <1>9, <1>10, <1>11, <1>12, <1>13 DEF Waiting

(* Every step keeps what is true of the waiters. *)
LEMMA WaitInvStep == WaitInv /\ [Next]_<<vars, scenario>> => WaitInv'
  <1> SUFFICES ASSUME WaitInv, [Next]_<<vars, scenario>> PROVE WaitInv'
    OBVIOUS
  <1>1. LockInv /\ LockInv'
    BY LockInvStep DEF WaitInv
  <1>2. CASE UNCHANGED <<vars, scenario>>
    <2>1. LockInv' /\ UNCHANGED <<dent, worker, leader, proc, maybe, op, phase, result, scenario>>
      BY <1>1, <1>2 DEF vars
    <2>2. Waiting => Waiting'
      <3> SUFFICES ASSUME Waiting PROVE Waiting'
        OBVIOUS
      <3>1. Loose' = Loose
        BY <2>1 DEF Loose
      <3>2. OneEach(dent.reqs)' /\ WaitersAsk' /\ RequestsTrue'
        BY <2>1, <3>1 DEF Waiting, OneEach, Apart, Live, WaitersAsk, RequestsTrue, TrueRequest, IsOwn
      <3>3. WorkerWaits' /\ CallsRemote' /\ ClearAlone' /\ Functions'
        BY <2>1 DEF Waiting, WorkerWaits, CallsRemote, ClearAlone, Alone, Functions
      <3> QED BY <3>2, <3>3 DEF Waiting
    <2> QED BY <2>1, <2>2 DEF WaitInv
  <1>3. CASE Next
    <2>1. scenario' = scenario /\ scenario \in Scenarios /\ leader = "up" /\ Waiting
      BY <1>3 DEF Next, LockInv, WaitInv
    <2> SUFFICES ASSUME leader' = "up" PROVE Waiting'
      BY <1>1 DEF WaitInv
    <2>2. /\ \A t \in Threads : ProcOf[t] \in Pids
          /\ proc = [p \in Pids |-> proc[p]] /\ phase = [t \in Threads |-> phase[t]]
      BY <2>1, ProcsAssumption DEF Waiting, Functions
    <2>3. ASSUME NEW t \in Threads, NEW l, NEW wait, IsOwn(t, l), Set(t, l, wait),
                 phase[t] = "idle", proc[ProcOf[t]] = "running"
          PROVE  Waiting'
      <3>1. proc' = proc /\ phase[t] # "waiting"
        BY <2>3 DEF Set
      <3>2. CASE RemoteSet(t, l, wait)
        BY <1>1, <2>1, <2>2, <2>3, <3>1, <3>2, RemoteWaits
      <3>3. CASE LeaderSet(t, l, wait)
        BY <1>1, <2>1, <2>3, <3>1, <3>3, LeaderWaits
      <3> QED BY <2>3, <3>2, <3>3 DEF Set
    <2>4. ASSUME NEW t \in Threads, UserLock(t) PROVE Waiting'
      <3>1. PICK a \in scenario.asks[t] : Set(t, OwnLock(ProcOf[t], a.family, a.type, a.range), a.wait)
        BY <2>4 DEF UserLock
      <3>2. IsOwn(t, OwnLock(ProcOf[t], a.family, a.type, a.range))
        BY <2>1, AsksOwn
      <3> QED BY <2>3, <2>4, <3>1, <3>2 DEF UserLock
    <2>5. ASSUME NEW t \in Threads, UserUnlock(t) PROVE Waiting'
      <3>0. PICK a \in scenario.asks[t] : \E r \in {a.range, <<0, FS_LOCK_EOF>>} :
               Set(t, OwnLock(ProcOf[t], a.family, "UNLCK", r), FALSE)
        BY <2>5 DEF UserUnlock
      <3>1. PICK r \in {a.range, <<0, FS_LOCK_EOF>>} :
               Set(t, OwnLock(ProcOf[t], a.family, "UNLCK", r), FALSE)
        BY <3>0
      <3>2. IsOwn(t, OwnLock(ProcOf[t], a.family, "UNLCK", r))
        BY <2>1, AsksOwn
      <3> QED BY <2>3, <2>5, <3>1, <3>2 DEF UserUnlock
    <2>6. ASSUME NEW t \in Threads, Return(t) PROVE Waiting'
      <3>1. /\ phase[t] = "answered" /\ proc[ProcOf[t]] = "running"
            /\ phase' = [phase EXCEPT ![t] = "idle"] /\ op' = [op EXCEPT ![t] = NoOp]
            /\ UNCHANGED <<dent, worker, leader, proc>>
        BY <2>6 DEF Return
      <3>2. (\A x \in Threads : x # t => op'[x] = op[x]) /\ op'[t].kind # "CLEAR"
        BY <1>1, <3>1 DEF LockInv, OpsOwn, NoOp
      <3> QED BY <1>1, <2>1, <2>2, <3>1, <3>2, ServeNobody
    <2>7. ASSUME NEW t \in Threads, Exit(t) PROVE Waiting'
      <3>1. /\ proc[ProcOf[t]] = "running" /\ ProcOf[t] \in scenario.quitters
            /\ \A x \in Threads : ProcOf[x] = ProcOf[t] => phase[x] = "idle"
            /\ proc' = [proc EXCEPT ![ProcOf[t]] = "clearing"]
            /\ phase' = [phase EXCEPT ![t] = "called"] /\ op' = [op EXCEPT ![t] = [kind |-> "CLEAR"]]
            /\ UNCHANGED <<dent, worker, leader>>
        BY <2>7 DEF Exit
      <3>2. ProcOf[t] # Leader
        BY <2>1, <3>1, ProcsAssumption
      <3>3. proc' = [p \in Pids |-> proc'[p]] /\ proc'[ProcOf[t]] = "clearing"
            /\ \A p \in Pids : proc'[p] = "running" => proc[p] = "running"
        BY <2>2, <3>1
      <3>4. \A x \in Threads : x # t => op'[x] = op[x] /\ phase'[x] = phase[x]
        BY <1>1, <2>2, <3>1 DEF LockInv, OpsOwn
      <3>5. Alone(t)'
        BY <3>1, <3>2, <3>3, <3>4 DEF Alone
      <3>6. phase[t] # "waiting"
        BY <3>1
      <3> QED BY <1>1, <2>1, <3>1, <3>2, <3>3, <3>4, <3>5, <3>6, ServeNobody
    <2>8. ASSUME NEW t \in Threads, DetachAllFds(t) PROVE Waiting'
      <3>1. phase[t] = "answered"
        BY <2>8 DEF DetachAllFds
      <3>2. CASE /\ proc' = [proc EXCEPT ![ProcOf[t]] = "detaching"]
                 /\ RemoteSet(t, UnlockAll(ProcOf[t], "FLOCK"), FALSE)
        <4>1. proc' = [p \in Pids |-> proc'[p]] /\ \A p \in Pids : proc'[p] = "running" => proc[p] = "running"
          BY <2>2, <3>2
        <4> QED BY <1>1, <2>1, <3>1, <3>2, <4>1, UnlockAllOwn, RemoteWaits
      <3>3. CASE /\ proc' = [proc EXCEPT ![ProcOf[t]] = "exited"] /\ op' = [op EXCEPT ![t] = NoOp]
                 /\ phase' = [phase EXCEPT ![t] = "idle"] /\ UNCHANGED <<dent, worker, leader, maybe>>
        <4>1. proc' = [p \in Pids |-> proc'[p]] /\ \A p \in Pids : proc'[p] = "running" => proc[p] = "running"
          BY <2>2, <3>3
        <4>2. (\A x \in Threads : x # t => op'[x] = op[x]) /\ op'[t].kind # "CLEAR"
          BY <1>1, <3>3 DEF LockInv, OpsOwn, NoOp
        <4> QED BY <1>1, <2>1, <3>1, <3>3, <4>1, <4>2, ServeNobody
      <3> QED BY <2>8, <3>2, <3>3 DEF DetachAllFds
    <2>9. ASSUME NEW t \in Threads, WorkerHandles(t) PROVE Waiting'
      <3>1. worker = NoThread /\ phase[t] = "called" /\ proc' = proc /\ op' = op
        BY <2>9 DEF WorkerHandles
      <3>2. CASE SetFromIpc(t)
        BY <1>1, <2>1, <3>1, <3>2, SetFromIpcWaits
      <3>3. CASE ClearPidFromIpc(t)
        BY <1>1, <2>1, <3>1, <3>3, ClearWaits
      <3> QED BY <2>9, <3>2, <3>3 DEF WorkerHandles
    <2>10. CASE WriteNotify
      BY <1>1, <2>1, <2>10, WriteNotifyWaits
    <2>11. ASSUME NEW p \in Pids, Kill(p) PROVE Waiting'
      <3>1. proc' = [proc EXCEPT ![p] = "killed"] /\ UNCHANGED <<dent, worker, op, phase>>
        BY <2>11 DEF Kill
      <3>2. Functions' /\ \A x \in Pids : proc'[x] = "running" => proc[x] = "running"
        BY <2>2, <3>1 DEF Functions
      <3>3. Loose' = Loose
        BY <2>1 DEF Loose
      <3>4. ClearAlone'
        BY <2>1, <2>2, <3>1, <3>2 DEF Waiting, ClearAlone, Alone
      <3> QED BY <2>1, <3>1, <3>2, <3>3, <3>4
              DEF Waiting, OneEach, Apart, Live, WaitersAsk, RequestsTrue, TrueRequest, IsOwn, WorkerWaits, CallsRemote
    <2> QED BY <1>3, <2>4, <2>5, <2>6, <2>7, <2>8, <2>9, <2>10, <2>11 DEF Next, ThreadStep
  <1> QED BY <1>2, <1>3

(* In the beginning nobody waits. *)
LEMMA WaitInvInit == Init => WaitInv
  <1> SUFFICES ASSUME Init PROVE Waiting
    BY LockInvInit DEF WaitInv
  <1>1. dent.reqs = <<>> /\ DOMAIN <<>> = {}
    BY DEF Init, EmptyDent
  <1>2. Functions /\ WaitersAsk /\ CallsRemote /\ ClearAlone /\ WorkerWaits
    BY <1>1 DEF Init, Functions, WaitersAsk, CallsRemote, ClearAlone, WorkerWaits, NoOp
  <1>3. OneEach(dent.reqs) /\ RequestsTrue
    BY <1>1 DEF OneEach, RequestsTrue
  <1> QED BY <1>2, <1>3 DEF Waiting

(* Events can be created. *)
EventsWork == "event" \notin scenario.failures

(* The scenario does not change. *)
LEMMA EventsWorkStep == EventsWork /\ [Next]_<<vars, scenario>> => EventsWork'
  BY DEF EventsWork, Next

(* Where events can be created, F_SETLKW never loses a thread, nor answers *)
(* it without taking its request away: over all interleavings of any       *)
(* number of threads and processes with the leader and its IPC worker.     *)
THEOREM NobodyForgottenHolds == Spec /\ EventsWork => []NobodyForgotten
  <1>1. WaitInv /\ EventsWork => NobodyForgotten
    <2> SUFFICES ASSUME WaitInv, EventsWork, leader = "up", NEW t \in Threads
                 PROVE  /\ (phase[t] = "waiting") <=> (RequestsOf(t) # {})
                        /\ \A i, j \in RequestsOf(t) : i = j /\ dent.reqs[i].lock = op[t].lock
                        /\ \A i \in RequestsOf(t) : dent.reqs[i].notify <=> worker # t
      BY DEF NobodyForgotten
    <2>1. Loose = {} /\ Waiting
      BY DEF Loose, EventsWork, WaitInv
    <2>2. (phase[t] = "waiting") <=> (RequestsOf(t) # {})
      BY <2>1 DEF Waiting, WaitersAsk, Live, RequestsOf
    <2>3. ASSUME NEW i \in RequestsOf(t), NEW j \in RequestsOf(t) PROVE i = j
      BY <2>1 DEF Waiting, OneEach, Apart, Live, RequestsOf
    <2>4. ASSUME NEW i \in RequestsOf(t)
          PROVE  dent.reqs[i].lock = op[t].lock /\ (dent.reqs[i].notify <=> worker # t)
      BY <2>1 DEF Waiting, RequestsTrue, TrueRequest, Live, RequestsOf
    <2> QED BY <2>2, <2>3, <2>4
  <1> QED BY <1>1, WaitInvInit, WaitInvStep, EventsWorkStep, PTL DEF Spec

-----------------------------------------------------------------------------
(* What is held                                                            *)

Bytes == 0..FS_LOCK_EOF

Keys(f) == IF f = "POSIX" THEN Pids ELSE Handles

(* Lock l gives byte b to owner o. *)
Gives(l, f, o, b) == l.family = f /\ l.owner = o /\ l.start <= b /\ b <= l.end

(* The list does so, with this type. *)
HasType(s, f, o, b, type) == \E i \in DOMAIN s : Gives(s[i], f, o, b) /\ s[i].type = type

(* Byte b is among those that lock l is about. *)
About(l, f, o, b) == f = l.family /\ o = l.owner /\ l.start <= b /\ b <= l.end

(* The locks of a list, of either family. *)
LEMMA ListMember ==
    ASSUME NEW fam \in Families, NEW s, ListOf(fam, s), NEW i \in DOMAIN s
    PROVE  /\ s[i].family = fam /\ s[i].owner \in Keys(fam) /\ s[i].type \in {"RDLCK", "WRLCK"}
           /\ s[i].start \in Bytes /\ s[i].start <= s[i].end /\ s[i].end \in Int
           /\ fam = "FLOCK" => s[i].start = 0 /\ s[i].end = 0
  <1>1. CASE fam = "POSIX"
    <2>1. GoodList(s)
      BY <1>1 DEF ListOf, PosixList
    <2>2. s[i] \in HeldLocks /\ s[i].start <= s[i].end
      BY <2>1, GoodElement
    <2> QED BY <1>1, <2>2, HeldFields DEF Keys, Bytes
  <1>2. CASE fam = "FLOCK"
    <2>1. s \in Seq(FlockHeld)
      BY <1>2 DEF ListOf, FlockList
    <2>2. s[i] \in FlockHeld
      BY <2>1
    <2>3. /\ s[i].family = "FLOCK" /\ s[i].owner \in Handles /\ s[i].type \in {"RDLCK", "WRLCK"}
          /\ s[i].start = 0 /\ s[i].end = 0
      BY <2>2 DEF FlockHeld
    <2> QED BY <1>2, <2>3, EofAssumption DEF Keys, Bytes
  <1> QED BY <1>1, <1>2 DEF Families

(* A byte is given by one lock of a list. *)
LEMMA GivenOnce ==
    ASSUME NEW fam \in Families, NEW s, ListOf(fam, s), NEW f, NEW o, NEW b \in Int,
           NEW i \in DOMAIN s, NEW j \in DOMAIN s, Gives(s[i], f, o, b), Gives(s[j], f, o, b)
    PROVE  i = j
  <1>1. CASE fam = "POSIX"
    <2>1. GoodList(s)
      BY <1>1 DEF ListOf, PosixList
    <2> QED BY <2>1, HoldsOnce DEF Gives
  <1>2. CASE fam = "FLOCK"
    BY <1>2 DEF ListOf, FlockList, Gives
  <1> QED BY <1>1, <1>2 DEF Families

(* HeldType, in terms of HasType. *)
LEMMA HeldTypeIs ==
    ASSUME NEW fam \in Families, NEW s, ListOf(fam, s), NEW f, NEW o, NEW b \in Int
    PROVE  /\ HeldType(s, f, o, b) \in LockTypes
           /\ \A type \in LockTypes : type # "UNLCK" =>
                 (HeldType(s, f, o, b) = type <=> HasType(s, f, o, b, type))
           /\ HeldType(s, f, o, b) = "UNLCK" <=> \A i \in DOMAIN s : ~Gives(s[i], f, o, b)
  <1> DEFINE mine == {i \in DOMAIN s : /\ s[i].family = f /\ s[i].owner = o
                                       /\ s[i].start <= b /\ b <= s[i].end}
  <1>1. mine = {i \in DOMAIN s : Gives(s[i], f, o, b)}
    BY DEF Gives
  <1>2. CASE mine = {}
    <2>1. HeldType(s, f, o, b) = "UNLCK"
      BY <1>2 DEF HeldType
    <2>2. \A i \in DOMAIN s : ~Gives(s[i], f, o, b)
      BY <1>1, <1>2
    <2> QED BY <2>1, <2>2 DEF LockTypes, HasType
  <1>3. CASE mine # {}
    <2> DEFINE i == CHOOSE j \in mine : TRUE
    <2>1. i \in mine
      BY <1>3
    <2>2. HeldType(s, f, o, b) = s[i].type
      BY <1>3 DEF HeldType
    <2> HIDE DEF i
    <2>3. i \in DOMAIN s /\ Gives(s[i], f, o, b)
      BY <1>1, <2>1
    <2>4. s[i].type \in {"RDLCK", "WRLCK"}
      BY <2>3, ListMember
    <2>5. ASSUME NEW type, HasType(s, f, o, b, type) PROVE s[i].type = type
      <3>1. PICK j \in DOMAIN s : Gives(s[j], f, o, b) /\ s[j].type = type
        BY <2>5 DEF HasType
      <3>2. i = j
        BY <2>3, <3>1, GivenOnce
      <3> QED BY <3>1, <3>2
    <2>6. HasType(s, f, o, b, s[i].type)
      BY <2>3 DEF HasType
    <2> HIDE DEF mine
    <2> QED BY <2>2, <2>3, <2>4, <2>5, <2>6 DEF LockTypes
  <1> QED BY <1>2, <1>3

(* In the list t the lock of one handle is l, and the others are as in s. *)
FlockReplaced(s, t, l) == \A o, type :
    (\E i \in DOMAIN t : t[i].owner = o /\ t[i].type = type)
    <=> IF o = l.owner THEN type = l.type /\ type # "UNLCK"
        ELSE \E i \in DOMAIN s : s[i].owner = o /\ s[i].type = type

(* _flock_lock_set replaces the lock of the handle. *)
LEMMA FlockSetExact ==
    ASSUME NEW s, FlockList(s), NEW l \in FlockAsked
    PROVE  FlockReplaced(s, FlockLockSet(s, l), l)
  <1> SUFFICES ASSUME NEW o, NEW type
               PROVE  (\E i \in DOMAIN FlockLockSet(s, l) :
                          FlockLockSet(s, l)[i].owner = o /\ FlockLockSet(s, l)[i].type = type)
                      <=> IF o = l.owner THEN type = l.type /\ type # "UNLCK"
                          ELSE \E i \in DOMAIN s : s[i].owner = o /\ s[i].type = type
    BY DEF FlockReplaced
  <1> DEFINE mine == {i \in DOMAIN s : s[i].family = "FLOCK" /\ s[i].owner = l.owner}
             k == CHOOSE i \in mine : \A j \in mine : i <= j
             rest == IF mine = {} THEN s ELSE RemoveAt(s, k)
             t == IF l.type = "UNLCK" THEN rest ELSE <<l>> \o rest
  <1>1. s \in Seq(FlockHeld) /\ DOMAIN s = 1..Len(s) /\ Len(s) \in Nat
    BY DEF FlockList
  <1>2. \A i \in DOMAIN s : s[i].family = "FLOCK"
    <2>1. \A i \in DOMAIN s : s[i] \in FlockHeld
      BY <1>1
    <2> QED BY <2>1 DEF FlockHeld
  <1>3. /\ rest \in Seq(FlockHeld)
        /\ \A i \in DOMAIN rest : rest[i].owner # l.owner /\ \E j \in DOMAIN s : rest[i] = s[j]
        /\ \A j \in DOMAIN s : s[j].owner # l.owner => \E i \in DOMAIN rest : rest[i] = s[j]
    <2>1. CASE mine = {}
      BY <1>1, <1>2, <2>1
    <2>2. CASE mine # {}
      <3>1. k \in mine
        <4>1. \E i \in mine : \A j \in mine : i <= j
          <5>1. mine \subseteq Nat
            BY <1>1
          <5>2. PICK i \in mine : \A j \in mine : ~(j < i)
            <6> HIDE DEF mine
            <6> QED BY <2>2, <5>1, LeastMember
          <5>3. \A j \in mine : i <= j
            <6> HIDE DEF mine
            <6> QED BY <5>1, <5>2
          <5> QED BY <5>3
        <4> HIDE DEF mine
        <4> QED BY <4>1
      <3>2. rest = RemoveAt(s, k)
        BY <2>2
      <3>3. k \in DOMAIN s /\ s[k].owner = l.owner
        BY <3>1
      <3> HIDE DEF k, mine, rest
      <3>4. /\ rest \in Seq(FlockHeld) /\ Len(rest) = Len(s) - 1
            /\ \A i \in DOMAIN rest : rest[i] = s[IF i < k THEN i ELSE i+1]
        BY <1>1, <3>2, <3>3, RemoveOne
      <3>5. DOMAIN rest = 1..(Len(s)-1) /\ k \in 1..Len(s)
        BY <1>1, <3>3, <3>4
      <3>6. ASSUME NEW i \in DOMAIN rest
            PROVE  rest[i].owner # l.owner /\ \E j \in DOMAIN s : rest[i] = s[j]
        <4> DEFINE j == IF i < k THEN i ELSE i+1
        <4>1. j \in DOMAIN s /\ j # k /\ rest[i] = s[j]
          BY <1>1, <3>4, <3>5
        <4> HIDE DEF j
        <4>2. s[j].owner # s[k].owner
          BY <3>3, <4>1 DEF FlockList
        <4> QED BY <3>3, <4>1, <4>2
      <3>7. ASSUME NEW j \in DOMAIN s, s[j].owner # l.owner PROVE \E i \in DOMAIN rest : rest[i] = s[j]
        <4> DEFINE i == IF j < k THEN j ELSE j-1
        <4>1. j # k
          BY <3>3, <3>7
        <4>2. i \in DOMAIN rest /\ (IF i < k THEN i ELSE i+1) = j
          BY <1>1, <3>5, <4>1
        <4> HIDE DEF i
        <4> QED BY <3>4, <4>2
      <3> QED BY <3>4, <3>6, <3>7
    <2> QED BY <2>1, <2>2
  <1> HIDE DEF rest
  <1>4. FlockLockSet(s, l) = t
    BY DEF FlockLockSet, rest
  <1>5. (\E i \in DOMAIN rest : rest[i].owner = o /\ rest[i].type = type)
        <=> o # l.owner /\ \E i \in DOMAIN s : s[i].owner = o /\ s[i].type = type
    BY <1>3
  <1>6. CASE l.type = "UNLCK"
    BY <1>4, <1>5, <1>6
  <1>7. CASE l.type # "UNLCK"
    <2>1. <<l>> \in Seq(FlockAsked) /\ rest \in Seq(FlockAsked) /\ Len(<<l>>) = 1 /\ <<l>>[1] = l
      <3>1. FlockHeld \subseteq FlockAsked
        BY DEF FlockHeld, FlockAsked, LockTypes
      <3> QED BY <1>3, <3>1
    <2>2. /\ DOMAIN rest = 1..Len(rest) /\ Len(rest) \in Nat
          /\ DOMAIN t = 1..(1 + Len(rest))
          /\ \A i \in DOMAIN t : t[i] = IF i <= 1 THEN <<l>>[i] ELSE rest[i-1]
      BY <1>7, <2>1, ConcatProperties
    <2> HIDE DEF t
    <2>3. t[1] = l /\ 1 \in DOMAIN t
          /\ (\A i \in DOMAIN t : i # 1 => i-1 \in DOMAIN rest /\ t[i] = rest[i-1])
          /\ \A i \in DOMAIN rest : i+1 \in DOMAIN t /\ t[i+1] = rest[i]
      BY <2>1, <2>2
    <2>4. (\E i \in DOMAIN t : t[i].owner = o /\ t[i].type = type)
          <=> (l.owner = o /\ l.type = type) \/ \E i \in DOMAIN rest : rest[i].owner = o /\ rest[i].type = type
      BY <2>3
    <2> QED BY <1>4, <1>5, <1>7, <2>4
  <1> QED BY <1>6, <1>7

-----------------------------------------------------------------------------
(* Whose locks there are                                                   *)

(* Whose a lock is. *)
Key(l) == <<l.family, l.owner>>

(* Who holds something, who wants something, and which threads ask. *)
Owned(s) == {Key(s[i]) : i \in DOMAIN s}
Wanted(q) == {Key(q[i].lock) : i \in DOMAIN q}
Askers(q) == {q[i].thread : i \in DOMAIN q}

(* Setting l gives locks to nobody but the owner of l. *)
New(l) == IF l.type = "UNLCK" THEN {} ELSE {Key(l)}

(* All members of q are members of p. *)
From(q, p) == \A i \in DOMAIN q : \E j \in DOMAIN p : q[i] = p[j]

(* Whoever owns, wants or asks for something in q does so in p. *)
LEMMA FromKeys ==
    ASSUME NEW q, NEW p, From(q, p)
    PROVE  Wanted(q) \subseteq Wanted(p) /\ Askers(q) \subseteq Askers(p) /\ Owned(q) \subseteq Owned(p)
  BY DEF From, Wanted, Askers, Owned

(* _posix_lock_set and _flock_lock_set. *)
LEMMA OwnedAfterSet ==
    ASSUME NEW fam \in Families, NEW s, ListOf(fam, s), NEW g \in Families, NEW l \in AskedOf(g),
           l.type # "UNLCK" => g = fam /\ ~HasConflict(s, l)
    PROVE  /\ Owned(LockSet(s, l)) \subseteq Owned(s) \cup New(l)
           /\ g = "FLOCK" /\ l.type = "UNLCK" => Key(l) \notin Owned(LockSet(s, l))
  <1> DEFINE t == LockSet(s, l)
  <1>1. ListOf(fam, t)
    BY LockSetGood
  <1>2. CASE g = "POSIX"
    <2>1. l \in AskedLocks /\ l.start <= l.end /\ l.family = "POSIX"
      BY <1>2, LockFields DEF AskedOf
    <2>2. t = PosixLockSet(s, l)
      BY <2>1 DEF LockSet
    <2>3. CASE fam = "POSIX"
      <3>1. GoodList(s) /\ GoodList(t)
        BY <1>1, <2>3 DEF ListOf, PosixList
      <3>2. Replaced(s, t, l)
        BY <2>1, <2>2, <3>1, PosixSetExact
      <3> HIDE DEF t
      <3>3. ASSUME NEW i \in DOMAIN t PROVE Key(t[i]) \in Owned(s) \cup New(l)
        <4>1. t[i] \in HeldLocks /\ t[i].start <= t[i].end
          BY <3>1, GoodElement
        <4>2. /\ t[i].owner \in Pids /\ t[i].start \in 0..FS_LOCK_EOF /\ t[i].type \in {"RDLCK", "WRLCK"}
              /\ t[i].family = "POSIX" /\ t[i].start <= t[i].start
          BY <4>1, HeldFields
        <4>3. Holds(t, t[i].owner, t[i].start, t[i].type) /\ t[i].type \in LockTypes
          BY <4>1, <4>2 DEF Holds, Covers, LockTypes
        <4>4. \/ t[i].owner = l.owner /\ t[i].type = l.type /\ l.type # "UNLCK"
              \/ Holds(s, t[i].owner, t[i].start, t[i].type)
          BY <3>2, <4>2, <4>3 DEF Replaced
        <4>5. CASE t[i].owner = l.owner /\ l.type # "UNLCK"
          BY <2>1, <4>2, <4>5 DEF Key, New
        <4>6. CASE Holds(s, t[i].owner, t[i].start, t[i].type)
          <5>1. PICK j \in DOMAIN s : s[j].owner = t[i].owner
            BY <4>6 DEF Holds, Covers
          <5>2. s[j].family = "POSIX"
            BY <3>1, GoodElement, HeldFields
          <5> QED BY <4>2, <5>1, <5>2 DEF Key, Owned
        <4> QED BY <4>4, <4>5, <4>6
      <3> QED BY <1>2, <3>3 DEF Owned, t
    <2>4. CASE fam = "FLOCK"
      <3>1. FlockList(s) /\ l.type = "UNLCK"
        BY <1>2, <2>4 DEF ListOf
      <3>2. t = s
        BY <2>2, <3>1, PosixUnlockFlock
      <3> QED BY <1>2, <3>2
    <2> QED BY <2>3, <2>4 DEF Families
  <1>3. CASE g = "FLOCK"
    <2>1. l \in FlockAsked /\ l.family = "FLOCK"
      BY <1>3 DEF AskedOf, FlockAsked
    <2>2. t = FlockLockSet(s, l)
      BY <2>1 DEF LockSet
    <2>3. CASE fam = "FLOCK"
      <3>1. FlockList(s) /\ FlockList(t)
        BY <1>1, <2>3 DEF ListOf
      <3>2. FlockReplaced(s, t, l)
        BY <2>1, <2>2, <3>1, FlockSetExact
      <3>3. (\A i \in DOMAIN t : t[i].family = "FLOCK") /\ \A i \in DOMAIN s : s[i].family = "FLOCK"
        BY <1>1, <2>3, ListMember
      <3> HIDE DEF t
      <3>4. ASSUME NEW i \in DOMAIN t
            PROVE  Key(t[i]) \in Owned(s) \cup New(l) /\ (l.type = "UNLCK" => t[i].owner # l.owner)
        <4>1. CASE t[i].owner = l.owner
          <5>1. l.type # "UNLCK"
            BY <3>2, <4>1 DEF FlockReplaced
          <5> QED BY <2>1, <3>3, <4>1, <5>1 DEF Key, New
        <4>2. CASE t[i].owner # l.owner
          <5>1. PICK j \in DOMAIN s : s[j].owner = t[i].owner
            BY <3>2, <4>2 DEF FlockReplaced
          <5> QED BY <3>3, <4>2, <5>1 DEF Key, Owned
        <4> QED BY <4>1, <4>2
      <3> QED BY <3>4 DEF Owned, Key, t
    <2>4. CASE fam = "POSIX"
      <3>1. GoodList(s) /\ l.type = "UNLCK"
        BY <1>3, <2>4 DEF ListOf, PosixList
      <3>2. t = s
        BY <2>2, <3>1, FlockUnlockPosix
      <3>3. \A i \in DOMAIN s : s[i].family = "POSIX"
        BY <2>4, ListMember
      <3> QED BY <2>1, <3>2, <3>3 DEF Owned, Key
    <2> QED BY <2>3, <2>4 DEF Families
  <1> QED BY <1>2, <1>3 DEF Families

(* What the turns of a pass have done to the locks s0 and requests p. *)
KeysKept(s, s0, p) == /\ Owned(s.locks) \subseteq Owned(s0) \cup Wanted(p)
                      /\ From(s.reqs, p)

(* A turn of file_lock_process_requests. *)
LEMMA TurnOwned ==
    ASSUME NEW fam \in Families, NEW s, Granting(fam, s), NEW p \in Seq(Requests(fam)),
           NEW k \in DOMAIN p, NEW oom, NEW s0, KeysKept(s, s0, p)
    PROVE  KeysKept(GrantTurn(s, p[k], oom), s0, p)
  <1> DEFINE r == p[k]
             g == GrantTurn(s, r, oom)
  <1>1. r \in Requests(fam) /\ s.reqs \in Seq(Requests(fam)) /\ ListOf(fam, s.locks)
    BY DEF Granting
  <1>2. r.lock \in AskedOf(fam) /\ r.lock.type # "UNLCK" /\ Key(r.lock) \in Wanted(p)
    BY <1>1 DEF Requests, Wanted
  <1>3. CASE HasConflict(s.locks, r.lock)
    <2>1. g.locks = s.locks /\ g.reqs = Append(s.reqs, r)
      BY <1>1, <1>3, GrantTurnCases
    <2>2. From(Append(s.reqs, r), p)
      <3>1. /\ DOMAIN Append(s.reqs, r) = 1..(Len(s.reqs)+1) /\ DOMAIN s.reqs = 1..Len(s.reqs)
            /\ Append(s.reqs, r)[Len(s.reqs)+1] = r /\ Len(s.reqs) \in Nat
            /\ \A i \in DOMAIN s.reqs : Append(s.reqs, r)[i] = s.reqs[i]
        BY <1>1, AppendProperties
      <3>2. \A i \in DOMAIN Append(s.reqs, r) : i \in DOMAIN s.reqs \/ i = Len(s.reqs)+1
        BY <3>1
      <3> QED BY <3>1, <3>2 DEF From, KeysKept
    <2> QED BY <2>1, <2>2 DEF KeysKept
  <1>4. CASE ~HasConflict(s.locks, r.lock)
    <2>1. g.reqs = s.reqs
      BY <1>1, <1>4, GrantTurnCases
    <2>2. g.locks = s.locks \/ g.locks = LockSet(s.locks, r.lock)
      BY <1>4 DEF GrantTurn, Granting
    <2>3. Owned(LockSet(s.locks, r.lock)) \subseteq Owned(s.locks) \cup New(r.lock)
      BY <1>1, <1>2, <1>4, OwnedAfterSet
    <2>4. New(r.lock) \subseteq Wanted(p)
      BY <1>2 DEF New
    <2> HIDE DEF g, r
    <2> QED BY <2>1, <2>2, <2>3, <2>4 DEF KeysKept, g, r
  <1> QED BY <1>3, <1>4

(* A pass of file_lock_process_requests. *)
LEMMA PassOwned ==
    ASSUME NEW fam \in Families, NEW s, Granting(fam, s), NEW oom,
           NEW p \in Seq(Requests(fam)), NEW s0, KeysKept(s, s0, p)
    PROVE  KeysKept(GrantPass(s, oom), s0, p)
  <1> DEFINE N == Len(s.reqs)
             w == GrantTurns(s, oom)
             G(n) == Granting(fam, w[n]) /\ KeysKept(w[n], s0, p)
             T == {n \in Nat : n <= N => G(n)}
  <1>1. s.reqs \in Seq(Requests(fam)) /\ N \in Nat /\ DOMAIN s.reqs = 1..N
    BY DEF Granting
  <1>2. /\ w[0] = [s EXCEPT !.reqs = <<>>]
        /\ \A n \in 1..N : w[n] = GrantTurn(w[n-1], s.reqs[n], oom)
    BY <1>1, GrantTurnsTurns
  <1> HIDE DEF w
  <1>3. 0 \in T
    <2>1. <<>> \in Seq(Requests(fam)) /\ DOMAIN <<>> = {}
      OBVIOUS
    <2>2. w[0].locks = s.locks /\ w[0].reqs = <<>> /\ w[0].granted = s.granted
          /\ w[0] = [locks |-> w[0].locks, reqs |-> w[0].reqs, granted |-> w[0].granted]
      BY <1>2 DEF Granting
    <2>3. Granting(fam, w[0])
      BY <2>1, <2>2 DEF Granting
    <2>4. KeysKept(w[0], s0, p)
      BY <2>1, <2>2 DEF KeysKept, From
    <2> QED BY <2>3, <2>4
  <1>4. ASSUME NEW n \in Nat, n \in T PROVE n+1 \in T
    <2> SUFFICES ASSUME n+1 <= N PROVE G(n+1)
      <3> HIDE DEF G
      <3> QED OBVIOUS
    <2>1. G(n) /\ n+1 \in 1..N /\ (n+1)-1 = n
      <3> HIDE DEF G
      <3> QED BY <1>1, <1>4
    <2>2. w[n+1] = GrantTurn(w[n], s.reqs[n+1], oom)
      BY <1>2, <2>1
    <2>3. PICK k \in DOMAIN p : s.reqs[n+1] = p[k]
      BY <1>1, <2>1 DEF KeysKept, From
    <2>4. KeysKept(w[n+1], s0, p)
      BY <2>1, <2>2, <2>3, TurnOwned
    <2>5. Granting(fam, w[n+1])
      BY <1>1, <2>1, <2>2, GrantTurnCases
    <2> QED BY <2>4, <2>5
  <1>5. \A n \in Nat : n \in T
    <2> HIDE DEF T
    <2> QED BY <1>3, <1>4, NatSetInduction
  <1>6. G(N)
    <2> HIDE DEF G
    <2> QED BY <1>1, <1>5
  <1> QED BY <1>6 DEF GrantPass, w

(* file_lock_process_requests gives locks only to those that want some. *)
LEMMA ProcessOwned ==
    ASSUME NEW fam \in Families, NEW locks0, ListOf(fam, locks0), NEW reqs \in Seq(Requests(fam)), NEW oom
    PROVE  KeysKept(ProcessRequests(locks0, reqs, oom), locks0, reqs)
  <1> DEFINE N == Len(reqs)
             w == GrantPasses(locks0, reqs, oom)
             G(n) == Granting(fam, w[n]) /\ KeysKept(w[n], locks0, reqs)
             T == {n \in Nat : n <= N => G(n)}
  <1>1. N \in Nat /\ DOMAIN reqs = 1..N
    OBVIOUS
  <1>2. /\ w[0] = [locks |-> locks0, reqs |-> reqs, granted |-> {}]
        /\ \A n \in 1..N : w[n] = GrantPass(w[n-1], oom)
    BY <1>1, GrantPassesTurns
  <1> HIDE DEF w
  <1>3. 0 \in T
    <2>1. Granting(fam, w[0])
      BY <1>2 DEF Granting
    <2>2. w[0].locks = locks0 /\ w[0].reqs = reqs
      BY <1>2
    <2>3. KeysKept(w[0], locks0, reqs)
      BY <2>2 DEF KeysKept, From
    <2> QED BY <2>1, <2>3
  <1>4. ASSUME NEW n \in Nat, n \in T PROVE n+1 \in T
    <2> SUFFICES ASSUME n+1 <= N PROVE G(n+1)
      <3> HIDE DEF G
      <3> QED OBVIOUS
    <2>1. G(n) /\ n+1 \in 1..N /\ (n+1)-1 = n
      <3> HIDE DEF G
      <3> QED BY <1>1, <1>4
    <2>2. w[n+1] = GrantPass(w[n], oom)
      BY <1>2, <2>1
    <2>3. Granting(fam, w[n+1])
      BY <2>1, <2>2, PassDone
    <2>4. KeysKept(w[n+1], locks0, reqs)
      BY <2>1, <2>2, PassOwned
    <2> QED BY <2>3, <2>4
  <1>5. \A n \in Nat : n \in T
    <2> HIDE DEF T
    <2> QED BY <1>3, <1>4, NatSetInduction
  <1>6. G(N)
    <2> HIDE DEF G
    <2> QED BY <1>1, <1>5
  <1> QED BY <1>6 DEF ProcessRequests, w

(* What a change of the object from d to e gives: locks to those that want *)
(* some, and to the owners in new, for which thread t asks.                *)
Effect(d, e, t, new) ==
    /\ Owned(e.locks) \subseteq Owned(d.locks) \cup Wanted(d.reqs) \cup new
    /\ Wanted(e.reqs) \subseteq Wanted(d.reqs) \cup new
    /\ Askers(e.reqs) \subseteq Askers(d.reqs) \cup (IF new = {} THEN {} ELSE {t})

(* The object is freed if it is empty. *)
LEMMA GcKeys == \A d : Gc(d).locks = d.locks /\ Gc(d).reqs = d.reqs
  BY DEF Gc, EmptyDent

(* Nothing changes. *)
LEMMA NoEffect ==
    ASSUME NEW d, NEW e, e.locks = d.locks, From(e.reqs, d.reqs), NEW t, NEW new
    PROVE  Effect(d, e, t, new)
  BY FromKeys DEF Effect

(* file_lock_set_or_add_request. *)
LEMMA SetOwned ==
    ASSUME GoodDent(dent), NEW t, NEW g \in Families, NEW l \in AskedOf(g), NEW wait,
           NEW o \in SetOrAddRequest(t, l, wait)
    PROVE  /\ Effect(dent, o.dent, t, New(l))
           /\ g = "FLOCK" /\ l.type = "UNLCK" /\ Key(l) \notin Wanted(dent.reqs) =>
                 Key(l) \notin Owned(o.dent.locks)
           /\ o.queued => l.type # "UNLCK"
  <1>1. PICK fam \in Families : DentOf(fam, dent)
    BY DEF GoodDent
  <1>2. dent.reqs \in Seq(Requests(fam)) /\ ListOf(fam, dent.locks) /\ dent.used \subseteq {fam}
        /\ dent = [locks |-> dent.locks, reqs |-> dent.reqs, used |-> dent.used]
    BY <1>1 DEF DentOf
  <1>3. l.family = g
    BY AskedFamily
  <1>4. From(dent.reqs, dent.reqs)
    BY DEF From
  <1>5. ASSUME NEW ret, o = Outcome(dent, ret, {}, FALSE)
        PROVE  Effect(dent, o.dent, t, New(l)) /\ o.dent.locks = dent.locks /\ ~o.queued
    <2>1. o.dent = Gc(dent) /\ ~o.queued
      BY <1>5 DEF Outcome
    <2> QED BY <1>4, <2>1, GcKeys, NoEffect
  <1>6. CASE l.type = "UNLCK" /\ dent = EmptyDent
    <2>1. o = Outcome(dent, "OK", {}, FALSE)
      BY <1>6 DEF SetOrAddRequest, Mixes
    <2>2. Owned(dent.locks) = {}
      BY <1>6 DEF Owned, EmptyDent
    <2> QED BY <1>5, <2>1, <2>2
  <1>7. CASE Mixes(l)
    <2>1. o = Outcome(dent, "EPERM", {}, FALSE) /\ l.type # "UNLCK"
      BY <1>7 DEF SetOrAddRequest, Mixes
    <2> QED BY <1>5, <2>1
  <1>8. CASE ~Mixes(l) /\ l.type # "UNLCK" /\ HasConflict(dent.locks, l)
    <2>1. o \in {Outcome(AddRequest(t, l), "OK", {}, TRUE)} \cup NoMemory \cup {Outcome(dent, "EAGAIN", {}, FALSE)}
      BY <1>8 DEF SetOrAddRequest
    <2>2. CASE o = Outcome(AddRequest(t, l), "OK", {}, TRUE)
      <3> DEFINE r == [lock |-> l, thread |-> t, notify |-> FALSE]
                 q == <<r>> \o dent.reqs
      <3>1. o.dent = Gc(AddRequest(t, l))
        BY <2>2 DEF Outcome
      <3>2. AddRequest(t, l).locks = dent.locks /\ AddRequest(t, l).reqs = q
        BY <1>2 DEF AddRequest
      <3>3. o.dent.locks = dent.locks /\ o.dent.reqs = q
        BY <3>1, <3>2, GcKeys
      <3>4. \A i \in DOMAIN q : q[i] = r \/ \E j \in DOMAIN dent.reqs : q[i] = dent.reqs[j]
        <4> DEFINE S == Requests(fam) \cup {r}
        <4>1. <<r>> \in Seq(S) /\ dent.reqs \in Seq(S) /\ Len(<<r>>) = 1 /\ <<r>>[1] = r
          BY <1>2
        <4>2. /\ DOMAIN q = 1..(1 + Len(dent.reqs)) /\ Len(dent.reqs) \in Nat /\ DOMAIN dent.reqs = 1..Len(dent.reqs)
              /\ \A i \in DOMAIN q : q[i] = IF i <= 1 THEN <<r>>[i] ELSE dent.reqs[i-1]
          <5> HIDE DEF S, r
          <5> QED BY <4>1, ConcatProperties
        <4> HIDE DEF S, r, q
        <4> QED BY <4>1, <4>2
      <3> HIDE DEF q
      <3>5. r.lock = l /\ r.thread = t
        OBVIOUS
      <3>6. New(l) = {Key(l)}
        BY <1>8 DEF New
      <3> HIDE DEF r
      <3>7. Wanted(q) \subseteq Wanted(dent.reqs) \cup {Key(l)} /\ Askers(q) \subseteq Askers(dent.reqs) \cup {t}
        BY <3>4, <3>5 DEF Wanted, Askers
      <3> QED BY <1>8, <3>3, <3>6, <3>7 DEF Effect
    <2>3. CASE o \in NoMemory
      <3>1. o = Outcome(dent, "ENOMEM", {}, FALSE)
        BY <2>3 DEF NoMemory
      <3> QED BY <1>5, <1>8, <3>1
    <2>4. CASE o = Outcome(dent, "EAGAIN", {}, FALSE)
      BY <1>5, <1>8, <2>4
    <2> QED BY <2>1, <2>2, <2>3, <2>4
  <1>9. CASE /\ ~(l.type = "UNLCK" /\ dent = EmptyDent) /\ ~Mixes(l)
             /\ ~(l.type # "UNLCK" /\ HasConflict(dent.locks, l))
    <2>1. o \in {SetAndProcess(l, oom) : oom \in OutOfMemory}
                \cup (IF l.family = "FLOCK" /\ l.type = "UNLCK" THEN {} ELSE NoMemory)
      BY <1>9 DEF SetOrAddRequest
    <2>2. CASE o \in NoMemory /\ ~(l.family = "FLOCK" /\ l.type = "UNLCK")
      <3>1. o = Outcome(dent, "ENOMEM", {}, FALSE)
        BY <2>2 DEF NoMemory
      <3> QED BY <1>3, <1>5, <2>2, <3>1
    <2>3. CASE \E oom \in OutOfMemory : o = SetAndProcess(l, oom)
      <3>1. PICK oom \in OutOfMemory : o = SetAndProcess(l, oom)
        BY <2>3
      <3> DEFINE s1 == LockSet(dent.locks, l)
                 s == ProcessRequests(s1, dent.reqs, oom)
      <3>2. o.dent = Gc([locks |-> s.locks, reqs |-> s.reqs, used |-> UsedAfter(dent, l)]) /\ ~o.queued
        BY <3>1 DEF SetAndProcess, Outcome
      <3>3. o.dent.locks = s.locks /\ o.dent.reqs = s.reqs
        BY <3>2, GcKeys
      <3>4. PICK f \in Families : DentOf(f, dent) /\ (l.type # "UNLCK" => f = g)
        BY <1>1, <1>3, <1>9, NoMix
      <3>5. l.type # "UNLCK" => ~HasConflict(dent.locks, l)
        BY <1>9
      <3>6. ListOf(f, dent.locks) /\ dent.reqs \in Seq(Requests(f))
        BY <3>4 DEF DentOf
      <3>7. ListOf(f, s1)
        BY <3>4, <3>5, <3>6, LockSetGood
      <3>8. /\ Owned(s1) \subseteq Owned(dent.locks) \cup New(l)
            /\ g = "FLOCK" /\ l.type = "UNLCK" => Key(l) \notin Owned(s1)
        BY <3>4, <3>5, <3>6, OwnedAfterSet
      <3> HIDE DEF s1
      <3>9. KeysKept(s, s1, dent.reqs)
        BY <3>6, <3>7, ProcessOwned
      <3> HIDE DEF s
      <3>10. Owned(s.locks) \subseteq Owned(s1) \cup Wanted(dent.reqs)
             /\ Wanted(s.reqs) \subseteq Wanted(dent.reqs) /\ Askers(s.reqs) \subseteq Askers(dent.reqs)
        BY <3>9, FromKeys DEF KeysKept
      <3>11. Effect(dent, o.dent, t, New(l))
        BY <3>3, <3>8, <3>10 DEF Effect
      <3> QED BY <3>2, <3>3, <3>8, <3>10, <3>11
    <2> QED BY <1>3, <2>1, <2>2, <2>3
  <1> QED BY <1>6, <1>7, <1>8, <1>9

(* file_lock_clear_pid_from_dentry takes the locks of a process that does  *)
(* not ask for any, and gives locks only to those that want some.          *)
LEMMA ClearOwned ==
    ASSUME GoodDent(dent), NEW pid, NEW oom, NEW t
    PROVE  LET o == ClearPidFromDentry(pid, oom)
           IN /\ Effect(dent, o.dent, t, {})
              /\ <<"POSIX", pid>> \notin Owned(o.dent.locks)
  <1> DEFINE o == ClearPidFromDentry(pid, oom)
             D == {i \in DOMAIN dent.reqs : OfPid(dent.reqs[i].lock, pid)}
             E == {i \in DOMAIN dent.locks : OfPid(dent.locks[i], pid)}
             rest == Remaining(dent.reqs, D)
             locks0 == WithoutPid(dent.locks, pid)
             s == ProcessRequests(locks0, rest, oom)
             k == <<"POSIX", pid>>
  <1>1. PICK fam \in Families : DentOf(fam, dent)
    BY DEF GoodDent
  <1>2. dent.reqs \in Seq(Requests(fam)) /\ ListOf(fam, dent.locks)
        /\ dent = [locks |-> dent.locks, reqs |-> dent.reqs, used |-> dent.used]
    BY <1>1 DEF DentOf
  <1>3. rest \in Seq(Requests(fam)) /\ IsRest(rest, dent.reqs, D, Len(dent.reqs))
    BY <1>2, WithoutRest
  <1>4. ListOf(fam, locks0)
    BY <1>2, WithoutGood DEF WithoutPid
  <1>5. /\ \A i \in DOMAIN locks0 : \E a \in DOMAIN dent.locks : a \notin E /\ locks0[i] = dent.locks[a]
    <2>1. \E S : dent.locks \in Seq(S)
      <3>1. CASE fam = "POSIX"
        BY <1>2, <3>1 DEF ListOf, PosixList, GoodList
      <3>2. CASE fam = "FLOCK"
        BY <1>2, <3>2 DEF ListOf, FlockList
      <3> QED BY <3>1, <3>2 DEF Families
    <2>2. PICK S : dent.locks \in Seq(S)
      BY <2>1
    <2>3. IsRest(locks0, dent.locks, E, Len(dent.locks)) /\ DOMAIN dent.locks = 1..Len(dent.locks)
      BY <2>2, WithoutRest DEF WithoutPid
    <2> HIDE DEF locks0, E
    <2> QED BY <2>3 DEF IsRest
  <1>6. \A i \in DOMAIN rest : \E a \in DOMAIN dent.reqs : a \notin D /\ rest[i] = dent.reqs[a]
    <2>1. DOMAIN dent.reqs = 1..Len(dent.reqs)
      BY <1>2
    <2> HIDE DEF rest, D
    <2> QED BY <1>3, <2>1 DEF IsRest
  <1>7. Owned(locks0) \subseteq Owned(dent.locks) /\ k \notin Owned(locks0)
    <2>1. ASSUME NEW i \in DOMAIN locks0 PROVE Key(locks0[i]) \in Owned(dent.locks) /\ Key(locks0[i]) # k
      <3>1. PICK a \in DOMAIN dent.locks : a \notin E /\ locks0[i] = dent.locks[a]
        BY <1>5
      <3>2. ~OfPid(dent.locks[a], pid)
        BY <3>1
      <3> HIDE DEF locks0
      <3> QED BY <3>1, <3>2 DEF OfPid, Key, Owned
    <2> HIDE DEF locks0, k
    <2> QED BY <2>1 DEF Owned
  <1>8. From(rest, dent.reqs) /\ k \notin Wanted(rest)
    <2>1. ASSUME NEW i \in DOMAIN rest PROVE Key(rest[i].lock) # k
      <3>1. PICK a \in DOMAIN dent.reqs : a \notin D /\ rest[i] = dent.reqs[a]
        BY <1>6
      <3>2. ~OfPid(dent.reqs[a].lock, pid)
        BY <3>1
      <3> HIDE DEF rest
      <3> QED BY <3>1, <3>2 DEF OfPid, Key
    <2> HIDE DEF rest, k, D
    <2> QED BY <1>6, <2>1 DEF Wanted, From
  <1>9. KeysKept(s, locks0, rest)
    BY <1>3, <1>4, ProcessOwned
  <1>10. /\ Wanted(rest) \subseteq Wanted(dent.reqs) /\ Askers(rest) \subseteq Askers(dent.reqs)
         /\ Wanted(s.reqs) \subseteq Wanted(rest) /\ Askers(s.reqs) \subseteq Askers(rest)
         /\ Owned(s.locks) \subseteq Owned(locks0) \cup Wanted(rest)
    <2> HIDE DEF s, rest, locks0
    <2> QED BY <1>8, <1>9, FromKeys DEF KeysKept
  <1>11. CASE locks0 = dent.locks
    <2>1. o = [dent |-> [dent EXCEPT !.reqs = rest], granted |-> {}]
      BY <1>11 DEF ClearPidFromDentry
    <2>2. o.dent.locks = dent.locks /\ o.dent.reqs = rest
      BY <1>2, <2>1
    <2> HIDE DEF o, s, rest, locks0, k
    <2>3. Effect(dent, o.dent, t, {}) /\ k \notin Owned(o.dent.locks)
      BY <1>7, <1>8, <1>11, <2>2, NoEffect
    <2> QED BY <2>3 DEF o, k
  <1>12. CASE locks0 # dent.locks
    <2> DEFINE d1 == [dent EXCEPT !.locks = s.locks]
               d2 == [d1 EXCEPT !.reqs = s.reqs]
    <2>1. o = Outcome(d2, "OK", s.granted, FALSE)
      BY <1>12 DEF ClearPidFromDentry
    <2>2. d1.locks = s.locks /\ d2.locks = d1.locks /\ d2.reqs = s.reqs
      BY <1>2
    <2>3. o.dent = Gc(d2)
      BY <2>1 DEF Outcome
    <2> HIDE DEF o, s, d1, d2, rest, locks0, k
    <2>4. o.dent.locks = s.locks /\ o.dent.reqs = s.reqs
      BY <2>2, <2>3, GcKeys
    <2>5. Effect(dent, o.dent, t, {}) /\ k \notin Owned(o.dent.locks)
      BY <1>7, <1>8, <1>10, <2>4 DEF Effect
    <2> QED BY <2>5 DEF o, k
  <1> QED BY <1>11, <1>12

-----------------------------------------------------------------------------
(* What an exited process leaves                                           *)

(* No two processes have the same handle. *)
HandlesApart == \A p, q \in Pids : HandleOf[p] = HandleOf[q] => p = q

(* Nobody uses BSD locks. *)
OnlyPosix == \A t \in Threads : \A a \in scenario.asks[t] : a.family = "POSIX"

(* The path of the file can be looked up by whoever closes a BSD lock. *)
LookupsWork == "lookup" \notin scenario.failures \/ OnlyPosix

(* What process p can own. *)
Mine(p) == {<<"POSIX", p>>, <<"FLOCK", HandleOf[p]>>}

PosixGone(p) == <<"POSIX", p>> \notin Owned(dent.locks)
FlockGone(p) == LookupsWork => <<"FLOCK", HandleOf[p]>> \notin Owned(dent.locks)

(* The last thread x of p is in file_lock_clear_pid, or closes the handle. *)
LastCall(p, x) ==
    \/ /\ proc[p] = "clearing" /\ op[x].kind = "CLEAR"
       /\ phase[x] = "called" \/ (phase[x] = "answered" /\ PosixGone(p))
    \/ /\ proc[p] = "detaching" /\ op[x].kind = "SET" /\ op[x].lock = UnlockAll(p, "FLOCK")
       /\ phase[x] = "called" \/ (phase[x] = "answered" /\ FlockGone(p))

(* A process that exits. *)
Closing(p) == proc[p] \in {"clearing", "detaching", "exited"} =>
    /\ p # Leader
    /\ \A x, y \in Threads : ProcOf[x] = p /\ ProcOf[y] = p /\ x # y => phase[x] = "idle" \/ phase[y] = "idle"
    /\ \A x \in Threads : ProcOf[x] = p => phase[x] = "idle" \/ LastCall(p, x)
    /\ proc[p] # "clearing" => PosixGone(p)
    /\ proc[p] = "exited" => /\ ClosesHandle(p) => FlockGone(p)
                             /\ \A x \in Askers(dent.reqs) : ProcOf[x] # p

(* The flag maybe_has_file_locks is not set: nothing of p is in the leader. *)
Unflagged(p) == p # Leader /\ ~maybe[p] =>
    /\ Owned(dent.locks) \cap Mine(p) = {} /\ Wanted(dent.reqs) \cap Mine(p) = {}
    /\ \A x \in Threads : ProcOf[x] = p /\ op[x].kind = "SET" => op[x].lock.type = "UNLCK"

NoFlocks == OnlyPosix => \A k \in Owned(dent.locks) \cup Wanted(dent.reqs) : k[1] # "FLOCK"

ExitInv == /\ maybe = [p \in Pids |-> maybe[p]]
           /\ NoFlocks
           /\ \A p \in Pids : Closing(p) /\ Unflagged(p)

(* A lock that thread t may ask for belongs to its process, and is of a    *)
(* family that it uses.                                                    *)
LEMMA OwnKey ==
    ASSUME NEW t \in Threads, NEW l, IsOwn(t, l)
    PROVE  /\ Key(l) \in Mine(ProcOf[t])
           /\ OnlyPosix /\ l.type # "UNLCK" => l.family = "POSIX"
  <1>1. /\ l.family \in Families
        /\ l.type # "UNLCK" => \E a \in scenario.asks[t] : a.family = l.family
        /\ l.owner = IF l.family = "POSIX" THEN ProcOf[t] ELSE HandleOf[ProcOf[t]]
    BY IsOwnFields
  <1>2. l.family = "POSIX" \/ l.family = "FLOCK"
    BY <1>1 DEF Families
  <1>3. Key(l) = <<"POSIX", ProcOf[t]>> \/ Key(l) = <<"FLOCK", HandleOf[ProcOf[t]]>>
    BY <1>1, <1>2 DEF Key
  <1> QED BY <1>1, <1>3 DEF Mine, OnlyPosix

(* Two processes own nothing in common. *)
LEMMA MineApart ==
    ASSUME HandlesApart, NEW p \in Pids, NEW q \in Pids, p # q
    PROVE  Mine(p) \cap Mine(q) = {}
  BY DEF HandlesApart, Mine

(* A process of which no thread waits wants nothing. *)
LEMMA NobodyWants ==
    ASSUME LockInv, Waiting, HandlesApart, NEW p \in Pids, p # Leader,
           \A x \in Threads : ProcOf[x] = p => phase[x] # "waiting"
    PROVE  /\ Wanted(dent.reqs) \cap Mine(p) = {}
           /\ \A x \in Askers(dent.reqs) : ProcOf[x] # p
  <1>1. PICK fam \in Families : dent.reqs \in Seq(Requests(fam))
    BY DEF LockInv, GoodDent, DentOf
  <1>2. ASSUME NEW i \in DOMAIN dent.reqs
        PROVE  ProcOf[dent.reqs[i].thread] # p /\ Key(dent.reqs[i].lock) \notin Mine(p)
    <2> DEFINE r == dent.reqs[i]
    <2>1. r \in Requests(fam)
      BY <1>1
    <2>2. r.thread \in Threads /\ IsOwn(r.thread, r.lock)
      BY <2>1 DEF Requests, Waiting, RequestsTrue, TrueRequest
    <2>3. ProcOf[r.thread] \in Pids
      BY <2>2, ProcsAssumption
    <2>4. ProcOf[r.thread] # p
      <3> SUFFICES ASSUME ProcOf[r.thread] = p PROVE FALSE
        OBVIOUS
      <3>1. r.thread \notin Loose
        BY <2>2, LooseLeader
      <3>2. phase[r.thread] = "waiting"
        BY <2>2, <3>1 DEF Live, Waiting, WaitersAsk
      <3> QED BY <2>2, <3>2
    <2>5. Key(r.lock) \in Mine(ProcOf[r.thread])
      BY <2>2, OwnKey
    <2> HIDE DEF r
    <2>6. Mine(ProcOf[r.thread]) \cap Mine(p) = {}
      BY <2>3, <2>4, MineApart
    <2> QED BY <2>4, <2>5, <2>6 DEF r
  <1> QED BY <1>2 DEF Wanted, Askers

(* A step of thread t is no matter to another process p. *)
LEMMA OthersExit ==
    ASSUME LockInv, Waiting, HandlesApart, ExitInv, scenario' = scenario, NEW p \in Pids, NEW q \in Pids, p # q,
           NEW t, ProcOf[t] = q, NEW new, new \subseteq Mine(q), Effect(dent, dent', t, new),
           \A x \in Threads : ProcOf[x] = p => op'[x] = op[x] /\ (phase'[x] = phase[x] \/ phase[x] = "waiting"),
           proc'[p] = proc[p], maybe'[p] = maybe[p]
    PROVE  Closing(p)' /\ Unflagged(p)'
  <1>1. Closing(p) /\ Unflagged(p)
    BY DEF ExitInv
  <1>2. new \cap Mine(p) = {}
    BY MineApart
  <1>3. /\ Owned(dent.locks)' \subseteq Owned(dent.locks) \cup Wanted(dent.reqs) \cup new
        /\ Wanted(dent.reqs)' \subseteq Wanted(dent.reqs) \cup new
        /\ \A x \in Askers(dent.reqs)' : x \in Askers(dent.reqs) \/ x = t
    BY DEF Effect, Owned, Wanted, Askers
  <1>4. Mine(p)' = Mine(p)
    BY DEF Mine
  <1>5. Unflagged(p)'
    BY <1>1, <1>2, <1>3, <1>4 DEF Unflagged
  <1>6. ASSUME proc[p] \in {"clearing", "detaching", "exited"} PROVE Closing(p)'
    <2>1. /\ p # Leader
          /\ \A x \in Threads : ProcOf[x] = p => phase[x] # "waiting"
      BY <1>1, <1>6 DEF Closing, LastCall
    <2>2. Wanted(dent.reqs) \cap Mine(p) = {} /\ \A x \in Askers(dent.reqs) : ProcOf[x] # p
      BY <2>1, NobodyWants
    <2>3. <<"POSIX", p>> \in Mine(p) /\ <<"FLOCK", HandleOf[p]>> \in Mine(p)
      BY DEF Mine
    <2>4. (PosixGone(p) => PosixGone(p)') /\ (FlockGone(p) => FlockGone(p)')
      BY <1>2, <1>3, <2>2, <2>3 DEF PosixGone, FlockGone, LookupsWork, OnlyPosix
    <2>5. \A x \in Threads : ProcOf[x] = p => phase'[x] = phase[x] /\ op'[x] = op[x]
      BY <2>1
    <2>6. \A x \in Threads : ProcOf[x] = p => (LastCall(p, x) => LastCall(p, x)')
      BY <2>4, <2>5 DEF LastCall
    <2>7. \A x \in Askers(dent.reqs)' : ProcOf[x] # p
      BY <1>3, <2>2
    <2> QED BY <1>1, <1>6, <2>1, <2>4, <2>5, <2>6, <2>7 DEF Closing
  <1> QED BY <1>5, <1>6 DEF Closing

(* No BSD locks come where nobody uses them. *)
LEMMA NoFlocksKept ==
    ASSUME NoFlocks, scenario' = scenario, NEW t \in Threads, NEW l, IsOwn(t, l),
           NEW new, new \subseteq New(l), Effect(dent, dent', t, new)
    PROVE  NoFlocks'
  <1>1. OnlyPosix' <=> OnlyPosix
    BY DEF OnlyPosix
  <1>2. OnlyPosix => \A k \in new : k[1] # "FLOCK"
    BY OwnKey DEF New, Key
  <1>3. /\ Owned(dent.locks)' \subseteq Owned(dent.locks) \cup Wanted(dent.reqs) \cup new
        /\ Wanted(dent.reqs)' \subseteq Wanted(dent.reqs) \cup new
    BY DEF Effect, Owned, Wanted
  <1> QED BY <1>1, <1>2, <1>3 DEF NoFlocks

(* Nothing is taken, given or asked for, and nobody gets further. *)
LEMMA ExitSame ==
    ASSUME ExitInv, scenario' = scenario, UNCHANGED <<maybe, op, phase>>,
           Owned(dent.locks)' = Owned(dent.locks), Wanted(dent.reqs)' = Wanted(dent.reqs),
           Askers(dent.reqs)' = Askers(dent.reqs),
           \A p \in Pids : proc'[p] = proc[p] \/ proc'[p] = "killed"
    PROVE  ExitInv'
  <1>1. NoFlocks' /\ maybe' = [p \in Pids |-> maybe'[p]]
    BY DEF ExitInv, NoFlocks, OnlyPosix
  <1>2. ASSUME NEW p \in Pids PROVE Closing(p)' /\ Unflagged(p)'
    <2>1. Closing(p) /\ Unflagged(p)
      BY DEF ExitInv
    <2>2. (PosixGone(p) <=> PosixGone(p)') /\ (FlockGone(p) <=> FlockGone(p)')
      BY DEF PosixGone, FlockGone, LookupsWork, OnlyPosix
    <2>3. Unflagged(p)'
      BY <2>1 DEF Unflagged, Mine
    <2>4. CASE proc'[p] = "killed"
      BY <2>3, <2>4 DEF Closing
    <2>5. CASE proc'[p] = proc[p]
      <3>1. \A x \in Threads : LastCall(p, x) => LastCall(p, x)'
        BY <2>2, <2>5 DEF LastCall
      <3> QED BY <2>1, <2>2, <2>3, <2>5, <3>1 DEF Closing
    <2> QED BY <2>4, <2>5
  <1> QED BY <1>1, <1>2 DEF ExitInv

(* A step of thread t that sets locks of the owners new. *)
OwnStep(t, new) ==
    /\ new \subseteq Mine(ProcOf[t]) /\ Effect(dent, dent', t, new)
    /\ \A x \in Threads : x # t => op'[x] = op[x] /\ (phase'[x] = phase[x] \/ phase[x] = "waiting")
    /\ \A p \in Pids : p # ProcOf[t] => proc'[p] = proc[p] /\ maybe'[p] = maybe[p]
    /\ maybe' = [p \in Pids |-> maybe'[p]]
    /\ maybe[ProcOf[t]] => maybe'[ProcOf[t]]
    /\ ProcOf[t] # Leader /\ ~maybe'[ProcOf[t]] =>
          new = {} /\ (op'[t].kind = "SET" => op'[t].lock.type = "UNLCK")

(* What such a step has to keep is the exit of its own process. *)
LEMMA ExitFrame ==
    ASSUME LockInv, Waiting, HandlesApart, ExitInv, scenario' = scenario, NoFlocks',
           NEW t \in Threads, NEW new, OwnStep(t, new), Closing(ProcOf[t])'
    PROVE  ExitInv'
  <1> DEFINE q == ProcOf[t]
  <1>1. q \in Pids
    BY ProcsAssumption
  <1>2. maybe' = [p \in Pids |-> maybe'[p]]
    BY DEF OwnStep
  <1>3. new \subseteq Mine(q) /\ Effect(dent, dent', t, new)
    BY DEF OwnStep
  <1>4. ASSUME NEW p \in Pids, p # q PROVE Closing(p)' /\ Unflagged(p)'
    <2>1. /\ \A x \in Threads : ProcOf[x] = p => op'[x] = op[x] /\ (phase'[x] = phase[x] \/ phase[x] = "waiting")
          /\ proc'[p] = proc[p] /\ maybe'[p] = maybe[p]
      BY <1>4 DEF OwnStep
    <2> QED BY <1>1, <1>3, <1>4, <2>1, OthersExit
  <1>5. Unflagged(q)'
    <2> SUFFICES ASSUME q # Leader, ~maybe'[q]
                 PROVE  /\ Owned(dent'.locks) \cap Mine(q) = {} /\ Wanted(dent'.reqs) \cap Mine(q) = {}
                        /\ \A x \in Threads : ProcOf[x] = q /\ op'[x].kind = "SET" => op'[x].lock.type = "UNLCK"
      BY DEF Unflagged, Owned, Wanted, Mine
    <2>1. new = {} /\ (op'[t].kind = "SET" => op'[t].lock.type = "UNLCK") /\ ~maybe[q]
      BY DEF OwnStep
    <2>2. /\ Owned(dent.locks) \cap Mine(q) = {} /\ Wanted(dent.reqs) \cap Mine(q) = {}
          /\ \A x \in Threads : ProcOf[x] = q /\ op[x].kind = "SET" => op[x].lock.type = "UNLCK"
      BY <1>1, <2>1 DEF ExitInv, Unflagged
    <2>3. /\ Owned(dent'.locks) \subseteq Owned(dent.locks) \cup Wanted(dent.reqs)
          /\ Wanted(dent'.reqs) \subseteq Wanted(dent.reqs)
      BY <1>3, <2>1 DEF Effect
    <2>4. \A x \in Threads : x # t => op'[x] = op[x]
      BY DEF OwnStep
    <2> HIDE DEF q
    <2> QED BY <2>1, <2>2, <2>3, <2>4
  <1> QED BY <1>1, <1>2, <1>4, <1>5 DEF ExitInv

(* Only those who wait are served beside thread t. *)
LEMMA WaitersServed ==
    ASSUME LockInv, Waiting, NEW t \in Threads, NEW ret, NEW granted, Answer(t, ret, granted),
           NEW oom, \A g \in granted : \E k \in DOMAIN dent.reqs : g = Told(dent.reqs[k], oom)
    PROVE  /\ phase'[t] = "answered"
           /\ \A x \in Threads : x # t => phase'[x] = phase[x] \/ phase[x] = "waiting"
  <1>1. phase' = [x \in Threads |-> IF x = t THEN "answered"
                                    ELSE IF Lucky(x, granted) THEN "answered" ELSE phase[x]]
    BY AnswerPhase
  <1>2. ASSUME NEW x \in Threads, Lucky(x, granted) PROVE phase[x] = "waiting"
    <2>1. PICK g \in granted : g.notify /\ g.thread = x
      BY <1>2 DEF Lucky
    <2>2. PICK k \in DOMAIN dent.reqs : g = Told(dent.reqs[k], oom)
      BY <2>1
    <2>3. dent.reqs[k].thread = x /\ dent.reqs[k].notify
      BY <2>1, <2>2 DEF Told
    <2> QED BY <2>3 DEF Live, Waiting, WaitersAsk
  <1> QED BY <1>1, <1>2

(* What a process that is about to exit has left. *)
LEMMA ClosingAlone ==
    ASSUME LockInv, Waiting, HandlesApart, ExitInv, NEW t \in Threads, phase[t] # "idle",
           proc[ProcOf[t]] \in {"clearing", "detaching", "exited"}
    PROVE  /\ ProcOf[t] # Leader /\ LastCall(ProcOf[t], t)
           /\ proc[ProcOf[t]] # "clearing" => PosixGone(ProcOf[t])
           /\ \A x \in Threads : ProcOf[x] = ProcOf[t] /\ x # t => phase[x] = "idle"
           /\ Wanted(dent.reqs) \cap Mine(ProcOf[t]) = {}
           /\ \A x \in Askers(dent.reqs) : ProcOf[x] # ProcOf[t]
  <1>1. ProcOf[t] \in Pids
    BY ProcsAssumption
  <1>2. Closing(ProcOf[t])
    BY <1>1 DEF ExitInv
  <1>3. /\ ProcOf[t] # Leader /\ LastCall(ProcOf[t], t)
        /\ proc[ProcOf[t]] # "clearing" => PosixGone(ProcOf[t])
        /\ \A x \in Threads : ProcOf[x] = ProcOf[t] /\ x # t => phase[x] = "idle"
    BY <1>2 DEF Closing
  <1>4. \A x \in Threads : ProcOf[x] = ProcOf[t] => phase[x] # "waiting"
    BY <1>3 DEF LastCall
  <1> QED BY <1>1, <1>3, <1>4, NobodyWants

(* Only requests of the list are told a result. *)
LEMMA ServedOnly ==
    ASSUME LockInv, NEW q, NEW granted, NEW oom, Served(dent.reqs, Len(dent.reqs), q, granted, {}, oom)
    PROVE  \A g \in granted : \E k \in DOMAIN dent.reqs : g = Told(dent.reqs[k], oom)
  <1>1. PICK fam \in Families : dent.reqs \in Seq(Requests(fam))
    BY DEF LockInv, GoodDent, DentOf
  <1>2. DOMAIN dent.reqs = 1..Len(dent.reqs)
    BY <1>1
  <1> QED BY <1>2 DEF Served

(* The type of a lock that may be asked for. *)
LEMMA AskedType == \A g \in Families : \A l \in AskedOf(g) : l.type \in LockTypes
  BY DEF AskedOf, AskedLocks, FlockAsked

(* file_lock_set by a process that does not exit. *)
LEMMA SetExits ==
    ASSUME LockInv, Waiting, HandlesApart, ExitInv, scenario' = scenario, NEW t \in Threads,
           NEW l, IsOwn(t, l), NEW wait, Set(t, l, wait), proc[ProcOf[t]] = "running"
    PROVE  ExitInv'
  <1> DEFINE q == ProcOf[t]
  <1>1. q \in Pids /\ proc' = proc
    BY ProcsAssumption DEF Set
  <1>2. Closing(q)'
    BY <1>1 DEF Closing
  <1>3. Key(l) \in Mine(q)
    BY OwnKey
  <1>4. PICK g \in Families : l \in AskedOf(g)
    BY IsOwnFields
  <1>5. New(l) \subseteq Mine(q) /\ NoFlocks
    BY <1>3 DEF New, ExitInv
  <1>6. maybe = [p \in Pids |-> maybe[p]]
    BY DEF ExitInv
  <1>7. CASE RemoteSet(t, l, wait)
    <2>1. /\ dent' = dent /\ maybe' = [maybe EXCEPT ![q] = @ \/ FlagsLock(l)]
          /\ op' = [op EXCEPT ![t] = [kind |-> "SET", lock |-> l, wait |-> wait]]
      BY <1>7 DEF RemoteSet
    <2>2. Effect(dent, dent', t, {}) /\ {} \subseteq New(l)
      BY <2>1, NoEffect DEF From
    <2>3. \A x \in Threads : x # t => phase'[x] = phase[x] \/ phase[x] = "waiting"
      <3>1. CASE phase' = [phase EXCEPT ![t] = "called"]
        BY <3>1 DEF Waiting, Functions
      <3>2. CASE \E ret : Answer(t, ret, {})
        BY <3>2, WaitersServed
      <3> QED BY <1>7, <3>1, <3>2 DEF RemoteSet
    <2>4. /\ \A x \in Threads : x # t => op'[x] = op[x]
          /\ op'[t].lock = l
      BY <2>1 DEF LockInv, OpsOwn
    <2>5. /\ maybe' = [p \in Pids |-> maybe'[p]] /\ \A p \in Pids : p # q => maybe'[p] = maybe[p]
          /\ maybe'[q] = (maybe[q] \/ FlagsLock(l))
      BY <1>1, <1>6, <2>1
    <2>6. l.type \in LockTypes
      BY <1>4, AskedType
    <2>7. ~FlagsLock(l) => l.type = "UNLCK"
      BY <2>6 DEF FlagsLock, LockTypes
    <2>8. OwnStep(t, {})
      <3>1. maybe[q] => maybe'[q]
        BY <2>5
      <3>2. ~maybe'[q] => l.type = "UNLCK"
        BY <2>5, <2>7
      <3> QED BY <1>1, <2>2, <2>3, <2>4, <2>5, <3>1, <3>2 DEF OwnStep
    <2>9. NoFlocks'
      BY <1>5, <2>2, NoFlocksKept
    <2> QED BY <1>2, <2>8, <2>9, ExitFrame
  <1>8. CASE LeaderSet(t, l, wait)
    <2>1. PICK o \in SetOrAddRequest(t, l, wait) :
            \/ ~o.queued /\ dent' = o.dent /\ Answer(t, o.ret, o.granted)
            \/ /\ o.queued /\ dent' = SetNotify(o.dent, 1)
               /\ phase' = [phase EXCEPT ![t] = "waiting"] /\ UNCHANGED result
            \/ /\ o.queued /\ "event" \in scenario.failures /\ NoOrphan
               /\ dent' = o.dent /\ Answer(t, "ENOMEM", {})
      BY <1>8 DEF LeaderSet
    <2>2. SetDone(t, l, o) /\ Effect(dent, o.dent, t, New(l)) /\ OneEach(dent.reqs)
      BY <1>4, SetOrAddRequestDone, SetOwned DEF LockInv, Waiting
    <2>3. maybe' = maybe /\ q = Leader /\ \A x \in Threads : x # t => op'[x] = op[x]
      BY <1>8 DEF LeaderSet, LockInv, OpsOwn
    <2>4. Effect(dent, dent', t, New(l))
      <3>1. CASE dent' = o.dent
        BY <2>2, <3>1
      <3>2. CASE o.queued /\ dent' = SetNotify(o.dent, 1)
        <4> DEFINE e == SetNotify(o.dent, 1)
        <4>1. GoodDent(o.dent) /\ 1 \in DOMAIN o.dent.reqs
          <5>1. GoodDent(o.dent) /\ o.dent.reqs = <<[lock |-> l, thread |-> t, notify |-> FALSE]>> \o dent.reqs
            BY <2>2, <3>2 DEF SetDone
          <5>2. PICK fam \in Families : dent.reqs \in Seq(Requests(fam))
            BY DEF LockInv, GoodDent, DentOf
          <5> QED BY <5>1, <5>2, QueuedFirst
        <4>2. /\ e.locks = o.dent.locks /\ DOMAIN e.reqs = DOMAIN o.dent.reqs
              /\ \A j \in DOMAIN o.dent.reqs : /\ e.reqs[j].lock = o.dent.reqs[j].lock
                                               /\ e.reqs[j].thread = o.dent.reqs[j].thread
          BY <4>1, SetNotifyGood
        <4> HIDE DEF e
        <4>3. Wanted(e.reqs) = Wanted(o.dent.reqs) /\ Askers(e.reqs) = Askers(o.dent.reqs)
          BY <4>2 DEF Wanted, Askers
        <4>4. Effect(dent, e, t, New(l))
          BY <2>2, <4>2, <4>3 DEF Effect
        <4> QED BY <3>2, <4>4 DEF e
      <3> QED BY <2>1, <3>1, <3>2
    <2>5. \A x \in Threads : x # t => phase'[x] = phase[x] \/ phase[x] = "waiting"
      <3>1. CASE phase' = [phase EXCEPT ![t] = "waiting"]
        BY <3>1 DEF Waiting, Functions
      <3>2. CASE Answer(t, "ENOMEM", {})
        BY <3>2, WaitersServed
      <3>3. CASE ~o.queued /\ Answer(t, o.ret, o.granted)
        <4>1. PICK oom : Served(dent.reqs, Len(dent.reqs), o.dent.reqs, o.granted, {}, oom)
          BY <2>2, <3>3 DEF SetDone
        <4>2. \A h \in o.granted : \E k \in DOMAIN dent.reqs : h = Told(dent.reqs[k], oom)
          BY <4>1, ServedOnly
        <4> QED BY <3>3, <4>2, WaitersServed
      <3> QED BY <2>1, <3>1, <3>2, <3>3
    <2>6. OwnStep(t, New(l))
      BY <1>1, <1>5, <1>6, <2>3, <2>4, <2>5 DEF OwnStep
    <2>7. NoFlocks'
      BY <1>5, <2>4, NoFlocksKept
    <2> QED BY <1>2, <2>6, <2>7, ExitFrame
  <1> QED BY <1>7, <1>8 DEF Set

(* The system call of a process that does not exit returns. *)
LEMMA ReturnExits ==
    ASSUME LockInv, Waiting, HandlesApart, ExitInv, scenario' = scenario, NEW t \in Threads, Return(t)
    PROVE  ExitInv'
  <1>1. /\ proc[ProcOf[t]] = "running" /\ phase' = [phase EXCEPT ![t] = "idle"]
        /\ op' = [op EXCEPT ![t] = NoOp] /\ UNCHANGED <<dent, proc, maybe>>
    BY DEF Return
  <1>2. Closing(ProcOf[t])'
    BY <1>1 DEF Closing
  <1>3. Effect(dent, dent', t, {})
    BY <1>1, NoEffect DEF From
  <1>4. NoFlocks'
    BY <1>1 DEF ExitInv, NoFlocks, OnlyPosix, Owned, Wanted
  <1>5. \A x \in Threads : x # t => op'[x] = op[x] /\ phase'[x] = phase[x]
    BY <1>1 DEF LockInv, OpsOwn, Waiting, Functions
  <1>6. op'[t].kind # "SET"
    BY <1>1 DEF LockInv, OpsOwn, NoOp
  <1>7. OwnStep(t, {})
    BY <1>1, <1>3, <1>5, <1>6 DEF OwnStep, ExitInv
  <1> QED BY <1>2, <1>4, <1>7, ExitFrame

(* The last thread sends file_lock_clear_pid. *)
LEMMA ExitExits ==
    ASSUME LockInv, Waiting, HandlesApart, ExitInv, scenario' = scenario, NEW t \in Threads, Exit(t)
    PROVE  ExitInv'
  <1> DEFINE q == ProcOf[t]
  <1>1. /\ q \in scenario.quitters /\ \A x \in Threads : ProcOf[x] = q => phase[x] = "idle"
        /\ proc' = [proc EXCEPT ![q] = "clearing"]
        /\ op' = [op EXCEPT ![t] = [kind |-> "CLEAR"]] /\ phase' = [phase EXCEPT ![t] = "called"]
        /\ UNCHANGED <<dent, maybe>>
    BY DEF Exit
  <1>2. q # Leader /\ q \in Pids
    BY <1>1, ProcsAssumption DEF LockInv
  <1>3. Effect(dent, dent', t, {})
    BY <1>1, NoEffect DEF From
  <1>4. NoFlocks'
    BY <1>1 DEF ExitInv, NoFlocks, OnlyPosix, Owned, Wanted
  <1>5. /\ \A x \in Threads : x # t => op'[x] = op[x] /\ phase'[x] = phase[x]
        /\ op'[t].kind = "CLEAR" /\ phase'[t] = "called"
    BY <1>1 DEF LockInv, OpsOwn, Waiting, Functions
  <1>6. proc'[q] = "clearing" /\ \A p \in Pids : p # q => proc'[p] = proc[p]
    BY <1>1, <1>2 DEF Waiting, Functions
  <1>7. OwnStep(t, {})
    BY <1>1, <1>3, <1>5, <1>6 DEF OwnStep, ExitInv
  <1>8. Closing(q)'
    <2>1. LastCall(q, t)'
      BY <1>5, <1>6 DEF LastCall
    <2> QED BY <1>1, <1>2, <1>5, <1>6, <2>1 DEF Closing
  <1> QED BY <1>4, <1>7, <1>8, ExitFrame

(* Then it closes the handle, and exits. *)
LEMMA DetachExits ==
    ASSUME LockInv, Waiting, HandlesApart, ExitInv, scenario' = scenario, NEW t \in Threads, DetachAllFds(t)
    PROVE  ExitInv'
  <1> DEFINE q == ProcOf[t]
             l == UnlockAll(q, "FLOCK")
  <1>1. q \in Pids /\ phase[t] = "answered" /\ proc[q] \in {"clearing", "detaching", "exited"}
    BY ProcsAssumption DEF DetachAllFds
  <1>2. /\ q # Leader /\ LastCall(q, t)
        /\ proc[q] # "clearing" => PosixGone(q)
        /\ \A x \in Threads : ProcOf[x] = q /\ x # t => phase[x] = "idle"
        /\ \A x \in Askers(dent.reqs) : ProcOf[x] # q
    BY <1>1, ClosingAlone
  <1>3. PosixGone(q) /\ (proc[q] = "detaching" => FlockGone(q))
    BY <1>1, <1>2 DEF LastCall
  <1>4. dent' = dent
    BY DEF DetachAllFds, RemoteSet
  <1>5. Effect(dent, dent', t, {}) /\ NoFlocks'
    BY <1>4, NoEffect DEF From, ExitInv, NoFlocks, OnlyPosix, Owned, Wanted
  <1>6. PosixGone(q)' /\ (FlockGone(q) => FlockGone(q)') /\ Askers(dent.reqs)' = Askers(dent.reqs)
    BY <1>3, <1>4 DEF PosixGone, FlockGone, Owned, Askers, LookupsWork, OnlyPosix
  <1>7. CASE proc' = [proc EXCEPT ![q] = "detaching"] /\ RemoteSet(t, l, FALSE)
    <2>1. /\ maybe' = [maybe EXCEPT ![q] = @ \/ FlagsLock(l)]
          /\ op' = [op EXCEPT ![t] = [kind |-> "SET", lock |-> l, wait |-> FALSE]]
      BY <1>7 DEF RemoteSet
    <2>2. l.type = "UNLCK"
      BY DEF UnlockAll, OwnLock, FileLock
    <2> HIDE DEF l
    <2>3. /\ maybe' = [p \in Pids |-> maybe'[p]] /\ \A p \in Pids : p # q => maybe'[p] = maybe[p]
          /\ maybe'[q] = (maybe[q] \/ FlagsLock(l))
      BY <1>1, <2>1 DEF ExitInv
    <2>4. /\ \A x \in Threads : x # t => op'[x] = op[x]
          /\ op'[t].kind = "SET" /\ op'[t].lock = l
      BY <2>1 DEF LockInv, OpsOwn
    <2>5. proc'[q] = "detaching" /\ \A p \in Pids : p # q => proc'[p] = proc[p]
      BY <1>1, <1>7 DEF Waiting, Functions
    <2>6. /\ \A x \in Threads : x # t => phase'[x] = phase[x] \/ phase[x] = "waiting"
          /\ phase'[t] = "called" \/ (phase'[t] = "answered" /\ FlockGone(q))
      <3>1. CASE phase' = [phase EXCEPT ![t] = "called"]
        BY <3>1 DEF Waiting, Functions
      <3>2. CASE ShortCircuits(q, l) /\ Answer(t, "OK", {})
        <4>1. ~maybe[q]
          BY <3>2 DEF ShortCircuits
        <4>2. Owned(dent.locks) \cap Mine(q) = {}
          BY <1>1, <1>2, <4>1 DEF ExitInv, Unflagged
        <4>3. FlockGone(q)
          BY <4>2 DEF FlockGone, Mine
        <4> QED BY <3>2, <4>3, WaitersServed
      <3>3. CASE "lookup" \in scenario.failures /\ Answer(t, "ENOMEM", {})
        <4>1. LookupsWork => OnlyPosix
          BY <3>3 DEF LookupsWork
        <4>2. <<"FLOCK", HandleOf[q]>>[1] = "FLOCK"
          OBVIOUS
        <4>3. FlockGone(q)
          BY <4>1, <4>2 DEF ExitInv, NoFlocks, FlockGone
        <4> QED BY <3>3, <4>3, WaitersServed
      <3> QED BY <1>7, <3>1, <3>2, <3>3 DEF RemoteSet
    <2>7. OwnStep(t, {})
      <3>1. maybe[q] => maybe'[q]
        BY <2>3
      <3> QED BY <1>5, <2>2, <2>3, <2>4, <2>5, <2>6, <3>1 DEF OwnStep
    <2>8. Closing(q)'
      <3>1. LastCall(q, t)'
        BY <1>6, <2>4, <2>5, <2>6 DEF LastCall, l, UnlockAll, OwnLock
      <3>2. \A x \in Threads : ProcOf[x] = q /\ x # t => phase'[x] = "idle"
        BY <1>2, <2>6
      <3> QED BY <1>2, <1>6, <2>5, <3>1, <3>2 DEF Closing
    <2> QED BY <1>5, <2>7, <2>8, ExitFrame
  <1>8. CASE /\ proc[q] = IF ClosesHandle(q) THEN "detaching" ELSE "clearing"
             /\ proc' = [proc EXCEPT ![q] = "exited"] /\ op' = [op EXCEPT ![t] = NoOp]
             /\ phase' = [phase EXCEPT ![t] = "idle"] /\ maybe' = maybe
    <2>1. /\ \A x \in Threads : x # t => op'[x] = op[x] /\ phase'[x] = phase[x]
          /\ op'[t].kind # "SET" /\ phase'[t] = "idle"
      BY <1>8 DEF LockInv, OpsOwn, Waiting, Functions, NoOp
    <2>2. proc'[q] = "exited" /\ \A p \in Pids : p # q => proc'[p] = proc[p]
      BY <1>1, <1>8 DEF Waiting, Functions
    <2>3. OwnStep(t, {})
      BY <1>5, <1>8, <2>1, <2>2 DEF OwnStep, ExitInv
    <2>4. ClosesHandle(q) => FlockGone(q)'
      BY <1>3, <1>6, <1>8
    <2>5. Closing(q)'
      <3>1. \A x \in Threads : ProcOf[x] = q => phase'[x] = "idle"
        BY <1>2, <2>1
      <3>2. ClosesHandle(q)' <=> ClosesHandle(q)
        BY DEF ClosesHandle
      <3> QED BY <1>2, <1>6, <2>2, <2>4, <3>1, <3>2 DEF Closing
    <2> QED BY <1>5, <2>3, <2>5, ExitFrame
  <1> QED BY <1>7, <1>8 DEF DetachAllFds

(* The IPC worker handles a message of thread t. *)
LEMMA WorkerExits ==
    ASSUME LockInv, Waiting, HandlesApart, ExitInv, scenario' = scenario, NEW t \in Threads,
           NEW new, new \subseteq Mine(ProcOf[t]), Effect(dent, dent', t, new), NoFlocks',
           phase[t] = "called", UNCHANGED <<proc, maybe, op>>,
           ~maybe[ProcOf[t]] => new = {},
           phase'[t] \in {"answered", "waiting"},
           \A x \in Threads : x # t => phase'[x] = phase[x] \/ phase[x] = "waiting",
           proc[ProcOf[t]] \in {"clearing", "detaching"} =>
              /\ new = {} /\ phase'[t] = "answered"
              /\ proc[ProcOf[t]] = "clearing" => PosixGone(ProcOf[t])'
              /\ proc[ProcOf[t]] = "detaching" => FlockGone(ProcOf[t])'
    PROVE  ExitInv'
  <1> DEFINE q == ProcOf[t]
  <1>1. q \in Pids /\ q # Leader
    BY ProcsAssumption DEF Waiting, CallsRemote
  <1>2. OwnStep(t, new)
    <2>1. ~maybe[q] /\ op[t].kind = "SET" => op[t].lock.type = "UNLCK"
      BY <1>1 DEF ExitInv, Unflagged
    <2> QED BY <2>1 DEF OwnStep, ExitInv
  <1>3. ASSUME proc[q] \in {"clearing", "detaching", "exited"} PROVE Closing(q)'
    <2>1. /\ LastCall(q, t) /\ (proc[q] # "clearing" => PosixGone(q))
          /\ \A x \in Threads : ProcOf[x] = q /\ x # t => phase[x] = "idle"
          /\ Wanted(dent.reqs) \cap Mine(q) = {}
      BY <1>3, ClosingAlone
    <2>2. proc[q] # "exited"
      BY <2>1 DEF LastCall
    <2>3. Owned(dent.locks)' \subseteq Owned(dent.locks) \cup Wanted(dent.reqs)
      BY <1>3, <2>2 DEF Effect, Owned
    <2>4. proc[q] # "clearing" => PosixGone(q)'
      BY <2>1, <2>3 DEF PosixGone, Mine
    <2>5. LastCall(q, t)'
      BY <1>3, <2>1, <2>2 DEF LastCall, UnlockAll, OwnLock
    <2>6. \A x \in Threads : ProcOf[x] = q /\ x # t => phase'[x] = "idle"
      BY <2>1
    <2> QED BY <1>1, <2>2, <2>4, <2>5, <2>6 DEF Closing
  <1>4. Closing(q)'
    BY <1>3 DEF Closing
  <1> QED BY <1>2, <1>4, ExitFrame

(* file_lock_set_from_ipc. *)
LEMMA SetFromIpcExits ==
    ASSUME LockInv, Waiting, HandlesApart, ExitInv, scenario' = scenario, NEW t \in Threads,
           phase[t] = "called", UNCHANGED <<proc, maybe, op>>, SetFromIpc(t)
    PROVE  ExitInv'
  <1> DEFINE q == ProcOf[t]
             l == op[t].lock
  <1>1. q \in Pids /\ q # Leader /\ op[t].kind = "SET" /\ IsOwn(t, l)
    BY ProcsAssumption DEF Waiting, CallsRemote, SetFromIpc, LockInv, OpsOwn
  <1>2. New(l) \subseteq Mine(q)
    BY <1>1, OwnKey DEF New
  <1>3. ~maybe[q] => New(l) = {}
    BY <1>1 DEF ExitInv, Unflagged, New
  <1>4. ASSUME proc[q] \in {"clearing", "detaching"}
        PROVE  /\ proc[q] = "detaching" /\ l = UnlockAll(q, "FLOCK")
               /\ l.type = "UNLCK" /\ New(l) = {} /\ l.family = "FLOCK" /\ Key(l) = <<"FLOCK", HandleOf[q]>>
               /\ Key(l) \notin Wanted(dent.reqs)
    <2>1. LastCall(q, t) /\ Wanted(dent.reqs) \cap Mine(q) = {}
      BY <1>4, ClosingAlone
    <2>2. proc[q] = "detaching" /\ l = UnlockAll(q, "FLOCK")
      BY <1>1, <1>4, <2>1 DEF LastCall
    <2>3. l.type = "UNLCK" /\ l.family = "FLOCK" /\ l.owner = HandleOf[q]
      BY <2>2 DEF UnlockAll, OwnLock, FileLock
    <2> HIDE DEF l
    <2> QED BY <2>1, <2>2, <2>3 DEF New, Key, Mine
  <1>5. CASE \E o \in SetOrAddRequest(t, l, op[t].wait) :
             /\ dent' = o.dent
             /\ IF RespondsNow(o)
                THEN Answer(t, o.ret, o.granted) /\ UNCHANGED worker
                ELSE /\ phase' = [phase EXCEPT ![t] = "waiting"]
                     /\ worker' = t
                     /\ UNCHANGED result
    <2>1. PICK o \in SetOrAddRequest(t, l, op[t].wait) :
             /\ dent' = o.dent
             /\ IF RespondsNow(o)
                THEN Answer(t, o.ret, o.granted) /\ UNCHANGED worker
                ELSE /\ phase' = [phase EXCEPT ![t] = "waiting"]
                     /\ worker' = t
                     /\ UNCHANGED result
      BY <1>5
    <2>2. PICK g \in Families : l \in AskedOf(g)
      BY <1>1, IsOwnFields
    <2>3. g = l.family
      BY <2>2, AskedFamily
    <2>4. /\ Effect(dent, o.dent, t, New(l))
          /\ g = "FLOCK" /\ l.type = "UNLCK" /\ Key(l) \notin Wanted(dent.reqs) =>
                Key(l) \notin Owned(o.dent.locks)
          /\ o.queued => l.type # "UNLCK"
          /\ SetDone(t, l, o) /\ OneEach(dent.reqs)
      BY <2>2, SetOwned, SetOrAddRequestDone DEF LockInv, Waiting
    <2> HIDE DEF l
    <2>5. Effect(dent, dent', t, New(l)) /\ NoFlocks'
      BY <1>1, <2>1, <2>4, NoFlocksKept DEF ExitInv
    <2>6. /\ phase'[t] \in {"answered", "waiting"} /\ (~o.queued => phase'[t] = "answered")
          /\ \A x \in Threads : x # t => phase'[x] = phase[x] \/ phase[x] = "waiting"
      <3>1. CASE o.queued
        BY <2>1, <3>1 DEF RespondsNow, Waiting, Functions
      <3>2. CASE ~o.queued
        <4>1. PICK oom : Served(dent.reqs, Len(dent.reqs), o.dent.reqs, o.granted, {}, oom)
          BY <2>4, <3>2 DEF SetDone
        <4>2. \A h \in o.granted : \E k \in DOMAIN dent.reqs : h = Told(dent.reqs[k], oom)
          BY <4>1, ServedOnly
        <4>3. Answer(t, o.ret, o.granted)
          BY <2>1, <3>2 DEF RespondsNow
        <4> QED BY <3>2, <4>2, <4>3, WaitersServed
      <3> QED BY <3>1, <3>2
    <2>7. ASSUME proc[q] \in {"clearing", "detaching"}
          PROVE  New(l) = {} /\ phase'[t] = "answered" /\ proc[q] = "detaching" /\ FlockGone(q)'
      <3>1. FlockGone(q)'
        BY <1>4, <2>1, <2>3, <2>4, <2>7 DEF FlockGone, Owned
      <3> QED BY <1>4, <2>4, <2>6, <2>7, <3>1
    <2> QED BY <1>2, <1>3, <2>5, <2>6, <2>7, WorkerExits
  <1>6. CASE "lookup" \in scenario.failures /\ Answer(t, "ENOENT", {}) /\ dent' = dent
    <2>1. Effect(dent, dent', t, {}) /\ NoFlocks'
      BY <1>6, NoEffect DEF From, ExitInv, NoFlocks, OnlyPosix, Owned, Wanted
    <2>2. FlockGone(q)'
      <3>1. LookupsWork => OnlyPosix
        BY <1>6 DEF LookupsWork
      <3>2. <<"FLOCK", HandleOf[q]>>[1] = "FLOCK"
        OBVIOUS
      <3>3. FlockGone(q)
        BY <3>1, <3>2 DEF ExitInv, NoFlocks, FlockGone
      <3> QED BY <1>6, <3>3 DEF FlockGone, Owned, LookupsWork, OnlyPosix
    <2>3. /\ phase'[t] = "answered"
          /\ \A x \in Threads : x # t => phase'[x] = phase[x] \/ phase[x] = "waiting"
      BY <1>6, WaitersServed
    <2> HIDE DEF l
    <2>4. proc[q] \in {"clearing", "detaching"} => proc[q] = "detaching"
      BY <1>4
    <2> QED BY <2>1, <2>2, <2>3, <2>4, WorkerExits
  <1> QED BY <1>5, <1>6 DEF SetFromIpc

(* file_lock_clear_pid_from_ipc. *)
LEMMA ClearExits ==
    ASSUME LockInv, Waiting, HandlesApart, ExitInv, scenario' = scenario, NEW t \in Threads,
           phase[t] = "called", UNCHANGED <<proc, maybe, op>>, ClearPidFromIpc(t)
    PROVE  ExitInv'
  <1> DEFINE q == ProcOf[t]
  <1>1. PICK oom \in OutOfMemory : LET o == ClearPidFromDentry(ProcOf[t], oom) IN
          dent' = o.dent /\ Answer(t, "OK", o.granted)
    BY DEF ClearPidFromIpc
  <1> DEFINE o == ClearPidFromDentry(q, oom)
  <1>2. dent' = o.dent /\ Answer(t, "OK", o.granted)
    BY <1>1
  <1>3. Effect(dent, o.dent, t, {}) /\ <<"POSIX", q>> \notin Owned(o.dent.locks)
    BY ClearOwned DEF LockInv
  <1>4. PosixGone(q)' /\ Effect(dent, dent', t, {})
    BY <1>2, <1>3 DEF PosixGone, Owned
  <1>5. \A i \in DOMAIN dent.reqs : ~OfPid(dent.reqs[i].lock, q)
    BY ClearFinds DEF ClearPidFromIpc
  <1>6. OneEach(dent.reqs)
    BY DEF Waiting
  <1>7. Served(dent.reqs, Len(dent.reqs), o.dent.reqs, o.granted, {}, oom)
    BY <1>5, <1>6, ClearDone DEF LockInv
  <1>8. proc[q] \in {"clearing", "detaching"} => proc[q] = "clearing"
    <2>1. proc[q] \in {"clearing", "detaching"} => LastCall(q, t)
      BY ClosingAlone
    <2> QED BY <2>1 DEF LastCall, ClearPidFromIpc
  <1> HIDE DEF o
  <1>9. \A g \in o.granted : \E k \in DOMAIN dent.reqs : g = Told(dent.reqs[k], oom)
    BY <1>7, ServedOnly
  <1>10. /\ phase'[t] = "answered"
         /\ \A x \in Threads : x # t => phase'[x] = phase[x] \/ phase[x] = "waiting"
    BY <1>2, <1>9, WaitersServed
  <1>11. NoFlocks'
    <2>1. /\ Owned(dent.locks)' \subseteq Owned(dent.locks) \cup Wanted(dent.reqs)
          /\ Wanted(dent.reqs)' \subseteq Wanted(dent.reqs)
      BY <1>4 DEF Effect, Owned, Wanted
    <2> QED BY <2>1 DEF ExitInv, NoFlocks, OnlyPosix
  <1>12. {} \subseteq Mine(q)
    OBVIOUS
  <1> QED BY <1>4, <1>8, <1>10, <1>11, <1>12, WorkerExits

(* Every step keeps what is true of the processes that exit. *)
LEMMA ExitInvStep == HandlesApart /\ WaitInv /\ ExitInv /\ [Next]_<<vars, scenario>> => ExitInv'
  <1> SUFFICES ASSUME HandlesApart, WaitInv, ExitInv, [Next]_<<vars, scenario>> PROVE ExitInv'
    OBVIOUS
  <1>1. CASE UNCHANGED <<vars, scenario>>
    <2>1. UNCHANGED <<dent, proc, maybe, op, phase, scenario>>
      BY <1>1 DEF vars
    <2>2. /\ Owned(dent.locks)' = Owned(dent.locks) /\ Wanted(dent.reqs)' = Wanted(dent.reqs)
          /\ Askers(dent.reqs)' = Askers(dent.reqs)
      BY <2>1 DEF Owned, Wanted, Askers
    <2> QED BY <2>1, <2>2, ExitSame
  <1>2. CASE Next
    <2>1. scenario' = scenario /\ scenario \in Scenarios /\ LockInv /\ Waiting
      BY <1>2 DEF Next, LockInv, WaitInv
    <2>2. ASSUME NEW t \in Threads, UserLock(t) PROVE ExitInv'
      <3>1. PICK a \in scenario.asks[t] : Set(t, OwnLock(ProcOf[t], a.family, a.type, a.range), a.wait)
        BY <2>2 DEF UserLock
      <3>2. IsOwn(t, OwnLock(ProcOf[t], a.family, a.type, a.range))
        BY <2>1, AsksOwn
      <3> QED BY <2>1, <2>2, <3>1, <3>2, SetExits DEF UserLock
    <2>3. ASSUME NEW t \in Threads, UserUnlock(t) PROVE ExitInv'
      <3>0. PICK a \in scenario.asks[t] : \E r \in {a.range, <<0, FS_LOCK_EOF>>} :
               Set(t, OwnLock(ProcOf[t], a.family, "UNLCK", r), FALSE)
        BY <2>3 DEF UserUnlock
      <3>1. PICK r \in {a.range, <<0, FS_LOCK_EOF>>} :
               Set(t, OwnLock(ProcOf[t], a.family, "UNLCK", r), FALSE)
        BY <3>0
      <3>2. IsOwn(t, OwnLock(ProcOf[t], a.family, "UNLCK", r))
        BY <2>1, AsksOwn
      <3> QED BY <2>1, <2>3, <3>1, <3>2, SetExits DEF UserUnlock
    <2>4. ASSUME NEW t \in Threads, ThreadStep(t) PROVE ExitInv'
      BY <2>1, <2>2, <2>3, <2>4, ReturnExits, ExitExits, DetachExits DEF ThreadStep
    <2>5. ASSUME NEW t \in Threads, WorkerHandles(t) PROVE ExitInv'
      BY <2>1, <2>5, SetFromIpcExits, ClearExits DEF WorkerHandles
    <2>6. CASE WriteNotify
      <3>1. PICK i \in DOMAIN dent.reqs : dent' = SetNotify(dent, i)
        BY <2>6 DEF WriteNotify
      <3> DEFINE e == SetNotify(dent, i)
      <3>2. /\ e.locks = dent.locks /\ DOMAIN e.reqs = DOMAIN dent.reqs
            /\ \A j \in DOMAIN dent.reqs : /\ e.reqs[j].lock = dent.reqs[j].lock
                                           /\ e.reqs[j].thread = dent.reqs[j].thread
        BY <2>1, SetNotifyGood DEF LockInv
      <3> HIDE DEF e
      <3>3. Wanted(e.reqs) = Wanted(dent.reqs) /\ Askers(e.reqs) = Askers(dent.reqs)
        BY <3>2 DEF Wanted, Askers
      <3>4. dent' = e /\ UNCHANGED <<proc, maybe, op, phase>>
        BY <2>6, <3>1 DEF e, WriteNotify
      <3>5. /\ Owned(dent.locks)' = Owned(dent.locks) /\ Wanted(dent.reqs)' = Wanted(dent.reqs)
            /\ Askers(dent.reqs)' = Askers(dent.reqs)
        BY <3>2, <3>3, <3>4 DEF Owned, Wanted, Askers
      <3> QED BY <2>1, <3>4, <3>5, ExitSame
    <2>7. ASSUME NEW p \in Pids, Kill(p) PROVE ExitInv'
      <3>1. proc' = [proc EXCEPT ![p] = "killed"] /\ UNCHANGED <<dent, maybe, op, phase>>
        BY <2>7 DEF Kill
      <3>2. \A x \in Pids : proc'[x] = proc[x] \/ proc'[x] = "killed"
        BY <2>1, <3>1 DEF Waiting, Functions
      <3>3. /\ Owned(dent.locks)' = Owned(dent.locks) /\ Wanted(dent.reqs)' = Wanted(dent.reqs)
            /\ Askers(dent.reqs)' = Askers(dent.reqs)
        BY <3>1 DEF Owned, Wanted, Askers
      <3> QED BY <2>1, <3>1, <3>2, <3>3, ExitSame
    <2> QED BY <1>2, <2>4, <2>5, <2>6, <2>7 DEF Next
  <1> QED BY <1>1, <1>2

(* In the beginning nobody has anything. *)
LEMMA ExitInvInit == Init => ExitInv
  <1> SUFFICES ASSUME Init PROVE ExitInv
    OBVIOUS
  <1>1. dent.reqs = <<>> /\ dent.locks = <<>> /\ DOMAIN <<>> = {}
    BY DEF Init, EmptyDent
  <1>2. Owned(dent.locks) = {} /\ Wanted(dent.reqs) = {}
    BY <1>1 DEF Owned, Wanted
  <1>3. NoFlocks /\ maybe = [p \in Pids |-> maybe[p]]
    BY <1>2 DEF NoFlocks, Init
  <1>4. \A p \in Pids : Closing(p)
    BY DEF Closing, Init
  <1>5. \A x \in Threads : op[x].kind # "SET"
    BY DEF Init, NoOp
  <1>6. \A p \in Pids : Unflagged(p)
    BY <1>2, <1>5 DEF Unflagged
  <1> QED BY <1>3, <1>4, <1>6 DEF ExitInv

(* Where no two processes share a handle, and the path can be looked up by *)
(* whoever uses BSD locks, a process that exited holds and requests        *)
(* nothing, whatever locks the others were granted meanwhile, and however  *)
(* many of its threads unlocked by the short circuit.                      *)
THEOREM ExitedCleanHolds == HandlesApart /\ Spec /\ LookupsWork => []ExitedClean
  <1>1. ExitInv /\ LookupsWork => ExitedClean
    <2> SUFFICES ASSUME ExitInv, LookupsWork, NEW p \in Pids, proc[p] = "exited"
                 PROVE  /\ \A i \in DOMAIN dent.locks : <<dent.locks[i].family, dent.locks[i].owner>> \notin Owners(p)
                        /\ \A i \in DOMAIN dent.reqs : ProcOf[dent.reqs[i].thread] # p
      BY DEF ExitedClean
    <2>1. /\ PosixGone(p) /\ (ClosesHandle(p) => FlockGone(p))
          /\ \A x \in Askers(dent.reqs) : ProcOf[x] # p
      BY DEF ExitInv, Closing
    <2>2. ASSUME NEW i \in DOMAIN dent.locks
          PROVE  <<dent.locks[i].family, dent.locks[i].owner>> \notin Owners(p)
      <3>1. Key(dent.locks[i]) \in Owned(dent.locks)
        BY DEF Owned
      <3>2. Key(dent.locks[i]) # <<"POSIX", p>> /\ (ClosesHandle(p) => Key(dent.locks[i]) # <<"FLOCK", HandleOf[p]>>)
        BY <2>1, <3>1 DEF PosixGone, FlockGone
      <3>3. Key(dent.locks[i]) \notin Owners(p)
        BY <3>2 DEF Owners, ClosesHandle
      <3> QED BY <3>3 DEF Key
    <2> QED BY <2>1, <2>2 DEF Askers
  <1>2. HandlesApart => HandlesApart'
    BY DEF HandlesApart
  <1>3. LookupsWork /\ [Next]_<<vars, scenario>> => LookupsWork'
    BY DEF LookupsWork, OnlyPosix, Next
  <1> QED BY <1>1, <1>2, <1>3, WaitInvInit, WaitInvStep, ExitInvInit, ExitInvStep, PTL DEF Spec

-----------------------------------------------------------------------------
(* What an answer means                                                    *)

(* _posix_lock_set and _flock_lock_set: byte by byte, the new list is the  *)
(* old one but for the bytes that l is about.                              *)
LEMMA SetExact ==
    ASSUME NEW fam \in Families, NEW s, ListOf(fam, s), NEW g \in Families, NEW l \in AskedOf(g),
           l.type # "UNLCK" => g = fam /\ ~HasConflict(s, l),
           NEW f \in Families, NEW o \in Keys(f), NEW b \in Bytes, NEW type \in {"RDLCK", "WRLCK"}
    PROVE  /\ About(l, f, o, b) => (HasType(LockSet(s, l), f, o, b, type) <=> type = l.type)
           /\ ~About(l, f, o, b) => (HasType(LockSet(s, l), f, o, b, type) <=> HasType(s, f, o, b, type))
  <1> DEFINE t == LockSet(s, l)
  <1>1. ListOf(fam, t) /\ l.family = g
    BY LockSetGood, AskedFamily
  <1>2. (\A i \in DOMAIN s : s[i].family = fam) /\ \A i \in DOMAIN t : t[i].family = fam
    BY <1>1, ListMember
  <1>3. f # fam => ~HasType(s, f, o, b, type) /\ ~HasType(t, f, o, b, type)
    BY <1>2 DEF HasType, Gives
  <1>4. l.type # "UNLCK" => g = fam
    OBVIOUS
  <1>5. CASE g = "POSIX" /\ fam = "POSIX"
    <2>1. l \in AskedLocks /\ l.start <= l.end /\ l.family = "POSIX"
      BY <1>5, LockFields DEF AskedOf
    <2>2. t = PosixLockSet(s, l) /\ GoodList(s)
      BY <1>5, <2>1 DEF LockSet, ListOf, PosixList
    <2>3. Replaced(s, t, l)
      BY <2>1, <2>2, PosixSetExact
    <2> HIDE DEF t
    <2>4. ASSUME f = "POSIX" PROVE /\ HasType(t, f, o, b, type) <=> Holds(t, o, b, type)
                                   /\ HasType(s, f, o, b, type) <=> Holds(s, o, b, type)
      BY <1>2, <1>5, <2>4 DEF HasType, Gives, Holds, Covers
    <2>5. ASSUME f = "POSIX"
          PROVE  Holds(t, o, b, type) <=> IF o = l.owner /\ l.start <= b /\ b <= l.end
                                          THEN type = l.type /\ type # "UNLCK" ELSE Holds(s, o, b, type)
      <3>1. o \in Pids /\ b \in 0..FS_LOCK_EOF /\ type \in LockTypes
        BY <2>5 DEF Keys, Bytes, LockTypes
      <3> QED BY <2>3, <3>1 DEF Replaced
    <2>6. CASE f = "POSIX"
      BY <2>1, <2>4, <2>5, <2>6 DEF About, t
    <2>7. CASE f # "POSIX"
      BY <1>3, <1>5, <2>1, <2>7 DEF About, t
    <2> QED BY <2>6, <2>7
  <1>6. CASE g = "FLOCK" /\ fam = "FLOCK"
    <2>1. l \in FlockAsked /\ l.family = "FLOCK" /\ l.start = 0 /\ l.end = 0
      BY <1>6 DEF AskedOf, FlockAsked
    <2>2. t = FlockLockSet(s, l) /\ FlockList(s)
      BY <1>6, <2>1 DEF LockSet, ListOf
    <2>3. FlockReplaced(s, t, l)
      BY <2>1, <2>2, FlockSetExact
    <2>4. /\ \A i \in DOMAIN s : s[i].start = 0 /\ s[i].end = 0
          /\ \A i \in DOMAIN t : t[i].start = 0 /\ t[i].end = 0
      BY <1>1, <1>6, ListMember
    <2>5. b \in Int
      BY EofAssumption DEF Bytes
    <2> HIDE DEF t
    <2>6. ASSUME f = "FLOCK"
          PROVE  /\ HasType(t, f, o, b, type) <=> b = 0 /\ \E i \in DOMAIN t : t[i].owner = o /\ t[i].type = type
                 /\ HasType(s, f, o, b, type) <=> b = 0 /\ \E i \in DOMAIN s : s[i].owner = o /\ s[i].type = type
                 /\ About(l, f, o, b) <=> b = 0 /\ o = l.owner
      BY <1>2, <1>6, <2>1, <2>4, <2>5, <2>6 DEF HasType, Gives, About
    <2>7. CASE f = "FLOCK"
      BY <2>3, <2>6, <2>7 DEF FlockReplaced, t
    <2>8. CASE f # "FLOCK"
      BY <1>3, <1>6, <2>1, <2>8 DEF About, t
    <2> QED BY <2>7, <2>8
  <1>7. CASE g # fam
    <2>1. l.type = "UNLCK"
      BY <1>7
    <2>2. t = s
      <3>1. CASE g = "POSIX" /\ fam = "FLOCK"
        <4>1. l \in AskedLocks /\ l.start <= l.end /\ l.family = "POSIX"
          BY <3>1, LockFields DEF AskedOf
        <4>2. t = PosixLockSet(s, l) /\ FlockList(s)
          BY <3>1, <4>1 DEF LockSet, ListOf
        <4> QED BY <2>1, <4>1, <4>2, PosixUnlockFlock
      <3>2. CASE g = "FLOCK" /\ fam = "POSIX"
        <4>1. l \in FlockAsked /\ l.family = "FLOCK"
          BY <3>2 DEF AskedOf, FlockAsked
        <4>2. t = FlockLockSet(s, l) /\ GoodList(s)
          BY <3>2, <4>1 DEF LockSet, ListOf, PosixList
        <4> QED BY <2>1, <4>1, <4>2, FlockUnlockPosix
      <3> QED BY <1>7, <3>1, <3>2 DEF Families
    <2>3. About(l, f, o, b) => f # fam
      BY <1>1, <1>7 DEF About
    <2> HIDE DEF t
    <2> QED BY <1>3, <2>1, <2>2, <2>3 DEF t
  <1> QED BY <1>5, <1>6, <1>7 DEF Families

(* What a lock that may be asked for is about. *)
LEMMA AskedAbout ==
    ASSUME NEW g \in Families, NEW l \in AskedOf(g)
    PROVE  /\ l.family = g /\ l.owner \in Keys(g) /\ l.type \in LockTypes
           /\ \A b \in l.start..l.end : b \in Bytes /\ About(l, g, l.owner, b)
  <1>1. CASE g = "POSIX"
    <2>1. l \in AskedLocks
      BY <1>1 DEF AskedOf
    <2>2. /\ l.family = "POSIX" /\ l.owner \in Pids /\ l.type \in LockTypes
          /\ l.start \in 0..FS_LOCK_EOF /\ l.end \in 0..FS_LOCK_EOF
      BY <2>1 DEF AskedLocks
    <2> QED BY <1>1, <2>2, EofAssumption DEF Keys, Bytes, About
  <1>2. CASE g = "FLOCK"
    <2>1. l \in FlockAsked
      BY <1>2 DEF AskedOf
    <2>2. l.family = "FLOCK" /\ l.owner \in Handles /\ l.type \in LockTypes /\ l.start = 0 /\ l.end = 0
      BY <2>1 DEF FlockAsked
    <2> QED BY <1>2, <2>2, EofAssumption DEF Keys, Bytes, About
  <1> QED BY <1>1, <1>2 DEF Families

(* A lock is in effect: its bytes are held with its type and with no other. *)
LEMMA InEffectIs ==
    ASSUME NEW fam \in Families, NEW s, ListOf(fam, s), NEW g \in Families, NEW l \in AskedOf(g)
    PROVE  InEffect(s, l) <=> \A b \in l.start..l.end : \A type \in {"RDLCK", "WRLCK"} :
                                 HasType(s, g, l.owner, b, type) <=> type = l.type
  <1>1. l.family = g /\ l.type \in LockTypes /\ \A b \in l.start..l.end : b \in Bytes
    BY AskedAbout
  <1> SUFFICES ASSUME NEW b \in l.start..l.end
               PROVE  HeldType(s, g, l.owner, b) = l.type <=>
                         \A type \in {"RDLCK", "WRLCK"} : HasType(s, g, l.owner, b, type) <=> type = l.type
    BY <1>1 DEF InEffect
  <1>2. b \in Int
    BY <1>1, EofAssumption DEF Bytes
  <1> DEFINE h == HeldType(s, g, l.owner, b)
  <1>3. /\ h \in LockTypes
        /\ \A type \in LockTypes : type # "UNLCK" => (h = type <=> HasType(s, g, l.owner, b, type))
    BY <1>2, HeldTypeIs
  <1> HIDE DEF h
  <1>4. h = l.type <=> \A type \in {"RDLCK", "WRLCK"} : HasType(s, g, l.owner, b, type) <=> type = l.type
    BY <1>1, <1>3 DEF LockTypes
  <1> QED BY <1>4 DEF h

(* The lock that is set is in effect, and the locks of other owners stay   *)
(* in effect.                                                              *)
LEMMA SetInEffect ==
    ASSUME NEW fam \in Families, NEW s, ListOf(fam, s), NEW g \in Families, NEW l \in AskedOf(g),
           l.type # "UNLCK" => g = fam /\ ~HasConflict(s, l)
    PROVE  /\ InEffect(LockSet(s, l), l)
           /\ \A h \in Families : \A m \in AskedOf(h) :
                 Key(m) # Key(l) /\ InEffect(s, m) => InEffect(LockSet(s, l), m)
  <1> DEFINE t == LockSet(s, l)
  <1>1. ListOf(fam, t)
    BY LockSetGood
  <1>2. /\ l.family = g /\ l.owner \in Keys(g)
        /\ \A b \in l.start..l.end : b \in Bytes /\ About(l, g, l.owner, b)
    BY AskedAbout
  <1>3. InEffect(t, l)
    <2>1. \A b \in l.start..l.end : \A type \in {"RDLCK", "WRLCK"} : HasType(t, g, l.owner, b, type) <=> type = l.type
      BY <1>2, SetExact
    <2> HIDE DEF t
    <2> QED BY <1>1, <2>1, InEffectIs
  <1>4. ASSUME NEW h \in Families, NEW m \in AskedOf(h), Key(m) # Key(l), InEffect(s, m) PROVE InEffect(t, m)
    <2>1. m.family = h /\ m.owner \in Keys(h) /\ \A b \in m.start..m.end : b \in Bytes
      BY AskedAbout
    <2>2. \A b \in m.start..m.end : ~About(l, h, m.owner, b)
      BY <1>4, <2>1 DEF About, Key
    <2>3. \A b \in m.start..m.end : \A type \in {"RDLCK", "WRLCK"} :
             HasType(t, h, m.owner, b, type) <=> HasType(s, h, m.owner, b, type)
      BY <2>1, <2>2, SetExact
    <2>4. \A b \in m.start..m.end : \A type \in {"RDLCK", "WRLCK"} : HasType(s, h, m.owner, b, type) <=> type = m.type
      BY <1>4, InEffectIs
    <2> HIDE DEF t
    <2> QED BY <1>1, <2>3, <2>4, InEffectIs
  <1> QED BY <1>3, <1>4

(* Of the requests that somebody waits for, those of thread x and those    *)
(* for the owner of lock m are for m itself.                               *)
Only(p, m, x) == \A i \in DOMAIN p : p[i].notify =>
    /\ Key(p[i].lock) = Key(m) => p[i].lock = m
    /\ p[i].thread = x => p[i].lock = m

Notified(granted) == \A h \in granted : h.notify
ToldOk(granted, x) == \E h \in granted : h.thread = x /\ h.ret = "OK"

(* Lock m is in effect if it was before (pre), or x is told that it is. *)
Keeps(s, m, x, pre) == Notified(s.granted) /\ (pre \/ ToldOk(s.granted, x)) => InEffect(s.locks, m)

(* The state of the pass at some turn. *)
KeepsOf(fam, s, p, m, x, pre) == Granting(fam, s) /\ From(s.reqs, p) /\ Keeps(s, m, x, pre)

(* A turn of file_lock_process_requests. *)
LEMMA TurnKeeps ==
    ASSUME NEW fam \in Families, NEW p \in Seq(Requests(fam)), NEW h \in Families, NEW m \in AskedOf(h),
           NEW x, Only(p, m, x), NEW pre, NEW s, KeepsOf(fam, s, p, m, x, pre), NEW k \in DOMAIN p, NEW oom
    PROVE  KeepsOf(fam, GrantTurn(s, p[k], oom), p, m, x, pre)
  <1> DEFINE r == p[k]
             g == GrantTurn(s, r, oom)
  <1>1. r \in Requests(fam) /\ Granting(fam, s) /\ ListOf(fam, s.locks) /\ From(s.reqs, p) /\ Keeps(s, m, x, pre)
    BY DEF KeepsOf, Granting
  <1>2. r.lock \in AskedOf(fam)
    BY <1>1 DEF Requests
  <1>3. /\ Granting(fam, g)
        /\ HasConflict(s.locks, r.lock) => g.locks = s.locks /\ g.granted = s.granted
        /\ ~HasConflict(s.locks, r.lock) =>
              /\ g.granted = s.granted \cup {Told(r, oom)}
              /\ g.locks = IF r.thread \in oom THEN s.locks ELSE LockSet(s.locks, r.lock)
    BY <1>1, GrantTurnCases
  <1>4. From(g.reqs, p)
    <2>1. KeysKept(s, s.locks, p)
      BY <1>1 DEF KeysKept
    <2>2. KeysKept(g, s.locks, p)
      BY <1>1, <2>1, TurnOwned
    <2> QED BY <2>2 DEF KeysKept
  <1>5. r.notify => /\ Key(r.lock) = Key(m) => r.lock = m
                    /\ r.thread = x => r.lock = m
    BY DEF Only
  <1>6. ~HasConflict(s.locks, r.lock) =>
           /\ InEffect(LockSet(s.locks, r.lock), r.lock)
           /\ Key(m) # Key(r.lock) /\ InEffect(s.locks, m) => InEffect(LockSet(s.locks, r.lock), m)
    BY <1>1, <1>2, SetInEffect
  <1> HIDE DEF g, r
  <1>7. Keeps(g, m, x, pre)
    <2>1. CASE HasConflict(s.locks, r.lock)
      BY <1>1, <1>3, <2>1 DEF Keeps
    <2>2. CASE ~HasConflict(s.locks, r.lock)
      <3> SUFFICES ASSUME Notified(g.granted), pre \/ ToldOk(g.granted, x) PROVE InEffect(g.locks, m)
        BY DEF Keeps
      <3>1. Told(r, oom) \in g.granted /\ Told(r, oom).notify = r.notify /\ Told(r, oom).thread = r.thread
            /\ Told(r, oom).ret = (IF r.thread \in oom THEN "ENOMEM" ELSE "OK")
        BY <1>3, <2>2 DEF Told
      <3>2. r.notify /\ Notified(s.granted)
        BY <1>3, <2>2, <3>1 DEF Notified
      <3>3. CASE r.thread \in oom
        <4>1. ToldOk(g.granted, x) => ToldOk(s.granted, x)
          BY <1>3, <2>2, <3>1, <3>3 DEF ToldOk
        <4>2. g.locks = s.locks
          BY <1>3, <2>2, <3>3
        <4> QED BY <1>1, <3>2, <4>1, <4>2 DEF Keeps
      <3>4. CASE r.thread \notin oom
        <4>1. g.locks = LockSet(s.locks, r.lock)
          BY <1>3, <2>2, <3>4
        <4>2. CASE Key(r.lock) = Key(m)
          BY <1>5, <1>6, <2>2, <3>2, <4>1, <4>2
        <4>3. CASE Key(r.lock) # Key(m)
          <5>1. r.thread # x
            BY <1>5, <3>2, <4>3
          <5>2. ToldOk(g.granted, x) => ToldOk(s.granted, x)
            BY <1>3, <2>2, <3>1, <5>1 DEF ToldOk
          <5>3. InEffect(s.locks, m)
            BY <1>1, <3>2, <5>2 DEF Keeps
          <5> QED BY <1>6, <2>2, <4>1, <4>3, <5>3
        <4> QED BY <4>2, <4>3
      <3> QED BY <3>3, <3>4
    <2> QED BY <2>1, <2>2
  <1> QED BY <1>3, <1>4, <1>7 DEF KeepsOf, g, r

(* A pass of file_lock_process_requests. *)
LEMMA PassKeeps ==
    ASSUME NEW fam \in Families, NEW p \in Seq(Requests(fam)), NEW h \in Families, NEW m \in AskedOf(h),
           NEW x, Only(p, m, x), NEW pre, NEW s, KeepsOf(fam, s, p, m, x, pre), NEW oom
    PROVE  KeepsOf(fam, GrantPass(s, oom), p, m, x, pre)
  <1> DEFINE N == Len(s.reqs)
             w == GrantTurns(s, oom)
             G(n) == KeepsOf(fam, w[n], p, m, x, pre)
             T == {n \in Nat : n <= N => G(n)}
  <1>1. s.reqs \in Seq(Requests(fam)) /\ N \in Nat /\ DOMAIN s.reqs = 1..N /\ Granting(fam, s)
    BY DEF KeepsOf, Granting
  <1>2. /\ w[0] = [s EXCEPT !.reqs = <<>>]
        /\ \A n \in 1..N : w[n] = GrantTurn(w[n-1], s.reqs[n], oom)
    BY <1>1, GrantTurnsTurns
  <1> HIDE DEF w
  <1>3. 0 \in T
    <2>1. <<>> \in Seq(Requests(fam)) /\ DOMAIN <<>> = {}
      OBVIOUS
    <2>2. w[0].locks = s.locks /\ w[0].reqs = <<>> /\ w[0].granted = s.granted
          /\ w[0] = [locks |-> w[0].locks, reqs |-> w[0].reqs, granted |-> w[0].granted]
      BY <1>1, <1>2 DEF Granting
    <2>3. Granting(fam, w[0])
      BY <1>1, <2>1, <2>2 DEF Granting
    <2>4. From(w[0].reqs, p) /\ Keeps(w[0], m, x, pre)
      BY <2>1, <2>2 DEF From, KeepsOf, Keeps
    <2>5. G(0)
      BY <2>3, <2>4 DEF KeepsOf
    <2> QED BY <2>5
  <1>4. ASSUME NEW n \in Nat, n \in T PROVE n+1 \in T
    <2> SUFFICES ASSUME n+1 <= N PROVE G(n+1)
      <3> HIDE DEF G
      <3> QED OBVIOUS
    <2>1. G(n) /\ n+1 \in 1..N /\ (n+1)-1 = n
      <3> HIDE DEF G
      <3> QED BY <1>1, <1>4
    <2>2. w[n+1] = GrantTurn(w[n], s.reqs[n+1], oom)
      BY <1>2, <2>1
    <2>3. PICK k \in DOMAIN p : s.reqs[n+1] = p[k]
      BY <1>1, <2>1 DEF KeepsOf, From
    <2> QED BY <2>1, <2>2, <2>3, TurnKeeps
  <1>5. \A n \in Nat : n \in T
    <2> HIDE DEF T
    <2> QED BY <1>3, <1>4, NatSetInduction
  <1>6. G(N)
    <2> HIDE DEF G
    <2> QED BY <1>1, <1>5
  <1> QED BY <1>6 DEF GrantPass, w

(* file_lock_process_requests: whoever it tells so has the lock, also when *)
(* it goes on to grant others, and the lock that was set before it stays.  *)
LEMMA ProcessKeeps ==
    ASSUME NEW fam \in Families, NEW locks0, ListOf(fam, locks0), NEW reqs \in Seq(Requests(fam)),
           NEW h \in Families, NEW m \in AskedOf(h), NEW x, Only(reqs, m, x),
           NEW pre, pre => InEffect(locks0, m), NEW oom
    PROVE  Keeps(ProcessRequests(locks0, reqs, oom), m, x, pre)
  <1> DEFINE N == Len(reqs)
             w == GrantPasses(locks0, reqs, oom)
             G(n) == KeepsOf(fam, w[n], reqs, m, x, pre)
             T == {n \in Nat : n <= N => G(n)}
  <1>1. N \in Nat /\ DOMAIN reqs = 1..N
    OBVIOUS
  <1>2. /\ w[0] = [locks |-> locks0, reqs |-> reqs, granted |-> {}]
        /\ \A n \in 1..N : w[n] = GrantPass(w[n-1], oom)
    BY <1>1, GrantPassesTurns
  <1> HIDE DEF w
  <1>3. 0 \in T
    <2>1. Granting(fam, w[0])
      BY <1>2 DEF Granting
    <2>2. w[0].locks = locks0 /\ w[0].reqs = reqs /\ w[0].granted = {}
      BY <1>2
    <2>3. Keeps(w[0], m, x, pre)
      BY <2>2 DEF Keeps, ToldOk
    <2>4. From(w[0].reqs, reqs)
      BY <2>2 DEF From
    <2>5. G(0)
      BY <2>1, <2>3, <2>4 DEF KeepsOf
    <2> QED BY <2>5
  <1>4. ASSUME NEW n \in Nat, n \in T PROVE n+1 \in T
    <2> SUFFICES ASSUME n+1 <= N PROVE G(n+1)
      <3> HIDE DEF G
      <3> QED OBVIOUS
    <2>1. G(n) /\ n+1 \in 1..N /\ (n+1)-1 = n
      <3> HIDE DEF G
      <3> QED BY <1>1, <1>4
    <2>2. w[n+1] = GrantPass(w[n], oom)
      BY <1>2, <2>1
    <2> QED BY <2>1, <2>2, PassKeeps
  <1>5. \A n \in Nat : n \in T
    <2> HIDE DEF T
    <2> QED BY <1>3, <1>4, NatSetInduction
  <1>6. G(N)
    <2> HIDE DEF G
    <2> QED BY <1>1, <1>5
  <1> QED BY <1>6 DEF ProcessRequests, w, KeepsOf

(* file_lock_set_or_add_request. *)
LEMMA SetTold ==
    ASSUME GoodDent(dent), NEW t, NEW g \in Families, NEW l \in AskedOf(g), NEW wait,
           NEW o \in SetOrAddRequest(t, l, wait), NEW h \in Families, NEW m \in AskedOf(h),
           NEW x, Only(dent.reqs, m, x), Notified(o.granted)
    PROVE  /\ ToldOk(o.granted, x) => InEffect(o.dent.locks, m)
           /\ m = l /\ o.ret = "OK" /\ ~o.queued => InEffect(o.dent.locks, m)
  <1>1. PICK fam \in Families : DentOf(fam, dent)
    BY DEF GoodDent
  <1>2. l.family = g
    BY AskedFamily
  <1>3. ASSUME NEW ret, o = Outcome(dent, ret, {}, FALSE)
        PROVE  ~ToldOk(o.granted, x) /\ o.ret = ret /\ o.dent.locks = dent.locks
    <2>1. o.granted = {} /\ o.ret = ret /\ o.dent = Gc(dent)
      BY <1>3 DEF Outcome
    <2> QED BY <2>1, GcKeys DEF ToldOk
  <1>4. o \in NoMemory => ~ToldOk(o.granted, x) /\ o.ret # "OK"
    <2>1. o \in NoMemory => o = Outcome(dent, "ENOMEM", {}, FALSE)
      BY DEF NoMemory
    <2>2. o \in NoMemory => ~ToldOk(o.granted, x) /\ o.ret = "ENOMEM"
      BY <1>3, <2>1
    <2> QED BY <2>2
  <1>5. CASE l.type = "UNLCK" /\ dent = EmptyDent
    <2>1. o = Outcome(dent, "OK", {}, FALSE)
      BY <1>5 DEF SetOrAddRequest, Mixes
    <2>2. o.dent.locks = <<>> /\ ~ToldOk(o.granted, x)
      BY <1>3, <1>5, <2>1 DEF EmptyDent
    <2>3. InEffect(<<>>, l)
      <3>1. DOMAIN <<>> = {}
        OBVIOUS
      <3>2. \A b : HeldType(<<>>, l.family, l.owner, b) = "UNLCK"
        BY <3>1 DEF HeldType
      <3> QED BY <1>5, <3>2 DEF InEffect
    <2> QED BY <2>2, <2>3
  <1>6. CASE Mixes(l)
    <2>1. o = Outcome(dent, "EPERM", {}, FALSE)
      BY <1>6 DEF SetOrAddRequest, Mixes
    <2>2. ~ToldOk(o.granted, x) /\ o.ret = "EPERM"
      BY <1>3, <2>1
    <2> QED BY <2>2
  <1>7. CASE ~Mixes(l) /\ l.type # "UNLCK" /\ HasConflict(dent.locks, l)
    <2>1. o \in {Outcome(AddRequest(t, l), "OK", {}, TRUE)} \cup NoMemory \cup {Outcome(dent, "EAGAIN", {}, FALSE)}
      BY <1>7 DEF SetOrAddRequest
    <2>2. CASE o = Outcome(AddRequest(t, l), "OK", {}, TRUE)
      <3>1. o.granted = {} /\ o.queued
        BY <2>2 DEF Outcome
      <3> QED BY <3>1 DEF ToldOk
    <2>3. CASE o = Outcome(dent, "EAGAIN", {}, FALSE)
      <3>1. ~ToldOk(o.granted, x) /\ o.ret = "EAGAIN"
        BY <1>3, <2>3
      <3> QED BY <3>1
    <2> QED BY <1>4, <2>1, <2>2, <2>3
  <1>8. CASE /\ ~(l.type = "UNLCK" /\ dent = EmptyDent) /\ ~Mixes(l)
             /\ ~(l.type # "UNLCK" /\ HasConflict(dent.locks, l))
    <2>1. o \in {SetAndProcess(l, oom) : oom \in OutOfMemory}
                \cup (IF l.family = "FLOCK" /\ l.type = "UNLCK" THEN {} ELSE NoMemory)
      BY <1>8 DEF SetOrAddRequest
    <2>2. CASE \E oom \in OutOfMemory : o = SetAndProcess(l, oom)
      <3>1. PICK oom \in OutOfMemory : o = SetAndProcess(l, oom)
        BY <2>2
      <3> DEFINE s1 == LockSet(dent.locks, l)
                 s == ProcessRequests(s1, dent.reqs, oom)
      <3>2. /\ o.dent = Gc([locks |-> s.locks, reqs |-> s.reqs, used |-> UsedAfter(dent, l)])
            /\ o.granted = s.granted
        BY <3>1 DEF SetAndProcess, Outcome
      <3>3. o.dent.locks = s.locks
        BY <3>2, GcKeys
      <3>4. PICK f \in Families : DentOf(f, dent) /\ (l.type # "UNLCK" => f = g)
        BY <1>1, <1>2, <1>8, NoMix
      <3>5. l.type # "UNLCK" => ~HasConflict(dent.locks, l)
        BY <1>8
      <3>6. ListOf(f, dent.locks) /\ dent.reqs \in Seq(Requests(f))
        BY <3>4 DEF DentOf
      <3>7. ListOf(f, s1)
        BY <3>4, <3>5, <3>6, LockSetGood
      <3>8. InEffect(s1, l)
        BY <3>4, <3>5, <3>6, SetInEffect
      <3> HIDE DEF s1
      <3>9. Keeps(s, m, x, FALSE)
        BY <3>6, <3>7, ProcessKeeps
      <3>10. m = l => Keeps(s, m, x, TRUE)
        BY <3>6, <3>7, <3>8, ProcessKeeps
      <3> HIDE DEF s
      <3> QED BY <3>2, <3>3, <3>9, <3>10 DEF Keeps
    <2> QED BY <1>4, <2>1, <2>2
  <1> QED BY <1>5, <1>6, <1>7, <1>8

(* file_lock_clear_pid_from_dentry. *)
LEMMA ClearTold ==
    ASSUME GoodDent(dent), NEW pid, NEW oom, NEW h \in Families, NEW m \in AskedOf(h),
           NEW x, Only(dent.reqs, m, x)
    PROVE  LET o == ClearPidFromDentry(pid, oom)
           IN Notified(o.granted) /\ ToldOk(o.granted, x) => InEffect(o.dent.locks, m)
  <1> DEFINE o == ClearPidFromDentry(pid, oom)
             D == {i \in DOMAIN dent.reqs : OfPid(dent.reqs[i].lock, pid)}
             rest == Remaining(dent.reqs, D)
             locks0 == WithoutPid(dent.locks, pid)
             s == ProcessRequests(locks0, rest, oom)
  <1>1. PICK fam \in Families : DentOf(fam, dent)
    BY DEF GoodDent
  <1>2. dent.reqs \in Seq(Requests(fam)) /\ ListOf(fam, dent.locks)
        /\ dent = [locks |-> dent.locks, reqs |-> dent.reqs, used |-> dent.used]
    BY <1>1 DEF DentOf
  <1>3. rest \in Seq(Requests(fam)) /\ IsRest(rest, dent.reqs, D, Len(dent.reqs))
    BY <1>2, WithoutRest
  <1>4. ListOf(fam, locks0)
    BY <1>2, WithoutGood DEF WithoutPid
  <1>5. \A i \in DOMAIN rest : \E a \in DOMAIN dent.reqs : rest[i] = dent.reqs[a]
    <2>1. DOMAIN dent.reqs = 1..Len(dent.reqs)
      BY <1>2
    <2> HIDE DEF rest, D
    <2> QED BY <1>3, <2>1 DEF IsRest
  <1>6. Only(rest, m, x)
    <2> HIDE DEF rest
    <2> QED BY <1>5 DEF Only
  <1>7. Keeps(s, m, x, FALSE)
    <2> HIDE DEF rest, locks0
    <2> QED BY <1>3, <1>4, <1>6, ProcessKeeps
  <1>8. CASE locks0 = dent.locks
    <2>1. o = [dent |-> [dent EXCEPT !.reqs = rest], granted |-> {}]
      BY <1>8 DEF ClearPidFromDentry
    <2>2. o.granted = {}
      BY <2>1
    <2> QED BY <2>2 DEF ToldOk
  <1>9. CASE locks0 # dent.locks
    <2> DEFINE d1 == [dent EXCEPT !.locks = s.locks]
               d2 == [d1 EXCEPT !.reqs = s.reqs]
    <2>1. o = Outcome(d2, "OK", s.granted, FALSE)
      BY <1>9 DEF ClearPidFromDentry
    <2>2. d1.locks = s.locks /\ d2.locks = d1.locks
      BY <1>2
    <2>3. o.dent = Gc(d2) /\ o.granted = s.granted
      BY <2>1 DEF Outcome
    <2> HIDE DEF o, s, d1, d2
    <2>4. o.dent.locks = s.locks
      BY <2>2, <2>3, GcKeys
    <2>5. Notified(o.granted) /\ ToldOk(o.granted, x) => InEffect(o.dent.locks, m)
      BY <1>7, <2>3, <2>4 DEF Keeps
    <2> QED BY <2>5 DEF o
  <1> QED BY <1>8, <1>9

(* Each process has one thread that locks. *)
OneThreadEach == \A t, u \in Threads : ProcOf[t] = ProcOf[u] => t = u

(* Then each request that somebody waits for is the only one for its owner. *)
LEMMA OnlyRequest ==
    ASSUME LockInv, Waiting, HandlesApart, OneThreadEach, NEW x \in Threads, NEW m, IsOwn(x, m),
           phase[x] = "waiting" => m = op[x].lock
    PROVE  Only(dent.reqs, m, x)
  <1> SUFFICES ASSUME NEW i \in DOMAIN dent.reqs, dent.reqs[i].notify,
                      Key(dent.reqs[i].lock) = Key(m) \/ dent.reqs[i].thread = x
               PROVE  dent.reqs[i].lock = m
    BY DEF Only
  <1> DEFINE r == dent.reqs[i]
  <1>1. PICK fam \in Families : dent.reqs \in Seq(Requests(fam))
    BY DEF LockInv, GoodDent, DentOf
  <1>2. r \in Requests(fam)
    BY <1>1
  <1>3. r.thread \in Threads /\ Live(r) /\ TrueRequest(r)
    BY <1>2 DEF Requests, Live, Waiting, RequestsTrue
  <1>4. phase[r.thread] = "waiting"
    BY <1>3 DEF Waiting, WaitersAsk
  <1> HIDE DEF r
  <1>5. r.thread = x
    <2> SUFFICES ASSUME Key(r.lock) = Key(m) PROVE r.thread = x
      BY DEF r
    <2>1. ProcOf[r.thread] \in Pids /\ ProcOf[x] \in Pids
      BY <1>3, ProcsAssumption
    <2>2. Key(r.lock) \in Mine(ProcOf[r.thread]) /\ Key(m) \in Mine(ProcOf[x])
      BY <1>3, OwnKey DEF TrueRequest
    <2>3. ProcOf[r.thread] = ProcOf[x]
      BY <2>1, <2>2, MineApart
    <2> QED BY <1>3, <2>3 DEF OneThreadEach
  <1>6. r.lock = op[x].lock
    BY <1>3, <1>5 DEF TrueRequest
  <1> QED BY <1>4, <1>5, <1>6 DEF r

(* Thread t is told in this step that its lock is set. *)
JustTold(t) == /\ phase[t] # "answered" /\ phase'[t] = "answered" /\ result'[t] = "OK"
               /\ op'[t].kind = "SET" /\ leader' # "undefined"

(* It made the step, or its request was granted. *)
LEMMA WhoIsTold ==
    ASSUME LockInv, Waiting, NEW u \in Threads, NEW ret, NEW granted, Answer(u, ret, granted),
           NEW oom, \A g \in granted : \E k \in DOMAIN dent.reqs : g = Told(dent.reqs[k], oom),
           NEW t \in Threads, JustTold(t)
    PROVE  \/ t = u /\ ret = "OK"
           \/ t # u /\ phase[t] = "waiting" /\ ToldOk(granted, t)
  <1> DEFINE served == {g \in granted : g.notify}
             lucky == {g.thread : g \in served}
             c == CHOOSE g \in served : g.thread = t
  <1>1. result'[t] = IF t = u THEN ret ELSE IF t \in lucky THEN c.ret ELSE result[t]
    BY DEF Answer
  <1>2. phase'[t] = IF t = u \/ t \in lucky THEN "answered" ELSE phase[t]
    BY DEF Answer
  <1>3. t = u => ret = "OK"
    BY <1>1 DEF JustTold
  <1>4. ASSUME t # u PROVE phase[t] = "waiting" /\ ToldOk(granted, t)
    <2>1. phase[t] = "waiting"
      BY <1>4, WaitersServed DEF JustTold
    <2>2. t \in lucky
      BY <1>2, <1>4 DEF JustTold
    <2>3. \E g \in served : g.thread = t
      BY <2>2
    <2>4. c \in served /\ c.thread = t
      <3> HIDE DEF served
      <3> QED BY <2>3
    <2> HIDE DEF c, lucky
    <2>5. c.ret = "OK"
      BY <1>1, <1>4, <2>2 DEF JustTold
    <2> QED BY <2>1, <2>4, <2>5 DEF ToldOk
  <1> QED BY <1>3, <1>4

(* The lock that a waiting thread asked for. *)
LEMMA WaitingLock ==
    ASSUME LockInv, Waiting, HandlesApart, OneThreadEach, NEW t \in Threads, phase[t] = "waiting"
    PROVE  Only(dent.reqs, op[t].lock, t) /\ \E h \in Families : op[t].lock \in AskedOf(h)
  <1>1. PICK i \in DOMAIN dent.reqs : dent.reqs[i].thread = t /\ Live(dent.reqs[i])
    BY DEF Waiting, WaitersAsk
  <1>2. IsOwn(t, dent.reqs[i].lock) /\ dent.reqs[i].lock = op[t].lock
    BY <1>1 DEF Waiting, RequestsTrue, TrueRequest
  <1>3. IsOwn(t, op[t].lock)
    BY <1>2
  <1> QED BY <1>3, OnlyRequest, IsOwnFields

(* file_lock_set in another process than the leader: the short circuit. *)
LEMMA RemoteTold ==
    ASSUME LockInv, Waiting, ExitInv, NEW u \in Threads, NEW l, IsOwn(u, l), NEW wait, RemoteSet(u, l, wait),
           NEW t \in Threads, JustTold(t)
    PROVE  InEffect(dent'.locks, op'[t].lock)
  <1> DEFINE q == ProcOf[u]
  <1>1. q \in Pids /\ q # Leader /\ dent' = dent
        /\ op' = [op EXCEPT ![u] = [kind |-> "SET", lock |-> l, wait |-> wait]]
    BY ProcsAssumption DEF RemoteSet
  <1>2. \A g \in {} : \E k \in DOMAIN dent.reqs : g = Told(dent.reqs[k], {})
    OBVIOUS
  <1>3. ~ToldOk({}, t)
    BY DEF ToldOk
  <1>4. CASE phase' = [phase EXCEPT ![u] = "called"]
    BY <1>4 DEF JustTold, Waiting, Functions
  <1>5. CASE Answer(u, "ENOMEM", {})
    <2>1. "ENOMEM" # "OK"
      OBVIOUS
    <2> QED BY <1>2, <1>3, <1>5, <2>1, WhoIsTold
  <1>6. CASE ShortCircuits(q, l) /\ Answer(u, "OK", {})
    <2>1. t = u
      BY <1>2, <1>3, <1>6, WhoIsTold
    <2>2. op'[t].lock = l
      BY <1>1, <2>1 DEF LockInv, OpsOwn
    <2>3. PICK g \in Families : l \in AskedOf(g)
      BY IsOwnFields
    <2>4. l.type \in LockTypes
      BY <2>3, AskedType
    <2>5. l.type = "UNLCK" /\ ~maybe[q]
      BY <1>6, <2>4 DEF ShortCircuits, FlagsLock, LockTypes
    <2>6. Key(l) \notin Owned(dent.locks)
      <3>1. Owned(dent.locks) \cap Mine(q) = {}
        BY <1>1, <2>5 DEF ExitInv, Unflagged
      <3> QED BY <3>1, OwnKey
    <2>7. \A i \in DOMAIN dent.locks : ~(dent.locks[i].family = l.family /\ dent.locks[i].owner = l.owner)
      BY <2>6 DEF Owned, Key
    <2>8. \A b : HeldType(dent.locks, l.family, l.owner, b) = "UNLCK"
      BY <2>7 DEF HeldType
    <2>9. InEffect(dent.locks, l)
      BY <2>5, <2>8 DEF InEffect
    <2> QED BY <1>1, <2>2, <2>9
  <1> QED BY <1>4, <1>5, <1>6 DEF RemoteSet

(* file_lock_set_or_add_request, by the leader or by its IPC worker. *)
LEMMA SetsTold ==
    ASSUME LockInv, Waiting, HandlesApart, OneThreadEach, NEW u \in Threads, phase[u] # "waiting",
           NEW l, IsOwn(u, l), NEW wait, NEW o \in SetOrAddRequest(u, l, wait), ~o.queued,
           Answer(u, o.ret, o.granted), dent' = o.dent, ~Undefined(o.granted),
           \A x \in Threads : x # u => op'[x] = op[x], op'[u].lock = l,
           NEW t \in Threads, JustTold(t)
    PROVE  InEffect(dent'.locks, op'[t].lock)
  <1>1. PICK g \in Families : l \in AskedOf(g)
    BY IsOwnFields
  <1>2. GoodDent(dent) /\ SetDone(u, l, o) /\ OneEach(dent.reqs) /\ Notified(o.granted)
    BY <1>1, SetOrAddRequestDone DEF LockInv, Waiting, Notified, Undefined
  <1>3. PICK oom : Served(dent.reqs, Len(dent.reqs), o.dent.reqs, o.granted, {}, oom)
    BY <1>2 DEF SetDone
  <1>4. \A h \in o.granted : \E k \in DOMAIN dent.reqs : h = Told(dent.reqs[k], oom)
    BY <1>3, ServedOnly
  <1>5. \/ t = u /\ o.ret = "OK"
        \/ t # u /\ phase[t] = "waiting" /\ ToldOk(o.granted, t)
    BY <1>4, WhoIsTold
  <1>6. CASE t = u /\ o.ret = "OK"
    <2>1. Only(dent.reqs, l, u)
      BY OnlyRequest
    <2>2. InEffect(o.dent.locks, l)
      BY <1>1, <1>2, <1>6, <2>1, SetTold
    <2> QED BY <1>6, <2>2
  <1>7. CASE t # u /\ phase[t] = "waiting" /\ ToldOk(o.granted, t)
    <2>1. Only(dent.reqs, op[t].lock, t) /\ \E h \in Families : op[t].lock \in AskedOf(h)
      BY <1>7, WaitingLock
    <2>2. InEffect(o.dent.locks, op[t].lock)
      BY <1>1, <1>2, <1>7, <2>1, SetTold
    <2> QED BY <1>7, <2>2
  <1> QED BY <1>5, <1>6, <1>7

(* file_lock_set in the leader. *)
LEMMA LeaderTold ==
    ASSUME LockInv, Waiting, HandlesApart, OneThreadEach, NEW u \in Threads, phase[u] = "idle",
           NEW l, IsOwn(u, l), NEW wait, LeaderSet(u, l, wait), NEW t \in Threads, JustTold(t)
    PROVE  InEffect(dent'.locks, op'[t].lock)
  <1>1. PICK o \in SetOrAddRequest(u, l, wait) :
          /\ leader' = IF Undefined(o.granted) THEN "undefined" ELSE leader
          /\ \/ ~o.queued /\ dent' = o.dent /\ Answer(u, o.ret, o.granted)
             \/ /\ o.queued /\ dent' = SetNotify(o.dent, 1)
                /\ phase' = [phase EXCEPT ![u] = "waiting"] /\ UNCHANGED result
             \/ /\ o.queued /\ "event" \in scenario.failures /\ NoOrphan
                /\ dent' = o.dent /\ Answer(u, "ENOMEM", {})
    BY DEF LeaderSet
  <1>2. (\A x \in Threads : x # u => op'[x] = op[x]) /\ op'[u].lock = l
    BY DEF LeaderSet, LockInv, OpsOwn
  <1>3. ~Undefined(o.granted)
    BY <1>1 DEF JustTold
  <1>4. CASE ~o.queued /\ dent' = o.dent /\ Answer(u, o.ret, o.granted)
    BY <1>2, <1>3, <1>4, SetsTold
  <1>5. CASE phase' = [phase EXCEPT ![u] = "waiting"]
    BY <1>5 DEF JustTold, Waiting, Functions
  <1>6. CASE Answer(u, "ENOMEM", {})
    <2>1. \A g \in {} : \E k \in DOMAIN dent.reqs : g = Told(dent.reqs[k], {})
      OBVIOUS
    <2>2. ~ToldOk({}, t) /\ "ENOMEM" # "OK"
      BY DEF ToldOk
    <2> QED BY <1>6, <2>1, <2>2, WhoIsTold
  <1> QED BY <1>1, <1>4, <1>5, <1>6

(* file_lock_set_from_ipc. *)
LEMMA IpcTold ==
    ASSUME LockInv, Waiting, HandlesApart, OneThreadEach, NEW u \in Threads, phase[u] = "called",
           SetFromIpc(u), op' = op, NEW t \in Threads, JustTold(t)
    PROVE  InEffect(dent'.locks, op'[t].lock)
  <1> DEFINE l == op[u].lock
  <1>1. IsOwn(u, l)
    BY DEF SetFromIpc, LockInv, OpsOwn
  <1>2. CASE \E o \in SetOrAddRequest(u, l, op[u].wait) :
             /\ dent' = o.dent
             /\ leader' = CASE Undefined(o.granted) -> "undefined"
                            [] ~Undefined(o.granted) /\ ~o.queued /\ SendFails(u) -> "exited"
                            [] OTHER -> leader
             /\ IF RespondsNow(o)
                THEN Answer(u, o.ret, o.granted) /\ UNCHANGED worker
                ELSE /\ phase' = [phase EXCEPT ![u] = "waiting"]
                     /\ worker' = u
                     /\ UNCHANGED result
    <2>1. PICK o \in SetOrAddRequest(u, l, op[u].wait) :
             /\ dent' = o.dent
             /\ leader' = CASE Undefined(o.granted) -> "undefined"
                            [] ~Undefined(o.granted) /\ ~o.queued /\ SendFails(u) -> "exited"
                            [] OTHER -> leader
             /\ IF RespondsNow(o)
                THEN Answer(u, o.ret, o.granted) /\ UNCHANGED worker
                ELSE /\ phase' = [phase EXCEPT ![u] = "waiting"]
                     /\ worker' = u
                     /\ UNCHANGED result
      BY <1>2
    <2>2. ~Undefined(o.granted)
      BY <2>1 DEF JustTold
    <2>3. CASE o.queued
      BY <2>1, <2>3 DEF RespondsNow, JustTold, Waiting, Functions
    <2>4. CASE ~o.queued
      <3>1. Answer(u, o.ret, o.granted) /\ dent' = o.dent
        BY <2>1, <2>4 DEF RespondsNow
      <3> QED BY <1>1, <2>2, <2>4, <3>1, SetsTold
    <2> QED BY <2>3, <2>4
  <1>3. CASE Answer(u, "ENOENT", {})
    <2>1. \A g \in {} : \E k \in DOMAIN dent.reqs : g = Told(dent.reqs[k], {})
      OBVIOUS
    <2>2. ~ToldOk({}, t) /\ "ENOENT" # "OK"
      BY DEF ToldOk
    <2> QED BY <1>3, <2>1, <2>2, WhoIsTold
  <1> QED BY <1>2, <1>3 DEF SetFromIpc

(* file_lock_clear_pid_from_ipc. *)
LEMMA ClearsTold ==
    ASSUME LockInv, Waiting, HandlesApart, OneThreadEach, NEW u \in Threads, phase[u] = "called",
           ClearPidFromIpc(u), op' = op, NEW t \in Threads, JustTold(t)
    PROVE  InEffect(dent'.locks, op'[t].lock)
  <1>1. PICK oom \in OutOfMemory : LET o == ClearPidFromDentry(ProcOf[u], oom) IN
          /\ dent' = o.dent
          /\ leader' = CASE Undefined(o.granted) -> "undefined"
                         [] ~Undefined(o.granted) /\ SendFails(u) -> "exited"
                         [] OTHER -> leader
          /\ Answer(u, "OK", o.granted)
    BY DEF ClearPidFromIpc
  <1> DEFINE o == ClearPidFromDentry(ProcOf[u], oom)
  <1>2. dent' = o.dent /\ ~Undefined(o.granted) /\ Answer(u, "OK", o.granted)
    BY <1>1 DEF JustTold
  <1>3. t # u
    BY DEF ClearPidFromIpc, JustTold
  <1>4. \A i \in DOMAIN dent.reqs : ~OfPid(dent.reqs[i].lock, ProcOf[u])
    BY ClearFinds DEF ClearPidFromIpc
  <1>5. Served(dent.reqs, Len(dent.reqs), o.dent.reqs, o.granted, {}, oom)
    BY <1>4, ClearDone DEF LockInv, Waiting
  <1>6. \A m, x : \A h \in Families : m \in AskedOf(h) /\ Only(dent.reqs, m, x) =>
           (Notified(o.granted) /\ ToldOk(o.granted, x) => InEffect(o.dent.locks, m))
    BY ClearTold DEF LockInv
  <1> HIDE DEF o
  <1>7. \A g \in o.granted : \E k \in DOMAIN dent.reqs : g = Told(dent.reqs[k], oom)
    BY <1>5, ServedOnly
  <1>8. phase[t] = "waiting" /\ ToldOk(o.granted, t)
    BY <1>2, <1>3, <1>7, WhoIsTold
  <1>9. Only(dent.reqs, op[t].lock, t) /\ \E h \in Families : op[t].lock \in AskedOf(h)
    BY <1>8, WaitingLock
  <1>10. Notified(o.granted)
    BY <1>2 DEF Notified, Undefined
  <1> QED BY <1>2, <1>6, <1>8, <1>9, <1>10

(* Whatever the step, whoever is told so in it has the lock. *)
LEMMA StepTold ==
    ASSUME WaitInv, ExitInv, HandlesApart, OneThreadEach, Next, NEW t \in Threads, JustTold(t)
    PROVE  InEffect(dent'.locks, op'[t].lock)
  <1>1. scenario' = scenario /\ scenario \in Scenarios /\ LockInv /\ Waiting
    BY DEF Next, LockInv, WaitInv
  <1>2. phase' # phase
    BY DEF JustTold
  <1>3. ASSUME NEW u \in Threads, NEW l, IsOwn(u, l), NEW wait, Set(u, l, wait), phase[u] = "idle"
        PROVE  InEffect(dent'.locks, op'[t].lock)
    BY <1>1, <1>3, RemoteTold, LeaderTold DEF Set
  <1>4. ASSUME NEW u \in Threads, UserLock(u) PROVE InEffect(dent'.locks, op'[t].lock)
    <2>1. PICK a \in scenario.asks[u] : Set(u, OwnLock(ProcOf[u], a.family, a.type, a.range), a.wait)
      BY <1>4 DEF UserLock
    <2>2. IsOwn(u, OwnLock(ProcOf[u], a.family, a.type, a.range))
      BY <1>1, AsksOwn
    <2> QED BY <1>3, <1>4, <2>1, <2>2 DEF UserLock
  <1>5. ASSUME NEW u \in Threads, UserUnlock(u) PROVE InEffect(dent'.locks, op'[t].lock)
    <2>0. PICK a \in scenario.asks[u] : \E r \in {a.range, <<0, FS_LOCK_EOF>>} :
             Set(u, OwnLock(ProcOf[u], a.family, "UNLCK", r), FALSE)
      BY <1>5 DEF UserUnlock
    <2>1. PICK r \in {a.range, <<0, FS_LOCK_EOF>>} :
             Set(u, OwnLock(ProcOf[u], a.family, "UNLCK", r), FALSE)
      BY <2>0
    <2>2. IsOwn(u, OwnLock(ProcOf[u], a.family, "UNLCK", r))
      BY <1>1, AsksOwn
    <2> QED BY <1>3, <1>5, <2>1, <2>2 DEF UserUnlock
  <1>6. ASSUME NEW u \in Threads, NEW v \in {"idle", "called"}, phase' = [phase EXCEPT ![u] = v]
        PROVE  FALSE
    BY <1>1, <1>6 DEF JustTold, Waiting, Functions
  <1>7. ASSUME NEW u \in Threads, Return(u) \/ Exit(u) PROVE FALSE
    BY <1>6, <1>7 DEF Return, Exit
  <1>8. ASSUME NEW u \in Threads, DetachAllFds(u) PROVE InEffect(dent'.locks, op'[t].lock)
    <2>1. CASE RemoteSet(u, UnlockAll(ProcOf[u], "FLOCK"), FALSE)
      BY <1>1, <2>1, UnlockAllOwn, RemoteTold
    <2>2. CASE phase' = [phase EXCEPT ![u] = "idle"]
      BY <1>6, <2>2
    <2> QED BY <1>8, <2>1, <2>2 DEF DetachAllFds
  <1>9. ASSUME NEW u \in Threads, WorkerHandles(u) PROVE InEffect(dent'.locks, op'[t].lock)
    BY <1>1, <1>9, IpcTold, ClearsTold DEF WorkerHandles
  <1>10. ~WriteNotify /\ \A p \in Pids : ~Kill(p)
    BY <1>2 DEF WriteNotify, Kill
  <1> QED BY <1>4, <1>5, <1>7, <1>8, <1>9, <1>10 DEF Next, ThreadStep

(* Where each process has one thread that locks, and a handle of its own,  *)
(* file_lock_set never answers 0 before the lock is in effect: neither at  *)
(* once, nor after waiting, when one pass of file_lock_process_requests    *)
(* grants locks to several threads, nor by the short circuit.              *)
THEOREM AnswerTrueHolds == HandlesApart /\ OneThreadEach /\ Spec => AnswerTrue
  <1>1. WaitInv /\ ExitInv /\ HandlesApart /\ OneThreadEach /\ [Next]_<<vars, scenario>> =>
          [\A t \in Threads :
             (/\ phase[t] # "answered" /\ phase'[t] = "answered" /\ result'[t] = "OK"
              /\ op'[t].kind = "SET" /\ leader' # "undefined") => InEffect(dent'.locks, op'[t].lock)]_vars
    <2> SUFFICES ASSUME WaitInv, ExitInv, HandlesApart, OneThreadEach, [Next]_<<vars, scenario>>,
                        ~UNCHANGED vars, NEW t \in Threads,
                        /\ phase[t] # "answered" /\ phase'[t] = "answered" /\ result'[t] = "OK"
                        /\ op'[t].kind = "SET" /\ leader' # "undefined"
                 PROVE  InEffect(dent'.locks, op'[t].lock)
      OBVIOUS
    <2>1. JustTold(t)
      BY DEF JustTold
    <2>2. Next
      BY DEF vars
    <2> QED BY <2>1, <2>2, StepTold
  <1>2. (HandlesApart => HandlesApart') /\ (OneThreadEach => OneThreadEach')
    BY DEF HandlesApart, OneThreadEach
  <1> QED BY <1>1, <1>2, WaitInvInit, WaitInvStep, ExitInvInit, ExitInvStep, PTL DEF Spec, AnswerTrue
=============================================================================
