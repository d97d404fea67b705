--------------------------- MODULE ProcessProofs ----------------------------
(***************************************************************************)
(* Proofs about two components of a process, ChildWait and IpcRequests.    *)
(*                                                                         *)
(* ChildWait: every child is reported once, with a status it can have      *)
(* ended with, and the worker only visits queue nodes of threads that are  *)
(* still in do_waitid, for any number of children and threads.  KidInv     *)
(* follows one child from its list to the report: which messages its       *)
(* connection can still hold, and what the worker that has read one of     *)
(* them may find.  NodeInv says where a thread is while its node is linked *)
(* from the queue or from the part of it that the worker has taken.        *)
(* Neither needs children_lock to exclude anybody.                         *)
(*                                                                         *)
(* IpcRequests: an answer is stray only when its request was given up, and *)
(* the clean-up after one process does not touch a request to another, for *)
(* any threads, any other processes, any number of requests and any        *)
(* failures of the host.  Neither is inductive.  The invariant says who    *)
(* vouches for an answer under way: whatever a living process was asked    *)
(* and whatever is on a connection from it was given up, or belongs to     *)
(* exactly one thread, which is at its wait, and whose waiter is in the    *)
(* tree, meant for that process and not yet set.  It also says why an      *)
(* event is set: by the answer, because the process is dead, or because    *)
(* its connection failed and the request counts as given up.               *)
(***************************************************************************)
EXTENDS ChildWait, IpcRequests, SequenceTheorems, TLAPS

-----------------------------------------------------------------------------
(* The invariant                                                           *)

CwPlaces == {"idle", "lock", "search", "prepare", "check", "asleep", "lock_again", "unqueue",
             "prepare_again", "check_again", "drowsing", "leave", "out"}

(* The worker between two messages, and while it handles one. *)
WorkerStates ==
    [pc : {"idle"}, queue : {<<>>}]
    \cup [pc : {"lock", "mark"}, kid : Kids, how : {"CHILDEXIT", "EOF"}, queue : {<<>>}]
    \cup [pc : {"wake", "signal"}, kid : Kids, how : {"CHILDEXIT", "EOF"}, queue : Seq(Waiters)]

(* The types of the variables. *)
CwTypeOK ==
    /\ kid \in [Kids -> {"unborn", "running", "exited", "killed"}]
    /\ conn \in [Kids -> {<<>>, <<"CHILDEXIT", "EOF">>, <<"EOF">>, <<"closed">>}]
    /\ children \in SUBSET Kids
    /\ zombies \in Seq(Kids)
    /\ status \in [Kids -> {"none", "EXIT", "SIGPWR"}]
    /\ lockEvent \in BOOLEAN
    /\ waitQueue \in Seq(Waiters)
    /\ inUse \in [Waiters -> BOOLEAN]
    /\ cwEvent \in [Waiters -> BOOLEAN]
    /\ cw \in [Waiters -> [pc : CwPlaces, call : CwCalls \cup {CwIdle.call}]]
    /\ worker \in WorkerStates
    /\ waits \in [Waiters -> Nat]
    /\ reported \in [Kids -> Seq({"EXIT", "SIGPWR"})]

Distinct(s) == \A i, j \in DOMAIN s : s[i] = s[j] => i = j

InSeq(x, s) == \E i \in DOMAIN s : s[i] = x

(* The worker has read a message of k and has not looked for k yet. *)
OnIt(k) == worker.pc \in {"lock", "mark"} /\ worker.kid = k

(* What the connection can hold at each stage of the life of k. *)
ConnInv(k) ==
    /\ kid[k] = "unborn" => conn[k] = <<>>
    /\ kid[k] = "running" => conn[k] \in {<<>>, <<"closed">>}
    /\ kid[k] = "killed" => conn[k] \in {<<"EOF">>, <<"closed">>}
    /\ kid[k] = "exited" => conn[k] # <<>>
    /\ conn[k] = <<"CHILDEXIT", "EOF">> => kid[k] = "exited"

(* Whether k is still in the list of children: until its exit message has  *)
(* been handled, if it sent one.                                           *)
ListInv(k) ==
    /\ kid[k] = "running" /\ conn[k] = <<>> => k \in children
    /\ conn[k] = <<"CHILDEXIT", "EOF">> => k \in children
    /\ kid[k] = "exited" /\ conn[k] = <<"EOF">> /\ ~OnIt(k) => k \notin children
    /\ OnIt(k) /\ worker.how = "CHILDEXIT"
         => kid[k] = "exited" /\ conn[k] = <<"EOF">> /\ k \in children
    /\ OnIt(k) /\ worker.how = "EOF"
         => /\ kid[k] # "unborn" /\ conn[k] = <<"closed">>
            /\ k \in children => kid[k] = "killed" \/ k \in Unreadable

(* st is a status with which k can have ended. *)
StatusFits(k, st) == \/ st = "EXIT" /\ kid[k] = "exited"
                     \/ st = "SIGPWR" /\ (kid[k] = "killed" \/ k \in Unreadable)

(* k is in one list at most, and leaves the second one with its report. *)
ReportInv(k) ==
    /\ kid[k] = "unborn" => k \notin children /\ ~InSeq(k, zombies) /\ reported[k] = <<>>
    /\ k \in children => ~InSeq(k, zombies)
    /\ k \in children \/ InSeq(k, zombies) => reported[k] = <<>>
    /\ InSeq(k, zombies) => StatusFits(k, status[k])
    /\ reported[k] # <<>> => Len(reported[k]) = 1 /\ StatusFits(k, reported[k][1])

KidInv == /\ Distinct(zombies)
          /\ \A k \in Kids : ConnInv(k) /\ ListInv(k) /\ ReportInv(k)

(* The worker has yet to visit the node of t. *)
Pending(t) == \E i \in DOMAIN worker.queue :
                 worker.queue[i] = t /\ (worker.pc = "signal" => i # 1)

QueuedPlaces == {"prepare", "check", "asleep", "lock_again", "unqueue"}

PendingPlaces == QueuedPlaces \cup {"prepare_again", "check_again", "drowsing"}

NodeInv ==
    /\ Distinct(waitQueue) /\ Distinct(worker.queue)
    /\ worker.pc = "signal" => worker.queue # <<>>
    /\ \A t \in Waiters :
         /\ InSeq(t, waitQueue) => inUse[t] /\ cw[t].pc \in QueuedPlaces /\ ~Pending(t)
         /\ Pending(t) => inUse[t] /\ cw[t].pc \in PendingPlaces

CwInv == CwTypeOK /\ KidInv /\ NodeInv

-----------------------------------------------------------------------------
(* Lists                                                                   *)

(* What RemoveAt returns. *)
LEMMA RemoveAtProps ==
    ASSUME NEW S, NEW s \in Seq(S), NEW p \in DOMAIN s
    PROVE  /\ RemoveAt(s, p) \in Seq(S)
           /\ Len(RemoveAt(s, p)) = Len(s) - 1
           /\ \A j \in 1..(Len(s) - 1) : RemoveAt(s, p)[j] = IF j < p THEN s[j] ELSE s[j+1]
  <1> DEFINE a == SubSeq(s, 1, p-1)
             n == Len(s)
             m == p + 1
             b == SubSeq(s, m, n)
             w == RemoveAt(s, p)
  <1>1. p \in 1..n /\ n \in Nat /\ m = p + 1 /\ n = Len(s) /\ m \in Int
    OBVIOUS
  <1>2. w = a \o b
    BY DEF RemoveAt
  <1> HIDE DEF n, m
  <1>3. a \in Seq(S) /\ Len(a) = p - 1 /\ \A i \in 1..(p-1) : a[i] = s[i]
    <2>1. \A i \in 1..(p-1) : s[i] \in S
      BY <1>1
    <2> QED BY <2>1, <1>1, SubSeqProperties
  <1>4. \A i \in m..n : s[i] \in S
    BY <1>1
  <1>5. /\ b \in Seq(S)
        /\ Len(b) = IF m <= n THEN n-m+1 ELSE 0
        /\ \A i \in 1 .. n-m+1 : b[i] = s[m+i-1]
    BY <1>1, <1>4, SubSeqProperties
  <1> HIDE DEF a, b
  <1>6. Len(b) = n - p /\ \A i \in 1..(n - p) : b[i] = s[p + i]
    <2>1. Len(b) = n - p
      BY <1>1, <1>5
    <2>2. ASSUME NEW i \in 1..(n - p) PROVE b[i] = s[p + i]
      <3>1. i \in 1..(n-m+1) /\ m+i-1 = p + i
        BY <1>1
      <3> QED BY <3>1, <1>5
    <2> QED BY <2>1, <2>2
  <1>7. /\ a \o b \in Seq(S)
        /\ Len(a \o b) = Len(a) + Len(b)
        /\ \A i \in 1..(Len(a) + Len(b)) :
             (a \o b)[i] = IF i <= Len(a) THEN a[i] ELSE b[i - Len(a)]
    BY <1>3, <1>5, ConcatProperties
  <1> HIDE DEF w
  <1>8. w \in Seq(S) /\ Len(w) = n - 1
        /\ \A i \in 1..(n-1) : w[i] = IF i <= p-1 THEN a[i] ELSE b[i - (p-1)]
    <2>0. Len(a) = p - 1 /\ Len(b) = n - p
      BY <1>3, <1>6
    <2>1. Len(a) + Len(b) = n - 1
      <3>1. p \in Int /\ n \in Int
        BY <1>1
      <3> QED BY <3>1, <2>0
    <2>2. w \in Seq(S) /\ Len(w) = n - 1
      BY <1>2, <1>7, <2>1
    <2>3. ASSUME NEW i \in 1..(n-1) PROVE w[i] = IF i <= p-1 THEN a[i] ELSE b[i - (p-1)]
      <3>1. w[i] = IF i <= Len(a) THEN a[i] ELSE b[i - Len(a)]
        BY <1>2, <1>7, <2>1
      <3>2. Len(a) = p - 1
        BY <1>3
      <3> QED BY <3>1, <3>2
    <2> QED BY <2>2, <2>3
  <1>9. ASSUME NEW j \in 1..(n-1) PROVE w[j] = IF j < p THEN s[j] ELSE s[j+1]
    <2>1. CASE j < p
      BY <2>1, <1>1, <1>3, <1>8
    <2>2. CASE ~(j < p)
      <3>1. w[j] = b[j - (p-1)] /\ j - (p-1) \in 1..(n-p) /\ p + (j - (p-1)) = j + 1
        BY <2>2, <1>1, <1>8
      <3> QED BY <3>1, <1>6, <2>2
    <2> QED BY <2>1, <2>2
  <1> QED BY <1>1, <1>8, <1>9 DEF w

(* A list without repetitions loses what is removed and nothing else. *)
LEMMA RemoveDistinct ==
    ASSUME NEW S, NEW s \in Seq(S), NEW p \in DOMAIN s, Distinct(s)
    PROVE  /\ RemoveAt(s, p) \in Seq(S)
           /\ Distinct(RemoveAt(s, p))
           /\ ~InSeq(s[p], RemoveAt(s, p))
           /\ \A x : InSeq(x, RemoveAt(s, p)) => InSeq(x, s)
  <1> DEFINE w == RemoveAt(s, p)
             n == Len(s)
  <1>1. /\ w \in Seq(S) /\ Len(w) = n - 1 
        /\ \A j \in 1..(n - 1) : w[j] = IF j < p THEN s[j] ELSE s[j+1]
    BY RemoveAtProps
  <1>2. DOMAIN s = 1..n /\ n \in Nat /\ p \in 1..n
    OBVIOUS
  <1> HIDE DEF w, n
  <1>3. DOMAIN w = 1..(n-1)
    BY <1>1, <1>2
  <1> DEFINE f(i) == IF i < p THEN i ELSE i + 1
  <1>f. \A i \in 1..(n-1) : f(i) \in 1..n /\ f(i) # p /\ w[i] = s[f(i)]
    <2> SUFFICES ASSUME NEW i \in 1..(n-1) PROVE f(i) \in 1..n /\ f(i) # p /\ w[i] = s[f(i)]
      OBVIOUS
    <2>1. f(i) \in 1..n /\ f(i) # p
      BY <1>2
    <2>2. w[i] = s[f(i)]
      BY <1>1
    <2> QED BY <2>1, <2>2
  <1>g. \A i, j \in 1..(n-1) : f(i) = f(j) => i = j
    BY <1>2
  <1>d. \A i, j \in 1..n : s[i] = s[j] => i = j
    BY <1>2 DEF Distinct
  <1> HIDE DEF f
  <1>4. Distinct(w)
    BY <1>3, <1>f, <1>g, <1>d DEF Distinct
  <1>5. ~InSeq(s[p], w)
    BY <1>2, <1>3, <1>f, <1>d DEF InSeq
  <1>6. \A x : InSeq(x, w) => InSeq(x, s)
    BY <1>2, <1>3, <1>f DEF InSeq
  <1> QED BY <1>1, <1>4, <1>5, <1>6 DEF w

(* A new element at the front. *)
LEMMA ConsProps ==
    ASSUME NEW S, NEW s \in Seq(S), NEW x \in S
    PROVE  /\ <<x>> \o s \in Seq(S)
           /\ \A y : InSeq(y, <<x>> \o s) <=> y = x \/ InSeq(y, s)
           /\ Distinct(s) /\ ~InSeq(x, s) => Distinct(<<x>> \o s)
  <1> DEFINE w == <<x>> \o s
             n == Len(s)
  <1>1. w \in Seq(S) /\ Len(w) = n + 1 /\ w[1] = x /\ \A i \in 1..n : w[i+1] = s[i]
    OBVIOUS
  <1>2. DOMAIN s = 1..n /\ n \in Nat
    OBVIOUS
  <1> HIDE DEF w, n
  <1>3. DOMAIN w = 1..(n+1)
    BY <1>1, <1>2
  <1>4. \A i \in 2..(n+1) : i - 1 \in 1..n /\ w[i] = s[i-1]
    BY <1>1, <1>2
  <1>5. ASSUME NEW y PROVE InSeq(y, w) <=> y = x \/ InSeq(y, s)
    <2>1. ASSUME NEW i \in DOMAIN w, w[i] = y PROVE y = x \/ InSeq(y, s)
      <3>1. CASE i = 1
        BY <3>1, <2>1, <1>1
      <3>2. CASE i # 1
        <4>1. i \in 2..(n+1)
          BY <3>2, <1>2, <1>3
        <4> QED BY <4>1, <2>1, <1>2, <1>4 DEF InSeq
      <3> QED BY <3>1, <3>2
    <2>2. y = x => InSeq(y, w)
      BY <1>1, <1>2, <1>3 DEF InSeq
    <2>3. InSeq(y, s) => InSeq(y, w)
      <3>1. \A i \in 1..n : i + 1 \in 1..(n+1)
        BY <1>2
      <3> QED BY <1>1, <1>2, <1>3, <3>1 DEF InSeq
    <2>4. InSeq(y, w) => y = x \/ InSeq(y, s)
      BY <2>1 DEF InSeq
    <2> QED BY <2>4, <2>2, <2>3
  <1>6. ASSUME Distinct(s), ~InSeq(x, s) PROVE Distinct(w)
    <2>1. \A i, j \in 1..n : s[i] = s[j] => i = j
      BY <1>2, <1>6 DEF Distinct
    <2>2. \A i \in 1..n : s[i] # x
      BY <1>2, <1>6 DEF InSeq
    <2> SUFFICES ASSUME NEW i \in 1..(n+1), NEW j \in 1..(n+1), w[i] = w[j] PROVE i = j
      BY <1>3 DEF Distinct
    <2>3. \A l \in 1..(n+1) : l = 1 \/ l \in 2..(n+1)
      BY <1>2
    <2>4. CASE i = 1 /\ j = 1
      BY <2>4
    <2>5. CASE i # 1 /\ j = 1
      BY <2>5, <2>3, <1>1, <1>4, <2>2
    <2>6. CASE i = 1 /\ j # 1
      BY <2>6, <2>3, <1>1, <1>4, <2>2
    <2>7. CASE i # 1 /\ j # 1
      <3>1. i - 1 \in 1..n /\ j - 1 \in 1..n /\ s[i-1] = s[j-1]
        BY <2>7, <2>3, <1>4
      <3>2. i - 1 = j - 1
        BY <3>1, <2>1
      <3> QED BY <3>2
    <2> QED BY <2>4, <2>5, <2>6, <2>7
  <1> QED BY <1>1, <1>5, <1>6 DEF w

(* The rest of a list. *)
LEMMA TailProps ==
    ASSUME NEW S, NEW s \in Seq(S), s # <<>>
    PROVE  /\ Tail(s) \in Seq(S) /\ Head(s) \in S /\ Head(s) = s[1] /\ 1 \in DOMAIN s
           /\ \A y : InSeq(y, Tail(s)) <=> \E i \in DOMAIN s : s[i] = y /\ i # 1
           /\ Distinct(s) => Distinct(Tail(s))
  <1> DEFINE w == Tail(s)
             n == Len(s)
  <1>1. /\ w \in Seq(S) /\ Len(w) = n - 1 /\ \A i \in 1..(n-1) : w[i] = s[i+1]
        /\ DOMAIN s = 1..n /\ n \in Nat /\ n # 0 /\ Head(s) = s[1]
    OBVIOUS
  <1> HIDE DEF w, n
  <1>2. DOMAIN w = 1..(n-1) /\ 1 \in DOMAIN s /\ s[1] \in S
    BY <1>1
  <1>3. ASSUME NEW y PROVE InSeq(y, w) <=> \E i \in DOMAIN s : s[i] = y /\ i # 1
    <2>1. ASSUME NEW i \in DOMAIN s, s[i] = y, i # 1 PROVE InSeq(y, w)
      <3>1. i - 1 \in 1..(n-1) /\ w[i-1] = s[i]
        BY <1>1, <2>1
      <3> QED BY <3>1, <1>2, <2>1 DEF InSeq
    <2>2. ASSUME NEW i \in DOMAIN w, w[i] = y PROVE \E j \in DOMAIN s : s[j] = y /\ j # 1
      <3>1. i + 1 \in 1..n /\ s[i+1] = y /\ i + 1 # 1
        BY <1>1, <1>2, <2>2
      <3> QED BY <3>1, <1>1
    <2> QED BY <2>1, <2>2 DEF InSeq
  <1>4. ASSUME Distinct(s) PROVE Distinct(w)
    <2>1. \A i, j \in 1..n : s[i] = s[j] => i = j
      BY <1>1, <1>4 DEF Distinct
    <2> SUFFICES ASSUME NEW i \in 1..(n-1), NEW j \in 1..(n-1), w[i] = w[j] PROVE i = j
      BY <1>2 DEF Distinct
    <2>2. i + 1 \in 1..n /\ j + 1 \in 1..n /\ s[i+1] = s[j+1]
      BY <1>1
    <2>3. i + 1 = j + 1
      BY <2>1, <2>2
    <2> QED BY <2>3
  <1> QED BY <1>1, <1>2, <1>3, <1>4 DEF w

(* The empty list. *)
LEMMA EmptyProps == Distinct(<<>>) /\ \A x : ~InSeq(x, <<>>)
  BY DEF Distinct, InSeq

-----------------------------------------------------------------------------
(* Parts of the invariant that a step does not touch                       *)

(* The fields that the record of the worker has in each of its places. *)
LEMMA WorkerShape ==
    ASSUME worker \in WorkerStates
    PROVE  /\ worker.pc \in {"idle", "lock", "mark", "wake", "signal"}
           /\ worker.queue \in Seq(Waiters)
           /\ worker.pc \notin {"wake", "signal"} => worker.queue = <<>>
           /\ worker.pc # "idle" => worker.kid \in Kids /\ worker.how \in {"CHILDEXIT", "EOF"}
           /\ worker.pc # "idle"
                => worker = [pc |-> worker.pc, kid |-> worker.kid, how |-> worker.how,
                             queue |-> worker.queue]
  <1>0. <<>> \in Seq(Waiters)
    OBVIOUS
  <1>1. CASE worker \in [pc : {"idle"}, queue : {<<>>}]
    <2>1. worker.pc = "idle" /\ worker.queue = <<>>
      BY <1>1, Zenon
    <2> QED BY <2>1, <1>0
  <1>2. CASE worker \in [pc : {"lock", "mark"}, kid : Kids, how : {"CHILDEXIT", "EOF"}, queue : {<<>>}]
    <2>1. worker.pc \in {"lock", "mark"} /\ worker.queue = <<>>
      BY <1>2, Zenon
    <2>2. worker.kid \in Kids /\ worker.how \in {"CHILDEXIT", "EOF"}
      BY <1>2
    <2>3. worker = [pc |-> worker.pc, kid |-> worker.kid, how |-> worker.how,
                    queue |-> worker.queue]
      BY <1>2
    <2> QED BY <1>0, <2>1, <2>2, <2>3
  <1>3. CASE worker \in [pc : {"wake", "signal"}, kid : Kids, how : {"CHILDEXIT", "EOF"},
                         queue : Seq(Waiters)]
    <2>1. /\ worker.pc \in {"lock", "mark", "wake", "signal"} /\ worker.queue \in Seq(Waiters)
          /\ worker.pc \in {"lock", "mark"} => worker.queue = <<>>
      BY <1>3
    <2>2. worker.kid \in Kids /\ worker.how \in {"CHILDEXIT", "EOF"}
      BY <1>3
    <2>3. worker = [pc |-> worker.pc, kid |-> worker.kid, how |-> worker.how,
                    queue |-> worker.queue]
      BY <1>3
    <2> QED BY <2>1, <2>2, <2>3
  <1> QED BY <1>1, <1>2, <1>3 DEF WorkerStates

(* A step that changes nothing of a child, nor what the worker looks for. *)
LEMMA KidStable ==
    ASSUME KidInv, UNCHANGED <<kid, conn, children, zombies, status, reported>>,
           \A k \in Kids : OnIt(k)' <=> OnIt(k),
           worker.pc \in {"lock", "mark"} => worker'.how = worker.how
    PROVE  KidInv'
  <1>1. Distinct(zombies)'
    BY DEF KidInv, Distinct
  <1>2. ASSUME NEW k \in Kids PROVE ConnInv(k)' /\ ListInv(k)' /\ ReportInv(k)'
    <2>1. ConnInv(k) /\ ListInv(k) /\ ReportInv(k) /\ (OnIt(k)' <=> OnIt(k))
      BY DEF KidInv
    <2>2. OnIt(k) => worker'.how = worker.how
      BY DEF OnIt
    <2>3. ConnInv(k)'
      BY <2>1 DEF ConnInv
    <2>4. ListInv(k)'
      BY <2>1, <2>2 DEF ListInv
    <2>5. ReportInv(k)'
      BY <2>1 DEF ReportInv, InSeq, StatusFits
    <2> QED BY <2>3, <2>4, <2>5
  <1> QED BY <1>1, <1>2 DEF KidInv

(* A step of thread t that leaves the queues alone. *)
LEMMA NodeMove ==
    ASSUME NodeInv, NEW t \in Waiters, UNCHANGED <<waitQueue, inUse, worker>>,
           \A u \in Waiters \ {t} : cw'[u].pc = cw[u].pc,
           InSeq(t, waitQueue) => cw'[t].pc \in QueuedPlaces,
           Pending(t) => cw'[t].pc \in PendingPlaces
    PROVE  NodeInv'
  <1>1. (Distinct(waitQueue) /\ Distinct(worker.queue))'
    BY DEF NodeInv, Distinct
  <1>2. (worker.pc = "signal" => worker.queue # <<>>)'
    BY DEF NodeInv
  <1>3. ASSUME NEW u \in Waiters
        PROVE  /\ (InSeq(u, waitQueue) => inUse[u] /\ cw[u].pc \in QueuedPlaces /\ ~Pending(u))'
               /\ (Pending(u) => inUse[u] /\ cw[u].pc \in PendingPlaces)'
    <2>1. (InSeq(u, waitQueue)' <=> InSeq(u, waitQueue)) /\ (Pending(u)' <=> Pending(u))
      BY DEF InSeq, Pending
    <2>2. /\ InSeq(u, waitQueue) => inUse[u] /\ cw[u].pc \in QueuedPlaces /\ ~Pending(u)
          /\ Pending(u) => inUse[u] /\ cw[u].pc \in PendingPlaces
      BY DEF NodeInv
    <2>3. CASE u = t
      BY <2>1, <2>2, <2>3 DEF QueuedPlaces, PendingPlaces
    <2>4. CASE u # t
      BY <2>1, <2>2, <2>4 DEF QueuedPlaces, PendingPlaces
    <2> QED BY <2>3, <2>4
  <1> QED BY <1>1, <1>2, <1>3 DEF NodeInv

(* A step that leaves the queues and the threads alone. *)
LEMMA NodeStable ==
    ASSUME NodeInv, UNCHANGED <<waitQueue, inUse, cw, worker>>
    PROVE  NodeInv'
  BY DEF NodeInv, Distinct, InSeq, Pending, QueuedPlaces, PendingPlaces

-----------------------------------------------------------------------------
(* The children                                                            *)

(* The start of a child. *)
LEMMA AddPreserves ==
    ASSUME CwInv, NEW k \in Kids, AddChildProcess(k)
    PROVE  CwInv'
  <1> USE DEF AddChildProcess
  <1>1. CwTypeOK'
    BY DEF CwInv, CwTypeOK
  <1>2. KidInv'
    <2>1. Distinct(zombies)'
      BY DEF CwInv, KidInv, Distinct
    <2>2. ASSUME NEW c \in Kids PROVE ConnInv(c)' /\ ListInv(c)' /\ ReportInv(c)'
      <3>1. ConnInv(c) /\ ListInv(c) /\ ReportInv(c) /\ (OnIt(c)' <=> OnIt(c))
        BY DEF CwInv, KidInv, OnIt
      <3>2. /\ c # k => kid'[c] = kid[c] /\ (c \in children' <=> c \in children)
            /\ c = k => kid[c] = "unborn" /\ kid'[c] = "running" /\ c \in children'
        BY DEF CwInv, CwTypeOK
      <3>3. ConnInv(c)'
        BY <3>1, <3>2 DEF ConnInv
      <3>4. ListInv(c)'
        BY <3>1, <3>2, WorkerShape DEF ListInv, CwInv, CwTypeOK, OnIt
      <3>5. ReportInv(c)'
        BY <3>1, <3>2 DEF ReportInv, InSeq, StatusFits
      <3> QED BY <3>3, <3>4, <3>5
    <2> QED BY <2>1, <2>2 DEF KidInv
  <1>3. NodeInv'
    BY NodeStable DEF CwInv
  <1> QED BY <1>1, <1>2, <1>3 DEF CwInv

(* The end of a child, with the messages that it can still send. *)
LEMMA EndPreserves ==
    ASSUME CwInv, NEW k \in Kids, KidExits(k) \/ KidKilled(k)
    PROVE  CwInv'
  <1> USE DEF KidExits, KidKilled, KidSends
  <1>0. kid[k] = "running" /\ conn[k] \in {<<>>, <<"closed">>}
    BY DEF CwInv, KidInv, ConnInv
  <1>1. /\ \A c \in Kids \ {k} : kid'[c] = kid[c] /\ conn'[c] = conn[c]
        /\ \/ kid'[k] = "exited" /\ (conn[k] = <<>> => conn'[k] = <<"CHILDEXIT", "EOF">>)
           \/ kid'[k] = "killed" /\ (conn[k] = <<>> => conn'[k] = <<"EOF">>)
        /\ conn[k] = <<"closed">> => conn'[k] = conn[k]
        /\ UNCHANGED <<children, zombies, status, lockEvent, waitQueue, inUse, cwEvent, cw, worker,
                   reported, waits>>
    <2>1. kid \in [Kids -> {"unborn", "running", "exited", "killed"}] /\ DOMAIN conn = Kids
      BY DEF CwInv, CwTypeOK
    <2> QED BY <1>0, <2>1
  <1>2. CwTypeOK'
    <2>1. kid' \in [Kids -> {"unborn", "running", "exited", "killed"}]
      BY DEF CwInv, CwTypeOK
    <2>2. conn' \in [Kids -> {<<>>, <<"CHILDEXIT", "EOF">>, <<"EOF">>, <<"closed">>}]
      <3>1. conn' = [c \in Kids |-> conn'[c]]
        BY DEF CwInv, CwTypeOK
      <3>2. \A c \in Kids : conn[c] \in {<<>>, <<"CHILDEXIT", "EOF">>, <<"EOF">>, <<"closed">>}
        BY DEF CwInv, CwTypeOK
      <3>3. \A c \in Kids : conn'[c] \in {<<>>, <<"CHILDEXIT", "EOF">>, <<"EOF">>, <<"closed">>}
        BY <3>2, <1>0, <1>1
      <3> QED BY <3>1, <3>3
    <2> QED BY <1>1, <2>1, <2>2 DEF CwInv, CwTypeOK
  <1>3. KidInv'
    <2>1. Distinct(zombies)'
      BY <1>1 DEF CwInv, KidInv, Distinct
    <2>2. ASSUME NEW c \in Kids PROVE ConnInv(c)' /\ ListInv(c)' /\ ReportInv(c)'
      <3>1. ConnInv(c) /\ ListInv(c) /\ ReportInv(c) /\ (OnIt(c)' <=> OnIt(c))
        BY <1>1 DEF CwInv, KidInv, OnIt
      <3>3. ConnInv(c)'
        BY <3>1, <1>0, <1>1 DEF ConnInv
      <3>4. ListInv(c)'
        <4> HIDE DEF KidExits, KidKilled, KidSends
        <4>1. CASE c # k
          BY <3>1, <1>1, <4>1 DEF ListInv
        <4>2. CASE c = k
          BY <3>1, <1>0, <1>1, <4>2, WorkerShape DEF ListInv, CwInv, CwTypeOK, OnIt
        <4> QED BY <4>1, <4>2
      <3>5. ReportInv(c)'
        BY <3>1, <1>0, <1>1 DEF ReportInv, InSeq, StatusFits
      <3> QED BY <3>3, <3>4, <3>5
    <2> QED BY <2>1, <2>2 DEF KidInv
  <1>4. NodeInv'
    BY <1>1, NodeStable DEF CwInv
  <1> QED BY <1>2, <1>3, <1>4 DEF CwInv

-----------------------------------------------------------------------------
(* The IPC worker                                                          *)

(* The worker takes note of child k, for the reason how. *)
LEMMA NotePreserves ==
    ASSUME CwInv, NEW k \in Kids, NEW how \in {"CHILDEXIT", "EOF"}, NEW rest,
           worker.pc = "idle",
           worker' = [pc |-> "lock", kid |-> k, how |-> how, queue |-> <<>>],
           conn' = [conn EXCEPT ![k] = rest],
           \/ how = "CHILDEXIT" /\ conn[k] = <<"CHILDEXIT", "EOF">> /\ rest = <<"EOF">>
           \/ /\ how = "EOF" /\ rest = <<"closed">> /\ kid[k] # "unborn"
              /\ conn[k] = <<"EOF">> \/ k \in Unreadable,
           UNCHANGED <<kid, cwListVars, lockEvent, waitQueue, inUse, cwEvent, cw, waits>>
    PROVE  CwInv'
  <1>0. CwTypeOK /\ KidInv /\ NodeInv
    BY DEF CwInv
  <1>1. /\ worker'.pc = "lock" /\ worker'.kid = k /\ worker'.how = how /\ worker'.queue = <<>>
        /\ \A c \in Kids : OnIt(c)' <=> c = k
        /\ \A c \in Kids : ~OnIt(c)
    BY DEF OnIt
  <1>2. /\ conn'[k] = rest /\ \A c \in Kids \ {k} : conn'[c] = conn[c]
        /\ UNCHANGED <<kid, children, zombies, status, reported, waitQueue, inUse, cw>>
    BY <1>0 DEF CwTypeOK, cwListVars
  <1>3. CwTypeOK'
    <2>1. conn' \in [Kids -> {<<>>, <<"CHILDEXIT", "EOF">>, <<"EOF">>, <<"closed">>}]
      <3>1. conn' = [c \in Kids |-> conn'[c]]
        BY <1>0 DEF CwTypeOK
      <3>2. \A c \in Kids : conn[c] \in {<<>>, <<"CHILDEXIT", "EOF">>, <<"EOF">>, <<"closed">>}
        BY <1>0 DEF CwTypeOK
      <3>3. \A c \in Kids : conn'[c] \in {<<>>, <<"CHILDEXIT", "EOF">>, <<"EOF">>, <<"closed">>}
        BY <3>2, <1>2
      <3> QED BY <3>1, <3>3
    <2>2. worker' \in WorkerStates
      BY DEF WorkerStates
    <2> QED BY <2>1, <2>2, <1>0 DEF CwTypeOK, cwListVars
  <1>4. KidInv'
    <2>1. Distinct(zombies)'
      BY <1>0, <1>2 DEF KidInv, Distinct
    <2>2. ASSUME NEW c \in Kids PROVE ConnInv(c)' /\ ListInv(c)' /\ ReportInv(c)'
      <3>1. ConnInv(c) /\ ListInv(c) /\ ReportInv(c)
        BY <1>0 DEF KidInv
      <3>3. ConnInv(c)'
        BY <3>1, <1>1, <1>2 DEF ConnInv
      <3>4. ListInv(c)'
        <4>1. CASE c # k
          BY <4>1, <3>1, <1>1, <1>2 DEF ListInv
        <4>2. CASE c = k
          <5>1. ConnInv(k) /\ ListInv(k) /\ ~OnIt(k)
            BY <3>1, <4>2, <1>1
          <5>2. CASE how = "CHILDEXIT"
            BY <5>1, <5>2, <4>2, <1>1, <1>2 DEF ListInv, ConnInv
          <5>3. CASE how = "EOF"
            <6>1. kid[k] \in {"running", "exited", "killed"}
              BY <5>3, <1>0 DEF CwTypeOK
            <6>2. conn'[k] = <<"closed">>
              BY <5>3, <1>2
            <6>3. k \in children => kid[k] = "killed" \/ k \in Unreadable
              BY <5>1, <5>3, <6>1 DEF ListInv, ConnInv
            <6> QED BY <5>3, <6>1, <6>2, <6>3, <4>2, <1>1, <1>2 DEF ListInv
          <5> QED BY <5>2, <5>3
        <4> QED BY <4>1, <4>2
      <3>5. ReportInv(c)'
        BY <3>1, <1>2 DEF ReportInv, InSeq, StatusFits
      <3> QED BY <3>3, <3>4, <3>5
    <2> QED BY <2>1, <2>2 DEF KidInv
  <1>5. NodeInv'
    <2>1. worker.queue = <<>>
      BY <1>0, WorkerShape DEF CwTypeOK
    <2>2. \A t \in Waiters : ~Pending(t) /\ ~Pending(t)'
      BY <1>1, <2>1 DEF Pending
    <2>3. Distinct(worker.queue)'
      BY <1>1, EmptyProps
    <2>4. Distinct(waitQueue)' /\ \A t \in Waiters : InSeq(t, waitQueue)' <=> InSeq(t, waitQueue)
      BY <1>0, <1>2 DEF NodeInv
    <2> QED BY <1>0, <1>1, <1>2, <2>2, <2>3, <2>4 DEF NodeInv
  <1> QED BY <1>3, <1>4, <1>5 DEF CwInv

(* A message or an error is read. *)
LEMMA ReadPreserves ==
    ASSUME CwInv, NEW k \in Kids, WorkerReads(k) \/ WorkerReadFails(k)
    PROVE  CwInv'
  <1>0. CwTypeOK /\ ConnInv(k)
    BY DEF CwInv, KidInv
  <1>1. CASE WorkerReads(k)
    <2>1. \/ conn[k] = <<"CHILDEXIT", "EOF">>
          \/ conn[k] = <<"EOF">>
      BY <1>0, <1>1 DEF CwTypeOK, WorkerReads
    <2>2. CASE conn[k] = <<"CHILDEXIT", "EOF">>
      <3>1. Head(conn[k]) = "CHILDEXIT" /\ Tail(conn[k]) = <<"EOF">>
        BY <2>2
      <3>2. /\ worker' = [pc |-> "lock", kid |-> k, how |-> "CHILDEXIT", queue |-> <<>>]
            /\ conn' = [conn EXCEPT ![k] = <<"EOF">>]
        BY <3>1, <1>1 DEF WorkerReads
      <3> QED BY <2>2, <3>2, <1>1, NotePreserves DEF WorkerReads
    <2>3. CASE conn[k] = <<"EOF">>
      <3>1. Head(conn[k]) = "EOF"
        BY <2>3
      <3>2. /\ worker' = [pc |-> "lock", kid |-> k, how |-> "EOF", queue |-> <<>>]
            /\ conn' = [conn EXCEPT ![k] = <<"closed">>]
        BY <3>1, <1>1 DEF WorkerReads
      <3>3. kid[k] # "unborn"
        BY <1>0, <2>3 DEF ConnInv
      <3> QED BY <2>3, <3>2, <3>3, <1>1, NotePreserves DEF WorkerReads
    <2> QED BY <2>1, <2>2, <2>3
  <1>2. CASE WorkerReadFails(k)
    BY <1>2, NotePreserves DEF WorkerReadFails
  <1> QED BY <1>1, <1>2

(* The worker takes children_lock. *)
LEMMA WorkerLocksPreserves ==
    ASSUME CwInv, WorkerLocks
    PROVE  CwInv'
  <1>0. CwTypeOK /\ KidInv /\ NodeInv
    BY DEF CwInv
  <1>1. /\ worker'.pc = "mark" /\ worker'.kid = worker.kid /\ worker'.how = worker.how
        /\ worker'.queue = worker.queue /\ worker' \in WorkerStates /\ worker.pc = "lock"
    <2>1. /\ worker = [pc |-> "lock", kid |-> worker.kid, how |-> worker.how, queue |-> <<>>]
          /\ worker.kid \in Kids /\ worker.how \in {"CHILDEXIT", "EOF"}
      BY <1>0, WorkerShape DEF CwTypeOK, WorkerLocks
    <2>2. PICK k \in Kids, how \in {"CHILDEXIT", "EOF"} :
             worker = [pc |-> "lock", kid |-> k, how |-> how, queue |-> <<>>]
      BY <2>1
    <2>3. worker' = [pc |-> "mark", kid |-> k, how |-> how, queue |-> <<>>]
      BY <2>2 DEF WorkerLocks
    <2> QED BY <2>2, <2>3 DEF WorkerStates
  <1>2. CwTypeOK'
    BY <1>0, <1>1 DEF CwTypeOK, WorkerLocks, cwKidVars, cwListVars
  <1>3. KidInv'
    BY <1>0, <1>1, KidStable DEF WorkerLocks, cwKidVars, cwListVars, OnIt
  <1>4. NodeInv'
    <2>1. UNCHANGED <<waitQueue, inUse, cw>>
      BY DEF WorkerLocks
    <2>2. \A t \in Waiters : Pending(t)' <=> Pending(t)
      BY <1>1 DEF Pending
    <2>3. (Distinct(worker.queue) /\ Distinct(waitQueue))'
      BY <1>0, <1>1, <2>1 DEF NodeInv
    <2>4. \A t \in Waiters : InSeq(t, waitQueue)' <=> InSeq(t, waitQueue)
      BY <2>1
    <2> QED BY <1>0, <1>1, <2>1, <2>2, <2>3, <2>4 DEF NodeInv
  <1> QED BY <1>2, <1>3, <1>4 DEF CwInv

(* mark_child_exited: the child changes lists and the worker takes the     *)
(* queue, or the child was not there any more.                             *)
LEMMA MarkPreserves ==
    ASSUME CwInv, MarkChildExited
    PROVE  CwInv'
  <1>0. CwTypeOK /\ KidInv /\ NodeInv
    BY DEF CwInv
  <1>1. PICK k \in Kids, how \in {"CHILDEXIT", "EOF"} :
           worker = [pc |-> "mark", kid |-> k, how |-> how, queue |-> <<>>]
    BY <1>0, WorkerShape DEF CwTypeOK, MarkChildExited
  <1>2. /\ worker.pc = "mark" /\ worker.kid = k /\ worker.how = how /\ worker.queue = <<>>
        /\ \A c \in Kids : OnIt(c) <=> c = k
    BY <1>1 DEF OnIt
  <1>3. UNCHANGED <<kid, conn, inUse, cwEvent, cw, reported, waits>> /\ lockEvent' = TRUE
    BY DEF MarkChildExited, cwKidVars
  <1>n. \A t \in Waiters : ~Pending(t)
    BY <1>2 DEF Pending
  <1>4. CASE k \in children
    <2>1. /\ children' = children \ {k}
          /\ zombies' = <<k>> \o zombies
          /\ status' = [status EXCEPT ![k] = IF how = "EOF" THEN "SIGPWR" ELSE "EXIT"]
          /\ waitQueue' = <<>>
          /\ worker' = [worker EXCEPT !.pc = "wake", !.queue = waitQueue]
      BY <1>2, <1>4 DEF MarkChildExited
    <2>2. worker' = [pc |-> "wake", kid |-> k, how |-> how, queue |-> waitQueue]
      BY <1>1, <2>1
    <2>3. /\ worker'.pc = "wake" /\ worker'.queue = waitQueue
          /\ \A c \in Kids : ~OnIt(c)'
      BY <2>2 DEF OnIt
    <2>4. zombies \in Seq(Kids) /\ Distinct(zombies) /\ ListInv(k) /\ ReportInv(k) /\ ConnInv(k)
      BY <1>0 DEF CwTypeOK, KidInv
    <2>5. ~InSeq(k, zombies) /\ reported[k] = <<>> /\ kid[k] # "unborn"
      BY <2>4, <1>4 DEF ReportInv
    <2>6. /\ zombies' \in Seq(Kids) /\ Distinct(zombies')
          /\ \A c : InSeq(c, zombies') <=> c = k \/ InSeq(c, zombies)
      BY <2>1, <2>4, <2>5, ConsProps
    <2>7. CwTypeOK'
      <3>1. worker' \in WorkerStates
        BY <2>2, <1>0 DEF WorkerStates, CwTypeOK
      <3>2. waitQueue' \in Seq(Waiters)
        BY <2>1
      <3>3. children' \in SUBSET Kids /\ status' \in [Kids -> {"none", "EXIT", "SIGPWR"}]
        BY <2>1, <1>0 DEF CwTypeOK
      <3> QED BY <3>1, <3>2, <3>3, <2>6, <1>0, <1>3 DEF CwTypeOK
    <2>8. KidInv'
      <3>1. ASSUME NEW c \in Kids PROVE ConnInv(c)' /\ ListInv(c)' /\ ReportInv(c)'
        <4>1. ConnInv(c) /\ ListInv(c) /\ ReportInv(c)
          BY <1>0 DEF KidInv
        <4>2. ConnInv(c)'
          BY <4>1, <1>3 DEF ConnInv
        <4>3. CASE c = k
          <5>1. \/ how = "CHILDEXIT" /\ kid[k] = "exited" /\ conn[k] = <<"EOF">>
                \/ /\ how = "EOF" /\ conn[k] = <<"closed">>
                   /\ kid[k] = "killed" \/ k \in Unreadable
            BY <2>4, <1>2, <1>4 DEF ListInv
          <5>2. k \notin children' /\ kid'[k] = kid[k] /\ conn'[k] = conn[k] /\ reported'[k] = <<>>
            BY <2>1, <1>3, <2>5
          <5>3. ListInv(k)'
            <6>1. conn[k] # <<>> /\ conn[k] # <<"CHILDEXIT", "EOF">>
              BY <5>1, SMTT(30)
            <6>2. /\ conn'[k] # <<>> /\ conn'[k] # <<"CHILDEXIT", "EOF">> /\ k \notin children'
                  /\ ~OnIt(k)'
              BY <6>1, <5>2, <2>3
            <6> QED BY <6>2, Zenon DEF ListInv
          <5>4. status'[k] = IF how = "EOF" THEN "SIGPWR" ELSE "EXIT"
            BY <2>1, <1>0 DEF CwTypeOK
          <5>5. StatusFits(k, status[k])'
            BY <5>1, <5>2, <5>4 DEF StatusFits
          <5>6. ReportInv(k)'
            BY <5>2, <5>5, <2>5 DEF ReportInv
          <5> QED BY <4>2, <4>3, <5>3, <5>6
        <4>4. CASE c # k
          <5>1. /\ c \in children' <=> c \in children
                /\ status'[c] = status[c]
                /\ InSeq(c, zombies') <=> InSeq(c, zombies)
                /\ ~OnIt(c) /\ ~OnIt(c)'
            BY <2>1, <2>3, <2>6, <1>2, <4>4, <1>0 DEF CwTypeOK
          <5>2. ListInv(c)'
            BY <5>1, <4>1, <1>3 DEF ListInv
          <5>3. ReportInv(c)'
            BY <5>1, <4>1, <1>3 DEF ReportInv, StatusFits
          <5> QED BY <4>2, <5>2, <5>3
        <4> QED BY <4>3, <4>4
      <3> QED BY <3>1, <2>6 DEF KidInv
    <2>9. NodeInv'
      <3>1. Distinct(waitQueue)' /\ \A t \in Waiters : ~InSeq(t, waitQueue)'
        BY <2>1, EmptyProps
      <3>2. Distinct(worker.queue)' /\ \A t \in Waiters : Pending(t)' => InSeq(t, waitQueue)
        BY <2>3, <1>0 DEF NodeInv, Pending, InSeq
      <3>3. \A t \in Waiters : InSeq(t, waitQueue) => inUse[t] /\ cw[t].pc \in PendingPlaces
        BY <1>0 DEF NodeInv, PendingPlaces
      <3> QED BY <3>1, <3>2, <3>3, <2>3, <1>3 DEF NodeInv
    <2> QED BY <2>7, <2>8, <2>9 DEF CwInv
  <1>5. CASE k \notin children
    <2>1. how = "EOF"
      <3>1. ListInv(k)
        BY <1>0 DEF KidInv
      <3> QED BY <3>1, <1>2, <1>5 DEF ListInv
    <2>2. worker' = WorkerIdle /\ UNCHANGED <<children, zombies, status, waitQueue>>
      BY <1>2, <1>5, <2>1 DEF MarkChildExited
    <2>3. worker'.pc = "idle" /\ worker'.queue = <<>> /\ \A c \in Kids : ~OnIt(c)'
      BY <2>2 DEF WorkerIdle, OnIt
    <2>4. CwTypeOK'
      <3>1. worker' \in WorkerStates
        BY <2>2 DEF WorkerIdle, WorkerStates
      <3> QED BY <3>1, <2>2, <1>0, <1>3 DEF CwTypeOK
    <2>5. KidInv'
      <3>1. ASSUME NEW c \in Kids PROVE ConnInv(c)' /\ ListInv(c)' /\ ReportInv(c)'
        <4>1. ConnInv(c) /\ ListInv(c) /\ ReportInv(c) /\ (c # k => ~OnIt(c)) /\ ~OnIt(c)'
          BY <1>0, <1>2, <2>3 DEF KidInv
        <4>2. ConnInv(c)'
          BY <4>1, <1>3 DEF ConnInv
        <4>3. ListInv(c)'
          BY <4>1, <1>3, <1>5, <2>2 DEF ListInv
        <4>4. ReportInv(c)'
          BY <4>1, <1>3, <2>2 DEF ReportInv, StatusFits, InSeq
        <4> QED BY <4>2, <4>3, <4>4
      <3>2. Distinct(zombies)'
        BY <1>0, <2>2 DEF KidInv, Distinct
      <3> QED BY <3>1, <3>2 DEF KidInv
    <2>6. NodeInv'
      <3>1. (Distinct(waitQueue) /\ Distinct(worker.queue))'
        BY <1>0, <2>2, <2>3, EmptyProps DEF NodeInv
      <3>2. \A t \in Waiters : ~Pending(t)' /\ (InSeq(t, waitQueue)' <=> InSeq(t, waitQueue))
        BY <2>2, <2>3 DEF Pending
      <3> QED BY <3>1, <3>2, <2>3, <1>0, <1>3 DEF NodeInv
    <2> QED BY <2>4, <2>5, <2>6 DEF CwInv
  <1> QED BY <1>4, <1>5

(* The steps of the loop that wakes the threads of the queue. *)
LEMMA WakeLoopPreserves ==
    ASSUME CwInv, WorkerReleases \/ WorkerWakes \/ WorkerDone
    PROVE  CwInv'
  <1>0. CwTypeOK /\ KidInv /\ NodeInv
    BY DEF CwInv
  <1>1. /\ worker.pc \in {"wake", "signal"} /\ worker.queue \in Seq(Waiters)
        /\ Distinct(worker.queue) /\ worker.kid \in Kids /\ worker.how \in {"CHILDEXIT", "EOF"}
        /\ worker = [pc |-> worker.pc, kid |-> worker.kid, how |-> worker.how,
                     queue |-> worker.queue]
    BY <1>0, WorkerShape DEF CwTypeOK, NodeInv, WorkerReleases, WorkerWakes, WorkerDone
  <1>2. /\ UNCHANGED <<kid, conn, children, zombies, status, reported, waitQueue, cw, waits,
                       lockEvent>>
        /\ \A u \in Waiters : InSeq(u, waitQueue)' <=> InSeq(u, waitQueue)
        /\ Distinct(waitQueue)'
    <2>1. UNCHANGED <<kid, conn, children, zombies, status, reported, waitQueue, cw, waits,
                       lockEvent>>
      BY DEF WorkerReleases, WorkerWakes, WorkerDone, cwKidVars, cwListVars
    <2> QED BY <2>1, <1>0 DEF NodeInv
  <1>3. ASSUME worker'.pc \notin {"lock", "mark"} PROVE KidInv'
    BY <1>0, <1>1, <1>2, <1>3, KidStable DEF OnIt
  <1>q. ASSUME worker.queue # <<>>
        PROVE  /\ Head(worker.queue) \in Waiters /\ Head(worker.queue) = worker.queue[1]
               /\ Tail(worker.queue) \in Seq(Waiters) /\ Distinct(Tail(worker.queue))
               /\ \A y : InSeq(y, Tail(worker.queue))
                           <=> \E i \in DOMAIN worker.queue : worker.queue[i] = y /\ i # 1
               /\ 1 \in DOMAIN worker.queue
    BY <1>1, <1>q, TailProps
  <1>4. CASE WorkerReleases
    <2>1. PICK k \in Kids, how \in {"CHILDEXIT", "EOF"}, q \in Seq(Waiters) :
             worker = [pc |-> "wake", kid |-> k, how |-> how, queue |-> q] /\ q = worker.queue
      BY <1>1, <1>4 DEF WorkerReleases
    <2>2. /\ worker' = [pc |-> "signal", kid |-> k, how |-> how, queue |-> q]
          /\ inUse' = [inUse EXCEPT ![Head(q)] = FALSE] /\ q # <<>> /\ UNCHANGED cwEvent
      BY <1>4, <2>1 DEF WorkerReleases
    <2>3. /\ worker'.pc = "signal" /\ worker'.queue = q /\ worker' \in WorkerStates
          /\ worker.pc = "wake"
      BY <2>1, <2>2 DEF WorkerStates
    <2>4. /\ Head(q) \in Waiters /\ Head(q) = q[1] /\ Distinct(q) /\ 1 \in DOMAIN q
      BY <2>1, <2>2, <1>1, <1>q
    <2>5. CwTypeOK'
      BY <1>0, <1>2, <2>2, <2>3, <2>4 DEF CwTypeOK
    <2>6. NodeInv'
      <3>1. Distinct(worker.queue)'
        BY <2>3, <2>4
      <3>2. ASSUME NEW u \in Waiters
            PROVE  /\ Pending(u)' => Pending(u) /\ u # Head(q)
                   /\ InSeq(u, waitQueue) => u # Head(q)
        <4>1. Pending(u)' => Pending(u) /\ u # Head(q)
          BY <2>1, <2>3, <2>4 DEF Pending, Distinct
        <4>2. Pending(Head(q))
          BY <2>1, <2>3, <2>4 DEF Pending
        <4>3. InSeq(u, waitQueue) => ~Pending(u)
          BY <1>0 DEF NodeInv
        <4> QED BY <4>1, <4>2, <4>3
      <3>3. \A u \in Waiters : u # Head(q) => inUse'[u] = inUse[u]
        BY <2>2, <1>0 DEF CwTypeOK
      <3> QED BY <1>0, <1>2, <2>2, <2>3, <3>1, <3>2, <3>3 DEF NodeInv
    <2> QED BY <2>3, <2>5, <2>6, <1>3 DEF CwInv
  <1>5. CASE WorkerWakes
    <2>1. PICK k \in Kids, how \in {"CHILDEXIT", "EOF"}, q \in Seq(Waiters) :
             worker = [pc |-> "signal", kid |-> k, how |-> how, queue |-> q] /\ q = worker.queue
      BY <1>1, <1>5 DEF WorkerWakes
    <2>2. /\ worker' = [pc |-> "wake", kid |-> k, how |-> how, queue |-> Tail(q)]
          /\ cwEvent' = [cwEvent EXCEPT ![Head(q)] = TRUE] /\ UNCHANGED inUse
      BY <1>5, <2>1 DEF WorkerWakes
    <2>3. q # <<>> /\ worker.pc = "signal"
      BY <2>1, <1>0, <1>5 DEF NodeInv, WorkerWakes
    <2>4. /\ Head(q) \in Waiters /\ Tail(q) \in Seq(Waiters) /\ Distinct(Tail(q))
          /\ \A y : InSeq(y, Tail(q)) <=> \E i \in DOMAIN q : q[i] = y /\ i # 1
      BY <2>1, <2>3, <1>q
    <2>5. worker'.pc = "wake" /\ worker'.queue = Tail(q) /\ worker' \in WorkerStates
      BY <2>2, <2>4 DEF WorkerStates
    <2>6. CwTypeOK'
      BY <1>0, <1>2, <2>2, <2>4, <2>5 DEF CwTypeOK
    <2>7. NodeInv'
      <3>1. \A u \in Waiters : Pending(u)' => InSeq(u, Tail(q))
        BY <2>5 DEF Pending, InSeq
      <3>2. \A u \in Waiters : InSeq(u, Tail(q)) => Pending(u)
        BY <2>1, <2>3, <2>4 DEF Pending
      <3> QED BY <1>0, <1>2, <2>2, <2>4, <2>5, <3>1, <3>2 DEF NodeInv
    <2> QED BY <2>5, <2>6, <2>7, <1>3 DEF CwInv
  <1>6. CASE WorkerDone
    <2>1. /\ worker'.pc = "idle" /\ worker'.queue = <<>> /\ worker' \in WorkerStates
          /\ UNCHANGED <<inUse, cwEvent>>
      BY <1>6 DEF WorkerDone, WorkerIdle, WorkerStates
    <2>2. CwTypeOK'
      BY <1>0, <1>2, <2>1 DEF CwTypeOK
    <2>3. NodeInv'
      <3>1. Distinct(worker.queue)'
        BY <2>1, EmptyProps
      <3>2. \A u \in Waiters : ~Pending(u)'
        BY <2>1 DEF Pending
      <3> QED BY <1>0, <1>2, <2>1, <3>1, <3>2 DEF NodeInv
    <2> QED BY <2>1, <2>2, <2>3, <1>3 DEF CwInv
  <1> QED BY <1>4, <1>5, <1>6

-----------------------------------------------------------------------------
(* The threads in do_waitid                                                *)

(* A thread goes from one place to another and leaves the lists alone. *)
LEMMA MovePreserves ==
    ASSUME CwInv, NEW t \in Waiters, NEW from, NEW to \in CwPlaces, CwGoto(t, from, to),
           UNCHANGED <<kid, conn, children, zombies, status, reported, waitQueue, inUse, worker>>,
           lockEvent' \in BOOLEAN, cwEvent' \in [Waiters -> BOOLEAN], waits' \in [Waiters -> Nat],
           InSeq(t, waitQueue) => to \in QueuedPlaces,
           Pending(t) => to \in PendingPlaces
    PROVE  CwInv'
  <1>0. CwTypeOK /\ KidInv /\ NodeInv
    BY DEF CwInv
  <1>1. /\ cw' \in [Waiters -> [pc : CwPlaces, call : CwCalls \cup {CwIdle.call}]]
        /\ cw'[t].pc = to
        /\ \A u \in Waiters \ {t} : cw'[u].pc = cw[u].pc
    BY <1>0 DEF CwTypeOK, CwGoto
  <1>2. CwTypeOK'
    BY <1>0, <1>1 DEF CwTypeOK
  <1>3. KidInv'
    BY <1>0, KidStable DEF OnIt
  <1>4. NodeInv'
    BY <1>0, <1>1, NodeMove
  <1> QED BY <1>2, <1>3, <1>4 DEF CwInv

(* Where a thread is while its node is linked. *)
LEMMA WhereQueued ==
    ASSUME CwInv, NEW t \in Waiters
    PROVE  /\ InSeq(t, waitQueue) => inUse[t] /\ cw[t].pc \in QueuedPlaces /\ ~Pending(t)
           /\ Pending(t) => inUse[t] /\ cw[t].pc \in PendingPlaces
  BY DEF CwInv, NodeInv

(* The steps that only change the place, the event or the lock. *)
LEMMA PlacePreserves ==
    ASSUME CwInv, NEW t \in Waiters,
           \/ WaiterLocks(t) \/ WaiterPrepares(t) \/ WaiterChecks(t) \/ WaiterAwakes(t)
           \/ WaiterInterrupted(t) \/ WaiterLoops(t)
    PROVE  CwInv'
  <1>0. CwTypeOK /\ (InSeq(t, waitQueue) => inUse[t] /\ cw[t].pc \in QueuedPlaces /\ ~Pending(t))
        /\ (Pending(t) => inUse[t] /\ cw[t].pc \in PendingPlaces)
    BY WhereQueued DEF CwInv
  <1>1. /\ UNCHANGED <<kid, conn, children, zombies, status, reported, waitQueue, inUse, worker>>
        /\ lockEvent' \in BOOLEAN /\ cwEvent' \in [Waiters -> BOOLEAN]
        /\ waits' \in [Waiters -> Nat]
    <2>1. UNCHANGED <<kid, conn, children, zombies, status, reported, waitQueue, inUse, worker>>
      BY DEF WaiterLocks, WaiterPrepares, WaiterChecks, WaiterAwakes, WaiterInterrupted,
             WaiterLoops, cwKidVars, cwListVars
    <2>2. lockEvent' \in BOOLEAN
      BY <1>0 DEF WaiterLocks, WaiterPrepares, WaiterChecks, WaiterAwakes, WaiterInterrupted,
             WaiterLoops, CwTypeOK
    <2>3. cwEvent' \in [Waiters -> BOOLEAN]
      BY <1>0 DEF WaiterLocks, WaiterPrepares, WaiterChecks, WaiterAwakes, WaiterInterrupted,
             WaiterLoops, CwTypeOK
    <2>4. waits' \in [Waiters -> Nat]
      <3>1. UNCHANGED waits \/ waits' = [waits EXCEPT ![t] = @ + 1]
        BY DEF WaiterLocks, WaiterPrepares, WaiterChecks, WaiterAwakes, WaiterInterrupted,
               WaiterLoops
      <3>2. waits \in [Waiters -> Nat]
        BY <1>0 DEF CwTypeOK
      <3> QED BY <3>1, <3>2
    <2> QED BY <2>1, <2>2, <2>3, <2>4
  <1>2. PICK from, to \in CwPlaces :
          /\ CwGoto(t, from, to)
          /\ InSeq(t, waitQueue) => to \in QueuedPlaces
          /\ Pending(t) => to \in PendingPlaces
    <2>1. CASE WaiterLocks(t)
      BY <2>1, <1>0 DEF WaiterLocks, CwGoto, CwPlaces, QueuedPlaces, PendingPlaces
    <2>2. CASE WaiterPrepares(t)
      BY <2>2, <1>0 DEF WaiterPrepares, CwGoto, CwPlaces, QueuedPlaces, PendingPlaces
    <2>3. CASE WaiterChecks(t)
      <3>1. CASE CwGoto(t, "check", IF inUse[t] THEN "asleep" ELSE "out")
        BY <3>1, <1>0 DEF CwGoto, CwPlaces, QueuedPlaces, PendingPlaces
      <3>2. CASE CwGoto(t, "check_again", IF inUse[t] THEN "drowsing" ELSE "leave")
        BY <3>2, <1>0 DEF CwGoto, CwPlaces, QueuedPlaces, PendingPlaces
      <3> QED BY <2>3, <3>1, <3>2 DEF WaiterChecks
    <2>4. CASE WaiterAwakes(t)
      BY <2>4, <1>0 DEF WaiterAwakes, CwGoto, CwPlaces, QueuedPlaces, PendingPlaces
    <2>5. CASE WaiterInterrupted(t)
      BY <2>5, <1>0 DEF WaiterInterrupted, CwGoto, CwPlaces, QueuedPlaces, PendingPlaces
    <2>6. CASE WaiterLoops(t)
      BY <2>6, <1>0 DEF WaiterLoops, CwGoto, CwPlaces, QueuedPlaces, PendingPlaces
    <2> QED BY <2>1, <2>2, <2>3, <2>4, <2>5, <2>6
  <1> QED BY <1>1, <1>2, MovePreserves

(* The start and the end of a call. *)
LEMMA CallPreserves ==
    ASSUME CwInv, NEW t \in Waiters, WaitidCalls(t) \/ WaiterOut(t)
    PROVE  CwInv'
  <1>0. CwTypeOK /\ KidInv /\ NodeInv
    BY DEF CwInv
  <1>1. /\ UNCHANGED <<kid, conn, children, zombies, status, reported, waitQueue, inUse, worker,
                       cwEvent>>
        /\ lockEvent' \in BOOLEAN /\ waits' \in [Waiters -> Nat]
    <2>1. UNCHANGED <<kid, conn, children, zombies, status, reported, waitQueue, inUse, worker,
                      cwEvent>>
      BY DEF WaitidCalls, WaiterOut, cwKidVars, cwListVars
    <2>2. lockEvent' \in BOOLEAN
      BY <1>0 DEF WaitidCalls, WaiterOut, CwTypeOK
    <2>3. UNCHANGED waits \/ waits' = [waits EXCEPT ![t] = @ + 1]
      BY DEF WaitidCalls, WaiterOut
    <2>4. waits \in [Waiters -> Nat]
      BY <1>0 DEF CwTypeOK
    <2> QED BY <2>1, <2>2, <2>3, <2>4
  <1>2. /\ cw' \in [Waiters -> [pc : CwPlaces, call : CwCalls \cup {CwIdle.call}]]
        /\ \A u \in Waiters \ {t} : cw'[u].pc = cw[u].pc
        /\ ~InSeq(t, waitQueue) /\ ~Pending(t)
    <2>1. cw[t].pc \in {"idle", "out"}
      BY DEF WaitidCalls, WaiterOut
    <2>2. ~InSeq(t, waitQueue) /\ ~Pending(t)
      BY <2>1, WhereQueued DEF QueuedPlaces, PendingPlaces
    <2>3. PICK c \in [pc : CwPlaces, call : CwCalls \cup {CwIdle.call}] :
             cw' = [cw EXCEPT ![t] = c]
      <3>1. CASE WaitidCalls(t)
        BY <3>1 DEF WaitidCalls, CwPlaces
      <3>2. CASE WaiterOut(t)
        <4>1. CwIdle \in [pc : CwPlaces, call : CwCalls \cup {CwIdle.call}]
          BY DEF CwIdle, CwPlaces
        <4> QED BY <3>2, <4>1 DEF WaiterOut
      <3> QED BY <3>1, <3>2
    <2> QED BY <2>2, <2>3, <1>0 DEF CwTypeOK
  <1>3. CwTypeOK'
    BY <1>0, <1>1, <1>2 DEF CwTypeOK
  <1>4. KidInv'
    BY <1>0, <1>1, KidStable DEF OnIt
  <1>5. NodeInv'
    BY <1>0, <1>1, <1>2, NodeMove
  <1> QED BY <1>3, <1>4, <1>5 DEF CwInv

(* A search that ends the call with a report. *)
LEMMA ReportPreserves ==
    ASSUME CwInv, NEW t \in Waiters, NEW i \in DOMAIN zombies, cw[t].pc = "search",
           zombies' = RemoveAt(zombies, i),
           reported' = [reported EXCEPT ![zombies[i]] = Append(@, status[zombies[i]])],
           cw' = [cw EXCEPT ![t] = CwIdle], lockEvent' = TRUE,
           UNCHANGED <<kid, conn, children, status, waitQueue, inUse, cwEvent, worker, waits>>
    PROVE  CwInv'
  <1>0. CwTypeOK /\ KidInv /\ NodeInv
    BY DEF CwInv
  <1> DEFINE k == zombies[i]
  <1>1. zombies \in Seq(Kids) /\ Distinct(zombies) /\ k \in Kids
    BY <1>0 DEF CwTypeOK, KidInv
  <1>2. InSeq(k, zombies) /\ ReportInv(k)
    BY <1>0, <1>1 DEF InSeq, KidInv
  <1>3. /\ zombies' \in Seq(Kids) /\ Distinct(zombies') /\ ~InSeq(k, zombies')
        /\ \A c : InSeq(c, zombies') => InSeq(c, zombies)
    BY <1>1, RemoveDistinct
  <1> HIDE DEF k
  <1>4. /\ reported[k] = <<>> /\ StatusFits(k, status[k]) /\ k \notin children
        /\ kid[k] # "unborn" /\ status[k] \in {"EXIT", "SIGPWR"}
    BY <1>2 DEF ReportInv, StatusFits
  <1>5. /\ reported'[k] = <<status[k]>> /\ \A c \in Kids \ {k} : reported'[c] = reported[c]
        /\ reported' \in [Kids -> Seq({"EXIT", "SIGPWR"})]
    <2>1. reported \in [Kids -> Seq({"EXIT", "SIGPWR"})]
      BY <1>0 DEF CwTypeOK
    <2>2. reported' = [reported EXCEPT ![k] = Append(reported[k], status[k])]
      BY DEF k
    <2>3. Append(reported[k], status[k]) = <<status[k]>>
      BY <1>4
    <2>4. <<status[k]>> \in Seq({"EXIT", "SIGPWR"})
      BY <1>4
    <2>5. reported' = [reported EXCEPT ![k] = <<status[k]>>]
      BY <2>2, <2>3
    <2> QED BY <1>1, <2>1, <2>4, <2>5
  <1>6. /\ cw' \in [Waiters -> [pc : CwPlaces, call : CwCalls \cup {CwIdle.call}]]
        /\ \A u \in Waiters \ {t} : cw'[u].pc = cw[u].pc
        /\ ~InSeq(t, waitQueue) /\ ~Pending(t)
    <2>1. CwIdle \in [pc : CwPlaces, call : CwCalls \cup {CwIdle.call}]
      BY DEF CwIdle, CwPlaces
    <2>2. ~InSeq(t, waitQueue) /\ ~Pending(t)
      BY WhereQueued DEF QueuedPlaces, PendingPlaces
    <2> QED BY <2>1, <2>2, <1>0 DEF CwTypeOK
  <1>7. CwTypeOK'
    BY <1>0, <1>3, <1>5, <1>6 DEF CwTypeOK
  <1>8. KidInv'
    <2>1. ASSUME NEW c \in Kids PROVE ConnInv(c)' /\ ListInv(c)' /\ ReportInv(c)'
      <3>1. ConnInv(c) /\ ListInv(c) /\ ReportInv(c) /\ (OnIt(c)' <=> OnIt(c))
        BY <1>0 DEF KidInv, OnIt
      <3>2. ConnInv(c)'
        BY <3>1 DEF ConnInv
      <3>3. ListInv(c)'
        BY <3>1 DEF ListInv
      <3>4. CASE c = k
        <4>1. Len(reported'[c]) = 1 /\ reported'[c][1] = status[c] /\ reported'[c] # <<>>
          BY <1>5, <3>4
        <4>2. /\ StatusFits(c, status[c]) /\ c \notin children /\ kid[c] # "unborn"
              /\ ~InSeq(c, zombies')
          BY <1>3, <1>4, <3>4
        <4>3. StatusFits(c, reported[c][1])'
          BY <4>1, <4>2 DEF StatusFits
        <4>4. ReportInv(c)'
          BY <4>1, <4>2, <4>3 DEF ReportInv
        <4> QED BY <4>4, <3>2, <3>3
      <3>5. CASE c # k
        <4>1. reported'[c] = reported[c] /\ (InSeq(c, zombies') => InSeq(c, zombies))
          BY <3>5, <1>3, <1>5
        <4>2. ReportInv(c)'
          BY <4>1, <3>1 DEF ReportInv, StatusFits
        <4> QED BY <4>2, <3>2, <3>3
      <3> QED BY <3>4, <3>5
    <2> QED BY <2>1, <1>3 DEF KidInv
  <1>9. NodeInv'
    BY <1>0, <1>6, NodeMove
  <1> QED BY <1>7, <1>8, <1>9 DEF CwInv

(* do_waitid under children_lock. *)
LEMMA SearchPreserves ==
    ASSUME CwInv, NEW t \in Waiters, WaiterSearches(t)
    PROVE  CwInv'
  <1>0. CwTypeOK /\ KidInv /\ NodeInv
    BY DEF CwInv
  <1> DEFINE call == cw[t].call
             dead == {i \in DOMAIN zombies : zombies[i] \in call.who}
  <1>1. ~InSeq(t, waitQueue) /\ ~Pending(t)
    BY WhereQueued DEF QueuedPlaces, PendingPlaces, WaiterSearches
  <1>2. CASE dead # {} /\ ~call.nowait
    <2>1. PICK i \in DOMAIN zombies :
             /\ zombies' = RemoveAt(zombies, i)
             /\ reported' = [reported EXCEPT ![zombies[i]] = Append(@, status[zombies[i]])]
             /\ cw' = [cw EXCEPT ![t] = CwIdle] /\ UNCHANGED <<waitQueue, inUse>>
      BY <1>2 DEF WaiterSearches
    <2> QED BY <2>1, ReportPreserves DEF WaiterSearches, cwKidVars
  <1>3. CASE /\ UNCHANGED <<zombies, reported, waitQueue, inUse>>
             /\ cw' = [cw EXCEPT ![t] = CwIdle]
    <2>1. /\ UNCHANGED <<kid, conn, children, status, cwEvent, worker, waits>>
          /\ lockEvent' = TRUE
      BY DEF WaiterSearches, cwKidVars
    <2>2. /\ cw' \in [Waiters -> [pc : CwPlaces, call : CwCalls \cup {CwIdle.call}]]
          /\ \A u \in Waiters \ {t} : cw'[u].pc = cw[u].pc
      <3>1. CwIdle \in [pc : CwPlaces, call : CwCalls \cup {CwIdle.call}]
        BY DEF CwIdle, CwPlaces
      <3> QED BY <3>1, <1>0, <1>3 DEF CwTypeOK
    <2>3. CwTypeOK'
      BY <1>0, <1>3, <2>1, <2>2 DEF CwTypeOK
    <2>4. KidInv'
      BY <1>0, <1>3, <2>1, KidStable DEF OnIt
    <2>5. NodeInv'
      BY <1>0, <1>1, <1>3, <2>1, <2>2, NodeMove
    <2> QED BY <2>3, <2>4, <2>5 DEF CwInv
  <1>4. CASE /\ UNCHANGED <<zombies, reported>>
             /\ waitQueue' = <<t>> \o waitQueue
             /\ inUse' = [inUse EXCEPT ![t] = TRUE]
             /\ cw' = [cw EXCEPT ![t].pc = "prepare"]
    <2>1. /\ UNCHANGED <<kid, conn, children, status, cwEvent, worker, waits>>
          /\ lockEvent' = TRUE
      BY DEF WaiterSearches, cwKidVars
    <2>2. /\ cw' \in [Waiters -> [pc : CwPlaces, call : CwCalls \cup {CwIdle.call}]]
          /\ \A u \in Waiters \ {t} : cw'[u].pc = cw[u].pc
          /\ cw'[t].pc = "prepare"
      BY <1>0, <1>4 DEF CwTypeOK, CwPlaces
    <2>3. /\ waitQueue' \in Seq(Waiters) /\ Distinct(waitQueue')
          /\ \A y : InSeq(y, waitQueue') <=> y = t \/ InSeq(y, waitQueue)
      <3>1. waitQueue \in Seq(Waiters) /\ Distinct(waitQueue)
        BY <1>0 DEF CwTypeOK, NodeInv
      <3> QED BY <3>1, <1>1, <1>4, ConsProps
    <2>4. /\ inUse' \in [Waiters -> BOOLEAN] /\ inUse'[t]
          /\ \A u \in Waiters \ {t} : inUse'[u] = inUse[u]
      BY <1>0, <1>4 DEF CwTypeOK
    <2>5. CwTypeOK'
      BY <1>0, <1>4, <2>1, <2>2, <2>3, <2>4 DEF CwTypeOK
    <2>6. KidInv'
      BY <1>0, <1>4, <2>1, KidStable DEF OnIt
    <2>7. NodeInv'
      <3>1. \A u \in Waiters : Pending(u)' <=> Pending(u)
        BY <2>1 DEF Pending
      <3>2. Distinct(worker.queue)' /\ (worker.pc = "signal" => worker.queue # <<>>)'
        BY <1>0, <2>1 DEF NodeInv
      <3>3. ASSUME NEW u \in Waiters
            PROVE  /\ (InSeq(u, waitQueue) => inUse[u] /\ cw[u].pc \in QueuedPlaces /\ ~Pending(u))'
                   /\ (Pending(u) => inUse[u] /\ cw[u].pc \in PendingPlaces)'
        <4>1. /\ InSeq(u, waitQueue) => inUse[u] /\ cw[u].pc \in QueuedPlaces /\ ~Pending(u)
              /\ Pending(u) => inUse[u] /\ cw[u].pc \in PendingPlaces
          BY <1>0 DEF NodeInv
        <4>2. CASE u = t
          BY <4>2, <1>1, <2>2, <2>4, <3>1 DEF QueuedPlaces
        <4>3. CASE u # t
          BY <4>1, <4>3, <2>2, <2>3, <2>4, <3>1 DEF QueuedPlaces, PendingPlaces
        <4> QED BY <4>2, <4>3
      <3> QED BY <2>3, <3>2, <3>3 DEF NodeInv
    <2> QED BY <2>5, <2>6, <2>7 DEF CwInv
  <1>5. \/ dead # {} /\ ~call.nowait
        \/ /\ UNCHANGED <<zombies, reported, waitQueue, inUse>>
           /\ cw' = [cw EXCEPT ![t] = CwIdle]
        \/ /\ UNCHANGED <<zombies, reported>>
           /\ waitQueue' = <<t>> \o waitQueue
           /\ inUse' = [inUse EXCEPT ![t] = TRUE]
           /\ cw' = [cw EXCEPT ![t].pc = "prepare"]
    BY DEF WaiterSearches
  <1> QED BY <1>2, <1>3, <1>4, <1>5

(* remove_qnode_from_wait_queue under children_lock. *)
LEMMA UnqueuePreserves ==
    ASSUME CwInv, NEW t \in Waiters, WaiterUnqueues(t)
    PROVE  CwInv'
  <1>0. CwTypeOK /\ KidInv /\ NodeInv
    BY DEF CwInv
  <1>1. /\ UNCHANGED <<kid, conn, children, zombies, status, reported, inUse, cwEvent, worker,
                       waits>>
        /\ lockEvent' = TRUE /\ cw[t].pc = "unqueue"
    BY DEF WaiterUnqueues, cwKidVars, cwListVars, CwGoto
  <1>2. CASE /\ UNCHANGED waitQueue /\ t \notin Range(waitQueue)
             /\ CwGoto(t, "unqueue", "prepare_again")
    <2>1. ~InSeq(t, waitQueue)
      BY <1>2 DEF Range, InSeq
    <2>2. cwEvent' \in [Waiters -> BOOLEAN] /\ waits' \in [Waiters -> Nat] /\ lockEvent' \in BOOLEAN
      BY <1>0, <1>1 DEF CwTypeOK
    <2>3. "prepare_again" \in CwPlaces /\ "prepare_again" \in PendingPlaces
      BY DEF CwPlaces, PendingPlaces
    <2> QED BY <1>1, <1>2, <2>1, <2>2, <2>3, MovePreserves
  <1>3. ASSUME NEW i \in DOMAIN waitQueue, waitQueue[i] = t, waitQueue' = RemoveAt(waitQueue, i),
               CwGoto(t, "unqueue", "leave")
        PROVE  CwInv'
    <2>1. waitQueue \in Seq(Waiters) /\ Distinct(waitQueue) /\ InSeq(t, waitQueue)
      BY <1>0, <1>3 DEF CwTypeOK, NodeInv, InSeq
    <2>2. /\ waitQueue' \in Seq(Waiters) /\ Distinct(waitQueue') /\ ~InSeq(t, waitQueue')
          /\ \A u : InSeq(u, waitQueue') => InSeq(u, waitQueue)
      BY <1>3, <2>1, RemoveDistinct
    <2>3. /\ cw' \in [Waiters -> [pc : CwPlaces, call : CwCalls \cup {CwIdle.call}]]
          /\ \A u \in Waiters \ {t} : cw'[u].pc = cw[u].pc
      <3>1. "leave" \in CwPlaces
        BY DEF CwPlaces
      <3>2. cw' = [cw EXCEPT ![t].pc = "leave"]
        BY <1>3 DEF CwGoto
      <3> QED BY <1>0, <3>1, <3>2 DEF CwTypeOK
    <2>4. CwTypeOK'
      BY <1>0, <1>1, <2>2, <2>3 DEF CwTypeOK
    <2>5. KidInv'
      BY <1>0, <1>1, KidStable DEF OnIt
    <2>6. NodeInv'
      <3>1. \A u \in Waiters : Pending(u)' <=> Pending(u)
        BY <1>1 DEF Pending
      <3>2. Distinct(worker.queue)' /\ (worker.pc = "signal" => worker.queue # <<>>)'
        BY <1>0, <1>1 DEF NodeInv
      <3>3. ASSUME NEW u \in Waiters
            PROVE  /\ (InSeq(u, waitQueue) => inUse[u] /\ cw[u].pc \in QueuedPlaces /\ ~Pending(u))'
                   /\ (Pending(u) => inUse[u] /\ cw[u].pc \in PendingPlaces)'
        <4>1. /\ InSeq(u, waitQueue) => inUse[u] /\ cw[u].pc \in QueuedPlaces /\ ~Pending(u)
              /\ Pending(u) => inUse[u] /\ cw[u].pc \in PendingPlaces
          BY <1>0 DEF NodeInv
        <4>2. CASE u = t
          BY <4>1, <4>2, <2>1, <2>2, <3>1
        <4>3. CASE u # t
          BY <4>1, <4>3, <1>1, <2>2, <2>3, <3>1 DEF QueuedPlaces, PendingPlaces
        <4> QED BY <4>2, <4>3
      <3> QED BY <2>2, <3>2, <3>3 DEF NodeInv
    <2> QED BY <2>4, <2>5, <2>6 DEF CwInv
  <1> QED BY <1>2, <1>3 DEF WaiterUnqueues

-----------------------------------------------------------------------------
(* The theorems                                                            *)

(* The invariant holds initially. *)
LEMMA CwInvInit == CwInit => CwInv
  <1> SUFFICES ASSUME CwInit PROVE CwInv
    OBVIOUS
  <1> USE DEF CwInit
  <1>1. worker.pc = "idle" /\ worker.queue = <<>> /\ worker \in WorkerStates
    BY DEF WorkerIdle, WorkerStates
  <1>2. CwTypeOK
    <2>1. CwIdle \in [pc : CwPlaces, call : CwCalls \cup {CwIdle.call}]
      BY DEF CwIdle, CwPlaces
    <2>2. cw \in [Waiters -> [pc : CwPlaces, call : CwCalls \cup {CwIdle.call}]]
      BY <2>1
    <2>3. zombies \in Seq(Kids) /\ waitQueue \in Seq(Waiters)
          /\ reported \in [Kids -> Seq({"EXIT", "SIGPWR"})]
      OBVIOUS
    <2>4. conn \in [Kids -> {<<>>, <<"CHILDEXIT", "EOF">>, <<"EOF">>, <<"closed">>}]
      OBVIOUS
    <2> QED BY <1>1, <2>2, <2>3, <2>4 DEF CwTypeOK
  <1>3. KidInv
    <2>1. ASSUME NEW k \in Kids PROVE ConnInv(k) /\ ListInv(k) /\ ReportInv(k)
      <3>1. kid[k] = "unborn" /\ conn[k] = <<>> /\ reported[k] = <<>> /\ ~OnIt(k)
        BY <1>1 DEF OnIt
      <3>2. ~InSeq(k, zombies)
        BY EmptyProps
      <3> QED BY <3>1, <3>2 DEF ConnInv, ListInv, ReportInv
    <2> QED BY <2>1, EmptyProps DEF KidInv
  <1>4. NodeInv
    BY <1>1, EmptyProps DEF NodeInv, Pending
  <1> QED BY <1>2, <1>3, <1>4 DEF CwInv

(* Every step preserves it. *)
LEMMA CwInvNext == CwInv /\ [CwNext]_cwVars => CwInv'
  <1> SUFFICES ASSUME CwInv, [CwNext]_cwVars PROVE CwInv'
    OBVIOUS
  <1>1. CASE CwNext
    <2>1. ASSUME NEW k \in Kids, AddChildProcess(k) \/ KidExits(k) \/ KidKilled(k)
                                 \/ WorkerReadFails(k) \/ WorkerReads(k)
          PROVE  CwInv'
      BY <2>1, AddPreserves, EndPreserves, ReadPreserves
    <2>2. ASSUME NEW t \in Waiters,
                 WaitidCalls(t) \/ CwWaiterSteps(t) \/ WaiterInterrupted(t)
          PROVE  CwInv'
      BY <2>2, CallPreserves, PlacePreserves, SearchPreserves, UnqueuePreserves
         DEF CwWaiterSteps
    <2>3. ASSUME WorkerLocks \/ MarkChildExited \/ WorkerReleases \/ WorkerWakes \/ WorkerDone
          PROVE  CwInv'
      BY <2>3, WorkerLocksPreserves, MarkPreserves, WakeLoopPreserves
    <2> QED BY <1>1, <2>1, <2>2, <2>3 DEF CwNext, CwWorkerSteps
  <1>2. CASE UNCHANGED cwVars
    <2>1. UNCHANGED <<kid, conn, children, zombies, status, lockEvent, waitQueue, inUse, cwEvent,
                      cw, worker, waits, reported>>
      BY <1>2 DEF cwVars
    <2>2. CwTypeOK'
      BY <2>1 DEF CwInv, CwTypeOK
    <2>3. KidInv'
      BY <2>1, KidStable DEF CwInv, OnIt
    <2>4. NodeInv'
      BY <2>1, NodeStable DEF CwInv
    <2> QED BY <2>2, <2>3, <2>4 DEF CwInv
  <1> QED BY <1>1, <1>2

(* The variables keep their types; mark_child_exited finds every child     *)
(* whose exit message the worker has read.                                 *)
THEOREM CwTypeCorrect == CwSpec => []CwTypeOK
  <1>1. CwInv => CwTypeOK
    BY DEF CwInv
  <1> QED BY <1>1, CwInvInit, CwInvNext, PTL DEF CwSpec

(* Whatever the order of exit message, disconnect and failed read,         *)
(* do_waitid removes a child once, with a status that fits its end, and    *)
(* the worker never fails for a child it does not know.                    *)
THEOREM ReportedOnceHolds == CwSpec => []CwReportedOnce
  <1>1. ASSUME CwInv PROVE CwReportedOnce
    <2>1. worker.pc # "fatal"
      BY <1>1, WorkerShape DEF CwInv, CwTypeOK
    <2>2. ASSUME NEW k \in Kids
          PROVE  /\ Len(reported[k]) <= 1
                 /\ "EXIT" \in Range(reported[k]) => kid[k] = "exited"
                 /\ "SIGPWR" \in Range(reported[k]) => kid[k] = "killed" \/ k \in Unreadable
      <3>1. reported[k] \in Seq({"EXIT", "SIGPWR"}) /\ ReportInv(k)
        BY <1>1 DEF CwInv, CwTypeOK, KidInv
      <3>2. CASE reported[k] = <<>>
        BY <3>2 DEF Range
      <3>3. CASE reported[k] # <<>>
        <4>1. Len(reported[k]) = 1 /\ StatusFits(k, reported[k][1])
          BY <3>1, <3>3 DEF ReportInv
        <4>2. Range(reported[k]) = {reported[k][1]}
          BY <3>1, <4>1 DEF Range
        <4> QED BY <4>1, <4>2 DEF StatusFits
      <3> QED BY <3>2, <3>3
    <2> QED BY <2>1, <2>2 DEF CwReportedOnce
  <1> QED BY <1>1, CwInvInit, CwInvNext, PTL DEF CwSpec

(* The nodes in g_process.wait_queue, and those the worker has yet to      *)
(* visit, belong to threads that have not left do_waitid.                  *)
THEOREM NodesAliveHolds == CwSpec => []CwNodesAlive
  <1>1. ASSUME CwInv PROVE CwNodesAlive
    <2>0. CwTypeOK /\ NodeInv /\ worker.queue \in Seq(Waiters) /\ waitQueue \in Seq(Waiters)
      BY <1>1, WorkerShape DEF CwInv, CwTypeOK
    <2> DEFINE visited == IF worker.pc = "signal" THEN {} ELSE Range(worker.queue)
               behind == IF worker.queue = <<>> THEN {} ELSE Range(Tail(worker.queue))
    <2>1. ASSUME NEW t, t \in visited \/ t \in behind PROVE t \in Waiters /\ Pending(t)
      <3>1. CASE t \in visited
        <4>1. PICK i \in DOMAIN worker.queue : worker.queue[i] = t /\ worker.pc # "signal"
          BY <3>1 DEF Range
        <4> QED BY <4>1, <2>0 DEF Pending
      <3>2. CASE t \in behind
        <4>1. worker.queue # <<>> /\ InSeq(t, Tail(worker.queue))
          BY <3>2 DEF Range, InSeq
        <4>2. PICK i \in DOMAIN worker.queue : worker.queue[i] = t /\ i # 1
          BY <4>1, <2>0, TailProps
        <4> QED BY <4>2, <2>0 DEF Pending
      <3> QED BY <2>1, <3>1, <3>2
    <2>2. ASSUME NEW t \in Range(waitQueue) PROVE t \in Waiters /\ InSeq(t, waitQueue)
      BY <2>0, <2>2 DEF Range, InSeq
    <2>3. ASSUME NEW t \in visited \cup behind \cup Range(waitQueue)
          PROVE  inUse[t] /\ cw[t].pc \in PendingPlaces
      BY <2>0, <2>1, <2>2 DEF NodeInv, PendingPlaces
    <2>4. \A p \in PendingPlaces : p \notin {"idle", "lock", "search", "leave", "out"}
      BY DEF PendingPlaces, QueuedPlaces
    <2> QED BY <2>3, <2>4 DEF CwNodesAlive
  <1> QED BY <1>1, CwInvInit, CwInvNext, PTL DEF CwSpec

-----------------------------------------------------------------------------
(* IpcRequests: the types and the invariant                               *)

IpcPcs == {"idle", "connect", "send", "wait", "check", "take"}

Waiter == [dest : Peers, data : Nat, set : BOOLEAN]

Outcome == [dest : Peers, ret : {"error", "fault", "ESRCH", "ok"}, resp : Nat, seq : Nat]
             \cup {NoOutcome}

TreeOK == waiters \in [DOMAIN waiters -> Waiter]

(* The variables have their types. *)
IpcTypeOK ==
    /\ peer \in [Peers -> {"up", "dead"}]
    /\ outgoing \in [Peers -> Nat]
    /\ seenError \subseteq Nat
    /\ incoming \subseteq Peers
    /\ arriving \in [Peers -> Seq(Nat)]
    /\ asked \in [Peers -> SUBSET Nat]
    /\ seqCounter \in Nat \ {0}
    /\ TreeOK
    /\ ipcPc \in [Callers -> IpcPcs]
    /\ ipcSeq \in [Callers -> Nat]
    /\ ipcConn \in [Callers -> Nat]
    /\ dropped \in Peers \cup {NoPeer}
    /\ ipcFatal \in Nat
    /\ outcome \in [Callers -> Outcome]
    /\ broken \subseteq Peers
    /\ abandoned \subseteq Nat

(* Sequence numbers are those of the tree, one for each busy thread. *)
SeqInv ==
    /\ \A t \in Callers : ipcPc[t] = "idle" <=> ipcSeq[t] = 0
    /\ \A t \in Callers : ipcSeq[t] # 0 => ipcSeq[t] \in DOMAIN waiters
    /\ \A s \in DOMAIN waiters : s \in Nat /\ s # 0 /\ s < seqCounter
    /\ \A t, u \in Callers : ipcSeq[t] = ipcSeq[u] /\ ipcSeq[t] # 0 => t = u

(* Answers on the connection from d. *)
OnWire(d, s) == \E i \in 1 .. Len(arriving[d]) : arriving[d][i] = s

(* s is answered, or will be if d lives on. *)
Unanswered(d, s) == OnWire(d, s) \/ (peer[d] = "up" /\ s \in asked[d])

(* Thread t waits for the answer s of d. *)
Awaits(t, d, s) ==
    /\ ipcSeq[t] = s /\ ipcPc[t] = "wait"
    /\ s \in DOMAIN waiters /\ waiters[s].dest = d /\ waiters[s].set = FALSE

(* What is answered, or will be, has been sent. *)
SentInv == \A d \in Peers, s \in Nat : Unanswered(d, s) =>
    /\ s # 0 /\ s < seqCounter
    /\ \A t \in Callers : ipcSeq[t] = s => ipcPc[t] \notin {"connect", "send"}

PendingInv ==
    /\ \A d \in Peers, s \in Nat :
          Unanswered(d, s) => s \in abandoned \/ \E t \in Callers : Awaits(t, d, s)
    /\ \A d \in Peers : \A i, j \in 1 .. Len(arriving[d]) :
          arriving[d][i] = arriving[d][j] => i = j
    /\ \A d \in Peers : peer[d] = "up" =>
          \A i \in 1 .. Len(arriving[d]) : arriving[d][i] \notin asked[d]

(* d can have left a request without its answer. *)
Gone(d) == peer[d] = "dead" \/ d \in broken

(* Why an event is set, and what a waiter holds until then. *)
SetInv == \A t \in Callers : ipcSeq[t] # 0 =>
    /\ WaiterOf(t).set = TRUE => \/ WaiterOf(t).data = ipcSeq[t]
                                 \/ /\ WaiterOf(t).data = 0
                                    /\ Gone(WaiterOf(t).dest)
                                    /\ peer[WaiterOf(t).dest] = "dead" \/ ipcSeq[t] \in abandoned
    /\ WaiterOf(t).set = FALSE => WaiterOf(t).data = 0
    /\ ipcPc[t] \in {"connect", "send"} => WaiterOf(t).data = 0
    /\ ipcPc[t] \in {"check", "take"} => WaiterOf(t).set = TRUE

(* The worker cleans up after a failed connection, or after the last       *)
(* answer of the dead.                                                     *)
DropInv == dropped # NoPeer =>
    dropped \in broken \/ (peer[dropped] = "dead" /\ arriving[dropped] = <<>>)

IpcInv == /\ IpcTypeOK /\ SeqInv /\ SentInv /\ PendingInv /\ SetInv /\ DropInv
          /\ IpcNoStrayResponse /\ IpcFailureIsLocal

-----------------------------------------------------------------------------
(* No request has been made yet. *)
LEMMA IpcInitInv == IpcInit => IpcInv
  <1> SUFFICES ASSUME IpcInit PROVE IpcInv
    OBVIOUS
  <1> USE IpcAssumption DEF IpcInit
  <1>1. IpcTypeOK
    <2>1. TreeOK
      <3> HIDE DEF IpcInit
      <3>1. <<>> \in Seq(Waiter)
        BY EmptySeq
      <3>2. <<>> \in [DOMAIN <<>> -> Waiter]
        BY <3>1, LenProperties, Zenon
      <3> QED BY <3>2 DEF IpcInit, TreeOK
    <2>2. NoOutcome \in Outcome
      BY DEF Outcome
    <2>3. \A d \in Peers : arriving[d] \in Seq(Nat)
      OBVIOUS
    <2>4. /\ peer \in [Peers -> {"up", "dead"}] /\ outgoing \in [Peers -> Nat]
          /\ incoming \subseteq Peers /\ seenError \subseteq Nat
          /\ broken \subseteq Peers /\ abandoned \subseteq Nat
      OBVIOUS
    <2>7. asked \in [Peers -> SUBSET Nat] /\ seqCounter \in Nat \ {0}
      OBVIOUS
    <2>8. ipcPc \in [Callers -> IpcPcs] /\ ipcSeq \in [Callers -> Nat] /\ ipcConn \in [Callers -> Nat]
      BY DEF IpcPcs
    <2>9. dropped \in Peers \cup {NoPeer} /\ ipcFatal \in Nat
      OBVIOUS
    <2>5. arriving \in [Peers -> Seq(Nat)]
      BY <2>3
    <2>6. outcome \in [Callers -> Outcome]
      BY <2>2
    <2> QED BY <2>1, <2>4, <2>5, <2>6, <2>7, <2>8, <2>9 DEF IpcTypeOK
  <1>2. SeqInv /\ SetInv /\ DropInv
    BY DEF SeqInv, SetInv, DropInv
  <1>3. PendingInv /\ SentInv
    BY DEF PendingInv, SentInv, Unanswered, OnWire
  <1>4. IpcNoStrayResponse /\ IpcFailureIsLocal
    BY DEF IpcNoStrayResponse, IpcFailureIsLocal
  <1> QED BY <1>1, <1>2, <1>3, <1>4 DEF IpcInv

(* A thread goes on with its request: nothing pending is its own, unless   *)
(* it stays at its wait.                                                   *)
LEMMA GoOn ==
    ASSUME IpcInv, NEW t \in Callers, NEW from, NEW to,
           ipcSeq[t] # 0, IpcGoto(t, from, to),
           \/ from = "connect" /\ to = "send"
           \/ from \in {"wait", "check"} /\ to \in {"check", "take"} /\ WaiterOf(t).set = TRUE,
           outgoing' \in [Peers -> Nat], ipcConn' \in [Callers -> Nat],
           UNCHANGED <<peerVars, workerVars, seenError, seqCounter, waiters, ipcSeq, outcome,
                       abandoned>>
    PROVE  IpcInv'
  <1> USE DEF IpcInv, IpcGoto, peerVars, workerVars
  <1>0. \A d, s : /\ Unanswered(d, s)' => Unanswered(d, s)
                  /\ OnWire(d, s)' = OnWire(d, s)
    BY DEF Unanswered, OnWire
  <1>1. IpcTypeOK'
    BY DEF IpcTypeOK, IpcPcs, TreeOK
  <1>2. SeqInv'
    BY DEF SeqInv, IpcTypeOK, TreeOK
  <1>6. SentInv'
    <2>1. ASSUME NEW u \in Callers, ipcPc[u] \notin {"connect", "send"}
          PROVE  ipcPc'[u] \notin {"connect", "send"}
      BY <2>1 DEF IpcTypeOK
    <2> QED BY <1>0, <2>1 DEF SentInv
  <1>3. PendingInv'
    <2>1. ASSUME NEW d \in Peers, NEW s \in Nat, Unanswered(d, s)', s \notin abandoned
          PROVE  \E u \in Callers : Awaits(u, d, s)'
      <3>1. PICK u \in Callers : Awaits(u, d, s)
        BY <1>0, <2>1 DEF PendingInv
      <3>2. u # t
        BY <3>1 DEF Awaits, WaiterOf
      <3> QED BY <3>1, <3>2 DEF Awaits, IpcTypeOK, TreeOK
    <2> QED BY <2>1 DEF PendingInv
  <1>4. SetInv'
    BY DEF SetInv, Gone, WaiterOf, IpcTypeOK, TreeOK
  <1>5. DropInv' /\ IpcNoStrayResponse' /\ IpcFailureIsLocal'
    BY DEF DropInv, IpcNoStrayResponse, IpcFailureIsLocal
  <1> QED BY <1>1, <1>2, <1>3, <1>4, <1>5, <1>6

(* The waiter leaves the tree: its thread was not at its wait, or gives    *)
(* the request up.                                                         *)
LEMMA RequestEnds ==
    ASSUME IpcInv, NEW t \in Callers, NEW from, NEW ret, NEW resp,
           ipcSeq[t] # 0, EndRequest(t, from, ret, resp),
           from # "wait" \/ ipcSeq[t] \in abandoned',
           abandoned \subseteq abandoned', abandoned' \subseteq Nat, seenError' \subseteq Nat,
           ret \in {"error", "fault", "ESRCH", "ok"}, resp \in Nat,
           ret # "fault" /\ (ret # "ok" \/ resp # ipcSeq[t]) => Gone(WaiterOf(t).dest)
    PROVE  IpcInv'
  <1> USE DEF IpcInv, IpcGoto, peerVars, workerVars, EndRequest
  <1>a. ipcSeq[t] \in DOMAIN waiters /\ WaiterOf(t) \in Waiter
    BY DEF SeqInv, IpcTypeOK, TreeOK, WaiterOf
  <1>b. \A d, s : Unanswered(d, s)' => Unanswered(d, s)
    BY DEF Unanswered, OnWire
  <1>1. IpcTypeOK'
    <2>1. TreeOK'
      BY DEF IpcTypeOK, TreeOK
    <2>2. outcome' \in [Callers -> Outcome]
      BY <1>a DEF IpcTypeOK, TreeOK, Waiter, Outcome
    <2> QED BY <2>1, <2>2 DEF IpcTypeOK, IpcPcs
  <1>2. SeqInv'
    BY DEF SeqInv, IpcTypeOK, TreeOK
  <1>7. SentInv'
    <2>1. ASSUME NEW u \in Callers, NEW s \in Nat, s # 0, ipcSeq'[u] = s
          PROVE  ipcSeq[u] = s /\ ipcPc'[u] = ipcPc[u]
      BY <2>1 DEF IpcTypeOK
    <2> QED BY <1>b, <2>1 DEF SentInv
  <1>3. PendingInv'
    <2>1. ASSUME NEW d \in Peers, NEW s \in Nat, Unanswered(d, s)', s \notin abandoned'
          PROVE  \E u \in Callers : Awaits(u, d, s)'
      <3>1. PICK u \in Callers : Awaits(u, d, s)
        BY <1>b, <2>1 DEF PendingInv
      <3>2. u # t
        BY <2>1, <3>1 DEF Awaits, WaiterOf
      <3>3. s # ipcSeq[t]
        BY <3>1, <3>2 DEF SeqInv, Awaits
      <3> QED BY <3>1, <3>2, <3>3 DEF Awaits, IpcTypeOK, TreeOK
    <2> QED BY <2>1 DEF PendingInv
  <1>4. SetInv'
    <2>1. ASSUME NEW u \in Callers, ipcSeq'[u] # 0
          PROVE  u # t /\ ipcSeq[u] # ipcSeq[t] /\ ipcSeq[u] # 0 /\ ipcSeq'[u] = ipcSeq[u]
                 /\ WaiterOf(u)' = WaiterOf(u) /\ ipcPc'[u] = ipcPc[u]
      BY <2>1 DEF SeqInv, IpcTypeOK, TreeOK, WaiterOf
    <2> QED BY <2>1 DEF SetInv, Gone
  <1>5. DropInv' /\ IpcNoStrayResponse'
    BY DEF DropInv, IpcNoStrayResponse
  <1>6. IpcFailureIsLocal'
    <2>1. ASSUME NEW u \in Callers, u # t
          PROVE  outcome'[u] = outcome[u]
      BY <2>1 DEF IpcTypeOK, TreeOK
    <2>2. outcome'[t] = [dest |-> WaiterOf(t).dest, ret |-> ret, resp |-> resp, seq |-> ipcSeq[t]]
      BY DEF IpcTypeOK, TreeOK
    <2> QED BY <2>1, <2>2 DEF IpcFailureIsLocal, Gone
  <1> QED BY <1>1, <1>2, <1>3, <1>4, <1>5, <1>6, <1>7

(* A thread begins a request. *)
LEMMA BeginInv ==
    ASSUME IpcInv, NEW t \in Callers, BeginRequest(t)
    PROVE  IpcInv'
  <1> USE DEF IpcInv, IpcGoto, peerVars, workerVars
  <1>1. PICK d \in Peers :
          /\ IpcGoto(t, "idle", "connect")
          /\ ipcSeq' = [ipcSeq EXCEPT ![t] = seqCounter]
          /\ seqCounter' = seqCounter + 1
          /\ waiters' = [s \in DOMAIN waiters \cup {seqCounter} |->
                     IF s = seqCounter THEN [dest |-> d, data |-> 0, set |-> FALSE]
                     ELSE waiters[s]]
          /\ UNCHANGED <<peerVars, workerVars, outgoing, seenError, ipcConn, outcome, abandoned>>
    BY DEF BeginRequest
  <1>2. seqCounter \notin DOMAIN waiters /\ seqCounter \in Nat /\ seqCounter # 0
    BY DEF SeqInv, IpcTypeOK, TreeOK
  <1>3. /\ seqCounter \in DOMAIN waiters'
        /\ waiters'[seqCounter] = [dest |-> d, data |-> 0, set |-> FALSE]
        /\ \A s \in DOMAIN waiters : s \in DOMAIN waiters' /\ waiters'[s] = waiters[s]
    BY <1>1, <1>2
  <1>4. \A u \in Callers \ {t} : ipcSeq'[u] = ipcSeq[u] /\ ipcPc'[u] = ipcPc[u]
    BY <1>1 DEF IpcTypeOK, TreeOK
  <1>5. ipcSeq'[t] = seqCounter /\ ipcPc'[t] = "connect"
    BY <1>1 DEF IpcTypeOK, TreeOK
  <1>0. \A e, s : Unanswered(e, s)' => Unanswered(e, s)
    BY <1>1 DEF Unanswered, OnWire
  <1>6. IpcTypeOK'
    <2>1. TreeOK'
      BY <1>1 DEF IpcTypeOK, TreeOK, Waiter
    <2> QED BY <1>1, <2>1 DEF IpcTypeOK, IpcPcs
  <1>7. SeqInv'
    <2>1. \A u \in Callers : (ipcPc[u] = "idle" <=> ipcSeq[u] = 0)'
      BY <1>2, <1>4, <1>5 DEF SeqInv
    <2>2. \A u \in Callers : (ipcSeq[u] # 0 => ipcSeq[u] \in DOMAIN waiters)'
      BY <1>3, <1>4, <1>5 DEF SeqInv
    <2>3. \A s \in DOMAIN waiters' : s \in Nat /\ s # 0 /\ s < seqCounter'
      BY <1>1, <1>2 DEF SeqInv
    <2>4. \A v, u \in Callers : (ipcSeq[v] = ipcSeq[u] /\ ipcSeq[v] # 0 => v = u)'
      BY <1>2, <1>4, <1>5 DEF SeqInv
    <2> QED BY <2>1, <2>2, <2>3, <2>4 DEF SeqInv
  <1>11. SentInv'
    <2>1. ASSUME NEW e \in Peers, NEW s \in Nat, Unanswered(e, s)
          PROVE  /\ s # 0 /\ s < seqCounter /\ s < seqCounter + 1 /\ s # seqCounter
                 /\ \A u \in Callers : ipcSeq[u] = s => ipcPc[u] \notin {"connect", "send"}
      BY <1>2, <2>1 DEF SentInv
    <2> QED BY <1>0, <1>1, <1>4, <1>5, <2>1 DEF SentInv
  <1>8. PendingInv'
    <2>1. ASSUME NEW e \in Peers, NEW s \in Nat, Unanswered(e, s)', s \notin abandoned
          PROVE  \E u \in Callers : Awaits(u, e, s)'
      <3>1. PICK u \in Callers : Awaits(u, e, s)
        BY <1>0, <2>1 DEF PendingInv
      <3>2. u # t
        BY <1>1, <3>1 DEF Awaits
      <3> QED BY <1>3, <1>4, <3>1, <3>2 DEF Awaits
    <2> QED BY <1>1, <2>1 DEF PendingInv
  <1>9. SetInv'
    <2>1. ASSUME NEW u \in Callers, u # t, ipcSeq'[u] # 0
          PROVE  ipcSeq[u] # 0 /\ WaiterOf(u)' = WaiterOf(u)
      BY <1>3, <1>4, <2>1 DEF SeqInv, WaiterOf
    <2>2. WaiterOf(t)' = [dest |-> d, data |-> 0, set |-> FALSE]
      BY <1>3, <1>5 DEF WaiterOf
    <2> QED BY <1>1, <1>4, <1>5, <2>1, <2>2 DEF SetInv, Gone
  <1>10. DropInv' /\ IpcNoStrayResponse' /\ IpcFailureIsLocal'
    BY <1>1 DEF DropInv, IpcNoStrayResponse, IpcFailureIsLocal
  <1> QED BY <1>6, <1>7, <1>8, <1>9, <1>10, <1>11

(* A thread connects to the process it asks, or fails to. *)
LEMMA ConnectInv ==
    ASSUME IpcInv, NEW t \in Callers, ipcSeq[t] # 0, IpcConnect(t) \/ IpcConnectFails(t)
    PROVE  IpcInv'
  <1>1. WaiterOf(t) \in Waiter /\ ipcSeq[t] \in Nat
    BY DEF IpcInv, SeqInv, IpcTypeOK, TreeOK, WaiterOf
  <1>2. CASE IpcConnect(t)
    <2>1. outgoing' \in [Peers -> Nat] /\ ipcConn' \in [Callers -> Nat]
      BY <1>1, <1>2 DEF IpcConnect, IpcInv, IpcTypeOK, Waiter
    <2> QED BY <1>2, <2>1, GoOn DEF IpcConnect
  <1>3. CASE IpcConnectFails(t)
    <2>1. abandoned' = abandoned /\ abandoned \subseteq Nat /\ seenError' \subseteq Nat
      BY <1>3 DEF IpcConnectFails, IpcInv, IpcTypeOK
    <2> QED BY <1>3, <2>1, RequestEnds DEF IpcConnectFails, Gone
  <1> QED BY <1>2, <1>3

(* A thread sends its request, or fails to. *)
LEMMA SendInv ==
    ASSUME IpcInv, NEW t \in Callers, ipcSeq[t] # 0, SendRequest(t) \/ SendFails(t)
    PROVE  IpcInv'
  <1> DEFINE d == WaiterOf(t).dest
             n == ipcSeq[t]
  <1>1. /\ WaiterOf(t) \in Waiter /\ d \in Peers /\ n \in Nat /\ n \in DOMAIN waiters
        /\ n < seqCounter
    BY DEF IpcInv, SeqInv, IpcTypeOK, TreeOK, WaiterOf, Waiter
  <1>2. CASE SendFails(t)
    <2>1. abandoned' = abandoned /\ abandoned \subseteq Nat /\ seenError' \subseteq Nat
      BY <1>2 DEF SendFails, IpcInv, IpcTypeOK
    <2> QED BY <1>2, <2>1, RequestEnds DEF SendFails, Gone
  <1>3. CASE SendRequest(t)
    <2>0. /\ IpcGoto(t, "send", "wait")
          /\ peer[d] = "up"
          /\ asked' = [asked EXCEPT ![d] = @ \cup {n}]
          /\ UNCHANGED <<peer, incoming, arriving, broken, workerVars, outgoing, seenError,
                         seqCounter, waiters, ipcSeq, ipcConn, outcome, abandoned>>
      BY <1>3 DEF SendRequest
    <2> USE <2>0 DEF IpcInv, IpcGoto, workerVars
    <2>a. \A u \in Callers \ {t} : ipcPc'[u] = ipcPc[u]
      BY DEF IpcTypeOK, TreeOK
    <2>b. ipcPc'[t] = "wait" /\ ipcPc[t] = "send"
      BY DEF IpcTypeOK, TreeOK
    <2>c. WaiterOf(t).set = FALSE \/ n \in abandoned
      BY <1>1 DEF SetInv, Gone, Waiter
    <2>d. /\ \A e \in Peers : asked'[e] \subseteq asked[e] \cup {n}
          /\ \A e \in Peers \ {d} : asked'[e] = asked[e]
      BY <1>1 DEF IpcTypeOK, TreeOK
    <2>e. \A e \in Peers : ~OnWire(e, n)
      BY <1>1, <2>b DEF SentInv, Unanswered
    <2>f. \A e \in Peers, s \in Nat : Unanswered(e, s)' => Unanswered(e, s) \/ (e = d /\ s = n)
      BY <2>d DEF Unanswered, OnWire
    <2>1. IpcTypeOK'
      BY <1>1 DEF IpcTypeOK, IpcPcs, TreeOK
    <2>2. SeqInv'
      BY <2>a, <2>b DEF SeqInv
    <2>6. SentInv'
      <3>1. \A u \in Callers : ipcPc[u] \notin {"connect", "send"} => ipcPc'[u] \notin {"connect", "send"}
        BY <2>a, <2>b
      <3>2. \A u \in Callers : ipcSeq[u] = n => u = t
        BY DEF SeqInv
      <3> QED BY <1>1, <2>b, <2>f, <3>1, <3>2 DEF SentInv
    <2>3. PendingInv'
      <3>1. ASSUME NEW e \in Peers, NEW s \in Nat, Unanswered(e, s)', s \notin abandoned
            PROVE  \E u \in Callers : Awaits(u, e, s)'
        <4>1. CASE Unanswered(e, s)
          <5>1. PICK u \in Callers : Awaits(u, e, s)
            BY <3>1, <4>1 DEF PendingInv
          <5>2. u # t
            BY <5>1, <2>b DEF Awaits
          <5> QED BY <5>1, <5>2, <2>a DEF Awaits
        <4>2. CASE ~Unanswered(e, s)
          <5>1. e = d /\ s = n
            BY <3>1, <4>2, <2>f
          <5>2. Awaits(t, e, s)'
            BY <3>1, <5>1, <2>b, <2>c, <1>1 DEF Awaits, WaiterOf
          <5> QED BY <5>1, <5>2
        <4> QED BY <4>1, <4>2
      <3>2. \A e \in Peers : peer'[e] = "up" =>
               \A i \in 1 .. Len(arriving'[e]) : arriving'[e][i] \notin asked'[e]
        BY <2>d, <2>e DEF PendingInv, OnWire
      <3> QED BY <3>1, <3>2 DEF PendingInv
    <2>4. SetInv'
      BY <2>a, <2>b DEF SetInv, Gone, WaiterOf
    <2>5. DropInv' /\ IpcNoStrayResponse' /\ IpcFailureIsLocal'
      BY DEF DropInv, IpcNoStrayResponse, IpcFailureIsLocal
    <2> QED BY <2>1, <2>2, <2>3, <2>4, <2>5, <2>6
  <1> QED BY <1>2, <1>3

(* A thread is woken, looks at its answer and takes it, or its wait fails. *)
LEMMA AnswerTaken ==
    ASSUME IpcInv, NEW t \in Callers, ipcSeq[t] # 0,
           WaitForResponse(t) \/ WaitFails(t) \/ CheckResponse(t) \/ TakeResponse(t)
    PROVE  IpcInv'
  <1>1. WaiterOf(t) \in Waiter /\ ipcSeq[t] \in Nat
    BY DEF IpcInv, SeqInv, IpcTypeOK, TreeOK, WaiterOf
  <1>2. \/ WaiterOf(t).data = ipcSeq[t]
        \/ WaiterOf(t).data = 0 /\ Gone(WaiterOf(t).dest)
        \/ WaiterOf(t).set = FALSE
    BY <1>1 DEF IpcInv, SetInv, Waiter
  <1>3. ipcPc[t] \in {"check", "take"} => WaiterOf(t).set = TRUE
    BY DEF IpcInv, SetInv
  <1>4. /\ outgoing \in [Peers -> Nat] /\ ipcConn \in [Callers -> Nat]
        /\ abandoned \subseteq Nat /\ seenError \subseteq Nat
    BY DEF IpcInv, IpcTypeOK
  <1>5. CASE WaitForResponse(t)
    <2>1. WaiterOf(t).set = TRUE
      BY <1>1, <1>5 DEF WaitForResponse, Waiter
    <2> QED BY <1>4, <1>5, <2>1, GoOn DEF WaitForResponse
  <1>8. CASE WaitFails(t)
    BY <1>1, <1>4, <1>8, RequestEnds DEF WaitFails
  <1>6. CASE CheckResponse(t)
    <2>1. CASE /\ WaiterOf(t).data = 0 /\ EndRequest(t, "check", "ESRCH", 0)
               /\ UNCHANGED <<seenError, abandoned>>
      <3>1. Gone(WaiterOf(t).dest)
        BY <1>2, <1>3, <2>1 DEF EndRequest, IpcGoto
      <3> QED BY <1>4, <2>1, <3>1, RequestEnds
    <2>2. CASE /\ IpcGoto(t, "check", "take")
               /\ UNCHANGED <<peerVars, workerVars, outgoing, seenError, seqCounter, waiters,
                              ipcSeq, ipcConn, outcome, abandoned>>
      BY <1>3, <1>4, <2>2, GoOn DEF IpcGoto
    <2> QED BY <1>6, <2>1, <2>2 DEF CheckResponse
  <1>7. CASE TakeResponse(t)
    <2>1. PICK resp \in {ipcSeq[t], WaiterOf(t).data} :
            EndRequest(t, "take", "ok", resp) /\ UNCHANGED <<seenError, abandoned>>
      BY <1>7 DEF TakeResponse
    <2>2. resp \in Nat
      BY <1>1 DEF Waiter
    <2>3. resp # ipcSeq[t] => Gone(WaiterOf(t).dest)
      BY <1>2, <1>3, <2>1 DEF EndRequest, IpcGoto
    <2> QED BY <1>4, <2>1, <2>2, <2>3, RequestEnds
  <1> QED BY <1>5, <1>6, <1>7, <1>8

(* Answers that are all different stay so without the first one. *)
LEMMA TailDistinct ==
    ASSUME NEW q \in Seq(Nat), q # <<>>, \A i, j \in 1 .. Len(q) : q[i] = q[j] => i = j
    PROVE  \A i, j \in 1 .. Len(Tail(q)) : Tail(q)[i] = Tail(q)[j] => i = j
<1>1. /\ Len(q) \in Nat /\ Len(Tail(q)) = Len(q) - 1
      /\ \A i \in 1 .. Len(Tail(q)) : Tail(q)[i] = q[i + 1]
  BY HeadTailProperties, EmptySeq, LenProperties
<1>2. ASSUME NEW i \in 1 .. Len(Tail(q)), NEW j \in 1 .. Len(Tail(q)), Tail(q)[i] = Tail(q)[j]
      PROVE  i = j
  <2>1. i + 1 \in 1 .. Len(q) /\ j + 1 \in 1 .. Len(q) /\ q[i + 1] = q[j + 1]
    BY <1>1, <1>2
  <2>2. i + 1 = j + 1
    BY <2>1
  <2> QED BY <2>2
<1> QED BY <1>2

(* The worker hands an answer to the thread that waits for it, or ends the *)
(* process.                                                                *)
LEMMA ResponseInv ==
    ASSUME IpcInv, NEW d \in Peers, ResponseCallback(d)
    PROVE  IpcInv'
  <1> USE DEF IpcInv
  <1> DEFINE n == Head(arriving[d])
  <1>a. arriving[d] \in Seq(Nat) /\ arriving[d] # <<>>
    BY DEF ResponseCallback, IpcTypeOK
  <1>b. /\ n \in Nat /\ Tail(arriving[d]) \in Seq(Nat) /\ n = arriving[d][1]
        /\ Len(arriving[d]) \in Nat /\ Len(arriving[d]) > 0
        /\ Len(Tail(arriving[d])) = Len(arriving[d]) - 1
        /\ \A i \in 1 .. Len(Tail(arriving[d])) : Tail(arriving[d])[i] = arriving[d][i + 1]
    BY <1>a, HeadTailProperties, EmptySeq, LenProperties
  <1>c. OnWire(d, n)
    BY <1>b DEF OnWire
  <1>1. /\ n # 0 /\ \A t \in Callers : ipcSeq[t] = n => ipcPc[t] \notin {"connect", "send"}
        /\ n \notin abandoned => \E t \in Callers : Awaits(t, d, n)
    BY <1>b, <1>c DEF SentInv, PendingInv, Unanswered
  <1>3. /\ arriving' = [arriving EXCEPT ![d] = Tail(@)]
        /\ UNCHANGED <<peer, incoming, asked, broken, outgoing, seenError, seqCounter, ipcPc,
                       ipcSeq, ipcConn, dropped, outcome, abandoned>>
    BY DEF ResponseCallback
  <1>6. /\ arriving'[d] = Tail(arriving[d])
        /\ \A e \in Peers \ {d} : arriving'[e] = arriving[e]
    BY <1>3 DEF IpcTypeOK
  <1>7. \A e \in Peers, s \in Nat : Unanswered(e, s)' => Unanswered(e, s) /\ (e = d => s # n)
    <2> SUFFICES ASSUME NEW e \in Peers, NEW s \in Nat, Unanswered(e, s)'
                 PROVE  Unanswered(e, s) /\ (e = d => s # n)
      OBVIOUS
    <2>1. CASE e = d
      <3>1. CASE peer[d] = "up" /\ s \in asked[d]
        BY <1>b, <2>1, <3>1 DEF Unanswered, PendingInv
      <3>2. CASE OnWire(d, s)'
        <4>1. PICK i \in 1 .. Len(Tail(arriving[d])) : Tail(arriving[d])[i] = s
          BY <1>6, <3>2 DEF OnWire
        <4>2. i + 1 \in 1 .. Len(arriving[d]) /\ arriving[d][i + 1] = s
          BY <1>b, <4>1
        <4>3. 1 \in 1 .. Len(arriving[d]) /\ i + 1 # 1
          BY <1>b
        <4>4. s # n
          BY <1>b, <4>2, <4>3 DEF PendingInv
        <4> QED BY <2>1, <4>2, <4>4 DEF Unanswered, OnWire
      <3> QED BY <1>3, <2>1, <3>1, <3>2 DEF Unanswered
    <2>2. CASE e # d
      BY <1>3, <1>6, <2>2 DEF Unanswered, OnWire
    <2> QED BY <2>1, <2>2
  <1>9. SentInv'
    BY <1>3, <1>7 DEF SentInv
  <1>10. ASSUME \A e \in Peers, s \in Nat : Unanswered(e, s)' /\ s \notin abandoned =>
                   \E u \in Callers : Awaits(u, e, s)'
         PROVE  PendingInv'
    <2>2. \A e \in Peers : \A i, j \in 1 .. Len(arriving'[e]) :
             arriving'[e][i] = arriving'[e][j] => i = j
      <3>1. \A i, j \in 1 .. Len(arriving'[d]) : arriving'[d][i] = arriving'[d][j] => i = j
        <4>1. \A i, j \in 1 .. Len(arriving[d]) : arriving[d][i] = arriving[d][j] => i = j
          BY DEF PendingInv
        <4>2. arriving[d] \in Seq(Nat) /\ arriving[d] # <<>>
          BY <1>a
        <4>3. \A i, j \in 1 .. Len(Tail(arriving[d])) : Tail(arriving[d])[i] = Tail(arriving[d])[j] => i = j
          BY <4>1, <4>2, TailDistinct
        <4> QED BY <1>6, <4>3
      <3> QED BY <3>1, <1>6 DEF PendingInv
    <2>3. \A e \in Peers : peer'[e] = "up" =>
             \A i \in 1 .. Len(arriving'[e]) : arriving'[e][i] \notin asked'[e]
      <3>1. ASSUME NEW i \in 1 .. Len(Tail(arriving[d])), peer[d] = "up"
            PROVE  Tail(arriving[d])[i] \notin asked[d]
        <4>1. i + 1 \in 1 .. Len(arriving[d])
          BY <1>b
        <4> QED BY <4>1, <3>1, <1>b DEF PendingInv
      <3> QED BY <3>1, <1>3, <1>6 DEF PendingInv
    <2> QED BY <1>3, <1>10, <2>2, <2>3 DEF PendingInv
  <1>11. DropInv'
    <2>1. dropped = NoPeer
      BY DEF ResponseCallback
    <2> QED BY <2>1, <1>3 DEF DropInv
  <1>12. IpcFailureIsLocal'
    BY <1>3 DEF IpcFailureIsLocal
  <1>13. CASE n \in DOMAIN waiters
    <2>1. waiters' = [waiters EXCEPT ![n].data = n, ![n].set = TRUE] /\ UNCHANGED ipcFatal
      BY <1>13 DEF ResponseCallback
    <2>2. /\ DOMAIN waiters' = DOMAIN waiters
          /\ \A s \in DOMAIN waiters : s # n => waiters'[s] = waiters[s]
          /\ waiters'[n] = [waiters[n] EXCEPT !.data = n, !.set = TRUE]
          /\ waiters[n] \in Waiter
      BY <1>13, <2>1 DEF IpcTypeOK, TreeOK
    <2>3. waiters'[n].data = n /\ waiters'[n].set = TRUE /\ waiters'[n] \in Waiter
      BY <1>b, <2>2 DEF Waiter
    <2>4. IpcTypeOK'
      <3>1. TreeOK'
        BY <2>1, <2>2, <2>3 DEF IpcTypeOK, TreeOK
      <3> QED BY <1>3, <1>b, <2>1, <3>1 DEF IpcTypeOK
    <2>5. SeqInv'
      BY <1>3, <2>2 DEF SeqInv
    <2>6. PendingInv'
      <3> SUFFICES ASSUME NEW e \in Peers, NEW s \in Nat, Unanswered(e, s)', s \notin abandoned
                   PROVE  \E u \in Callers : Awaits(u, e, s)'
        BY <1>10
      <3>1. PICK u \in Callers : Awaits(u, e, s)
        BY <1>7 DEF PendingInv
      <3>2. s # n
        <4> SUFFICES ASSUME s = n PROVE FALSE
          OBVIOUS
        <4>1. e # d
          BY <1>7
        <4>2. PICK t \in Callers : Awaits(t, d, n)
          BY <1>1
        <4> QED BY <3>1, <4>1, <4>2 DEF Awaits
      <3> QED BY <3>1, <3>2, <1>3, <2>2 DEF Awaits
    <2>7. SetInv'
      <3>1. ASSUME NEW u \in Callers, ipcSeq[u] # 0, ipcSeq[u] # n
            PROVE  WaiterOf(u)' = WaiterOf(u)
        BY <1>3, <2>2, <3>1 DEF SeqInv, WaiterOf
      <3>2. ASSUME NEW u \in Callers, ipcSeq[u] = n
            PROVE  ipcPc[u] \notin {"connect", "send"} /\ WaiterOf(u)' = waiters'[n]
        BY <1>1, <1>3, <3>2 DEF WaiterOf
      <3> QED BY <1>3, <2>3, <3>1, <3>2 DEF SetInv, Gone
    <2>8. IpcNoStrayResponse'
      BY <1>3, <2>1 DEF IpcNoStrayResponse
    <2> QED BY <2>4, <2>5, <1>9, <2>6, <2>7, <1>11, <2>8, <1>12
  <1>14. CASE n \notin DOMAIN waiters
    <2>1. ipcFatal' = n /\ UNCHANGED waiters
      BY <1>14 DEF ResponseCallback
    <2>2. n \in abandoned
      BY <1>1, <1>14 DEF Awaits
    <2>3. IpcTypeOK'
      BY <1>3, <1>b, <2>1 DEF IpcTypeOK, TreeOK
    <2>4. SeqInv'
      BY <1>3, <2>1 DEF SeqInv
    <2>5. PendingInv'
      BY <1>3, <1>7, <1>10, <2>1 DEF PendingInv, Awaits
    <2>6. SetInv'
      BY <1>3, <2>1 DEF SetInv, Gone, WaiterOf
    <2>7. IpcNoStrayResponse'
      BY <1>3, <2>1, <2>2 DEF IpcNoStrayResponse
    <2> QED BY <2>3, <2>4, <1>9, <2>5, <2>6, <1>11, <2>7, <1>12
  <1> QED BY <1>13, <1>14

(* The worker cleans up after a connection. *)
LEMMA DisconnectInv ==
    ASSUME IpcInv, NEW d \in Peers, DisconnectCallbacks(d) \/ ReadFails(d)
    PROVE  IpcInv'
  <1> USE DEF IpcInv
  <1>0. /\ incoming' \subseteq incoming
        /\ arriving' = [arriving EXCEPT ![d] = <<>>]
        /\ outgoing' = [outgoing EXCEPT ![d] = 0]
        /\ dropped' = d
        /\ broken \subseteq broken' /\ broken' \subseteq broken \cup {d}
        /\ d \in broken' \/ peer[d] = "dead"
        /\ UNCHANGED <<peer, asked, seenError, seqCounter, waiters, ipcPc, ipcSeq, ipcConn,
                       ipcFatal, outcome, abandoned>>
    <2>1. peer[d] \in {"up", "dead"}
      BY DEF IpcTypeOK
    <2> QED BY <2>1 DEF DisconnectCallbacks, ReadFails, Disconnect
  <1>1. /\ arriving'[d] = <<>> /\ 1 .. Len(arriving'[d]) = {}
        /\ \A e \in Peers \ {d} : arriving'[e] = arriving[e]
    <2>1. arriving'[d] = <<>> /\ \A e \in Peers \ {d} : arriving'[e] = arriving[e]
      BY <1>0 DEF IpcTypeOK
    <2>2. Len(arriving'[d]) = 0
      BY <2>1, EmptySeq
    <2> QED BY <2>1, <2>2
  <1>2. \A e \in Peers, s \in Nat : Unanswered(e, s)' => Unanswered(e, s)
    BY <1>0, <1>1 DEF Unanswered, OnWire
  <1>3. IpcTypeOK'
    <2>1. <<>> \in Seq(Nat)
      BY EmptySeq
    <2> QED BY <1>0, <2>1 DEF IpcTypeOK, TreeOK
  <1>4. SeqInv' /\ SetInv'
    BY <1>0 DEF SeqInv, SetInv, Gone, WaiterOf
  <1>5. SentInv'
    BY <1>0, <1>2 DEF SentInv
  <1>6. PendingInv'
    <2>1. \A e \in Peers, s \in Nat :
             Unanswered(e, s)' => s \in abandoned' \/ \E t \in Callers : Awaits(t, e, s)'
      BY <1>0, <1>2 DEF PendingInv, Awaits
    <2>2. \A e \in Peers : \A i, j \in 1 .. Len(arriving'[e]) :
             arriving'[e][i] = arriving'[e][j] => i = j
      BY <1>1 DEF PendingInv
    <2>3. \A e \in Peers : peer'[e] = "up" =>
             \A i \in 1 .. Len(arriving'[e]) : arriving'[e][i] \notin asked'[e]
      BY <1>0, <1>1 DEF PendingInv
    <2> QED BY <2>1, <2>2, <2>3 DEF PendingInv
  <1>7. DropInv' /\ IpcNoStrayResponse' /\ IpcFailureIsLocal'
    BY <1>0, <1>1 DEF DropInv, IpcNoStrayResponse, IpcFailureIsLocal
  <1> QED BY <1>3, <1>4, <1>5, <1>6, <1>7

(* Whoever is woken has no answer under way, or gives it up. *)
LEMMA WakeInv ==
    ASSUME IpcInv, WakeWaiters
    PROVE  IpcInv'
  <1>0. /\ dropped # NoPeer
        /\ waiters' = [s \in DOMAIN waiters |->
                         IF waiters[s].dest = dropped
                         THEN [dest |-> dropped, data |-> 0, set |-> TRUE] ELSE waiters[s]]
        /\ dropped' = NoPeer
        /\ UNCHANGED <<peer, incoming, arriving, asked, broken, outgoing, seenError, seqCounter,
                       ipcPc, ipcSeq, ipcConn, ipcFatal, outcome>>
    BY Zenon DEF WakeWaiters, peerVars
  <1>9. /\ abandoned \subseteq abandoned' /\ abandoned' \subseteq abandoned \cup DOMAIN waiters
        /\ dropped \in broken => \A s \in DOMAIN waiters : waiters[s].dest = dropped => s \in abandoned'
    BY DEF WakeWaiters
  <1> USE <1>0 DEF IpcInv
  <1>1. dropped \in Peers /\ (dropped \in broken \/ (peer[dropped] = "dead" /\ arriving[dropped] = <<>>))
    BY DEF DropInv, IpcTypeOK
  <1>2. /\ DOMAIN waiters' = DOMAIN waiters
        /\ \A s \in DOMAIN waiters : waiters[s] \in Waiter
        /\ \A s \in DOMAIN waiters : waiters[s].dest # dropped => waiters'[s] = waiters[s]
        /\ \A s \in DOMAIN waiters : waiters[s].dest = dropped =>
              waiters'[s] = [dest |-> dropped, data |-> 0, set |-> TRUE]
    BY DEF IpcTypeOK, TreeOK
  <1>3. \A s \in DOMAIN waiters : waiters[s].dest = dropped =>
              /\ waiters'[s] \in Waiter
              /\ waiters'[s].dest = dropped /\ waiters'[s].data = 0 /\ waiters'[s].set = TRUE
    BY <1>2 DEF Waiter
  <1>10. \A d, s : Unanswered(d, s)' => Unanswered(d, s)
    BY DEF Unanswered, OnWire
  <1>4. IpcTypeOK'
    <2>1. TreeOK'
      BY <1>2, <1>3 DEF TreeOK
    <2>2. abandoned' \subseteq Nat
      BY <1>9 DEF IpcTypeOK, SeqInv
    <2> QED BY <2>1, <2>2 DEF IpcTypeOK
  <1>5. SeqInv' /\ SentInv'
    BY <1>2, <1>10 DEF SeqInv, SentInv
  <1>6. PendingInv'
    <2>1. ASSUME NEW e \in Peers, NEW s \in Nat, Unanswered(e, s)', s \notin abandoned'
          PROVE  \E u \in Callers : Awaits(u, e, s)'
      <3>1. PICK u \in Callers : Awaits(u, e, s)
        BY <1>9, <1>10, <2>1 DEF PendingInv
      <3>2. e # dropped
        <4> SUFFICES ASSUME e = dropped PROVE FALSE
          OBVIOUS
        <4>0. peer[dropped] = "dead" /\ arriving[dropped] = <<>>
          BY <1>1, <1>9, <2>1, <3>1 DEF Awaits
        <4>1. Len(arriving[dropped]) = 0
          BY <4>0, EmptySeq
        <4>2. ~OnWire(dropped, s)
          <5> HIDE DEF IpcInv
          <5>1. 1 .. Len(arriving[dropped]) = {}
            BY <4>1
          <5> QED BY <5>1 DEF OnWire
        <4>3. Unanswered(e, s)
          BY <1>10, <2>1
        <4> QED BY <4>0, <4>2, <4>3 DEF Unanswered
      <3> QED BY <3>1, <3>2, <1>2 DEF Awaits
    <2> QED BY <2>1 DEF PendingInv
  <1>7. SetInv'
    <2>1. ASSUME NEW u \in Callers, ipcSeq[u] # 0, WaiterOf(u).dest = dropped
          PROVE  /\ WaiterOf(u)'.dest = dropped /\ WaiterOf(u)'.data = 0
                 /\ WaiterOf(u)'.set = TRUE
                 /\ dropped \in broken => ipcSeq[u] \in abandoned'
      BY <1>3, <1>9, <2>1 DEF SeqInv, WaiterOf
    <2>2. ASSUME NEW u \in Callers, ipcSeq[u] # 0, WaiterOf(u).dest # dropped
          PROVE  WaiterOf(u)' = WaiterOf(u)
      BY <1>2, <2>2 DEF SeqInv, WaiterOf
    <2>3. peer' = peer /\ broken' = broken /\ ipcSeq' = ipcSeq /\ ipcPc' = ipcPc
      OBVIOUS
    <2> QED BY <1>1, <1>9, <2>1, <2>2, <2>3 DEF SetInv, Gone
  <1>8. DropInv' /\ IpcNoStrayResponse' /\ IpcFailureIsLocal'
    BY <1>9 DEF DropInv, IpcNoStrayResponse, IpcFailureIsLocal
  <1> QED BY <1>4, <1>5, <1>6, <1>7, <1>8

(* Another process answers. *)
LEMMA AnswersInv ==
    ASSUME IpcInv, NEW d \in Peers, PeerAnswers(d)
    PROVE  IpcInv'
  <1> USE DEF IpcInv
  <1>1. PICK n \in asked[d] :
          /\ peer[d] = "up"
          /\ asked' = [asked EXCEPT ![d] = @ \ {n}]
          /\ incoming' = incoming \cup {d}
          /\ arriving' = [arriving EXCEPT ![d] = Append(@, n)]
          /\ UNCHANGED <<peer, broken, workerVars, outgoing, seenError, seqCounter, waiters, ipcPc,
                         ipcSeq, ipcConn, outcome, abandoned>>
    BY DEF PeerAnswers
  <1> USE DEF workerVars
  <1>2. n \in Nat /\ arriving[d] \in Seq(Nat)
    BY DEF IpcTypeOK
  <1> DEFINE q == arriving[d]
  <1>3. /\ Len(q) \in Nat
        /\ Append(q, n) \in Seq(Nat) /\ Len(Append(q, n)) = Len(q) + 1
        /\ \A i \in 1 .. Len(q) : Append(q, n)[i] = q[i]
        /\ Append(q, n)[Len(q) + 1] = n
    BY <1>2, AppendProperties, LenProperties
  <1>4. /\ arriving'[d] = Append(q, n) /\ asked'[d] = asked[d] \ {n}
        /\ \A e \in Peers \ {d} : arriving'[e] = arriving[e] /\ asked'[e] = asked[e]
    BY <1>1 DEF IpcTypeOK
  <1>5. IpcTypeOK'
    <2>1. TreeOK'
      BY <1>1 DEF IpcTypeOK, TreeOK
    <2> QED BY <1>1, <1>3, <2>1 DEF IpcTypeOK
  <1>6. SeqInv' /\ SetInv'
    BY <1>1 DEF SeqInv, SetInv, Gone, WaiterOf
  <1>9. ASSUME NEW e \in Peers, NEW s \in Nat, Unanswered(e, s)'
        PROVE  Unanswered(e, s)
    <2>1. CASE e # d
      BY <1>1, <1>4, <1>9, <2>1 DEF Unanswered, OnWire
    <2>2. CASE e = d /\ OnWire(d, s)'
      <3>1. PICK i \in 1 .. Len(q) + 1 : Append(q, n)[i] = s
        BY <2>2, <1>3, <1>4 DEF OnWire
      <3>2. CASE i = Len(q) + 1
        BY <3>1, <3>2, <1>1, <1>3, <2>2 DEF Unanswered
      <3>3. CASE i \in 1 .. Len(q)
        BY <3>1, <3>3, <1>3, <2>2 DEF Unanswered, OnWire
      <3>4. i = Len(q) + 1 \/ i \in 1 .. Len(q)
        <4> HIDE DEF q, IpcInv
        <4> QED BY <1>3
      <3> QED BY <3>2, <3>3, <3>4
    <2>3. CASE e = d /\ s \in asked'[d]
      BY <2>3, <1>1, <1>4 DEF Unanswered
    <2> QED BY <2>1, <2>2, <2>3, <1>9 DEF Unanswered
  <1>10. SentInv'
    BY <1>1, <1>9 DEF SentInv
  <1>7. PendingInv'
    <2>2. \A e \in Peers, s \in Nat :
             Unanswered(e, s)' => s \in abandoned' \/ \E u \in Callers : Awaits(u, e, s)'
      BY <1>9, <1>1 DEF PendingInv, Awaits
    <2>3. \A i \in 1 .. Len(q) : q[i] # n
      BY <1>1 DEF PendingInv
    <2>4. \A i, j \in 1 .. Len(q) + 1 : Append(q, n)[i] = Append(q, n)[j] => i = j
      <3> SUFFICES ASSUME NEW i \in 1 .. Len(q) + 1, NEW j \in 1 .. Len(q) + 1,
                          Append(q, n)[i] = Append(q, n)[j]
                   PROVE  i = j
        OBVIOUS
      <3>1. CASE i \in 1 .. Len(q) /\ j \in 1 .. Len(q)
        BY <1>3, <3>1 DEF PendingInv
      <3>2. CASE i = Len(q) + 1 \/ j = Len(q) + 1
        BY <1>3, <2>3, <3>2
      <3> QED BY <1>3, <3>1, <3>2
    <2>5. \A i \in 1 .. Len(q) + 1 : Append(q, n)[i] \notin asked[d] \ {n}
      <3> SUFFICES ASSUME NEW i \in 1 .. Len(q) + 1 PROVE Append(q, n)[i] \notin asked[d] \ {n}
        OBVIOUS
      <3>1. CASE i \in 1 .. Len(q)
        BY <1>1, <1>3, <3>1 DEF PendingInv
      <3>2. CASE i = Len(q) + 1
        BY <1>3, <3>2
      <3> QED BY <1>3, <3>1, <3>2
    <2> HIDE DEF q
    <2>6. \A e \in Peers : \A i, j \in 1 .. Len(arriving'[e]) :
             arriving'[e][i] = arriving'[e][j] => i = j
      <3>1. ASSUME NEW e \in Peers, e # d
            PROVE  \A i, j \in 1 .. Len(arriving'[e]) : arriving'[e][i] = arriving'[e][j] => i = j
        BY <1>4, <3>1 DEF PendingInv
      <3>2. \A i, j \in 1 .. Len(arriving'[d]) : arriving'[d][i] = arriving'[d][j] => i = j
        <4> HIDE DEF IpcInv
        <4> QED BY <1>3, <1>4, <2>4
      <3> QED BY <3>1, <3>2
    <2>7. \A e \in Peers : peer'[e] = "up" =>
             \A i \in 1 .. Len(arriving'[e]) : arriving'[e][i] \notin asked'[e]
      <3>1. ASSUME NEW e \in Peers, e # d, peer[e] = "up"
            PROVE  \A i \in 1 .. Len(arriving'[e]) : arriving'[e][i] \notin asked'[e]
        BY <1>4, <3>1 DEF PendingInv
      <3>2. \A i \in 1 .. Len(arriving'[d]) : arriving'[d][i] \notin asked'[d]
        BY <1>3, <1>4, <2>5
      <3> QED BY <1>1, <3>1, <3>2
    <2> QED BY <2>2, <2>6, <2>7 DEF PendingInv
  <1>8. DropInv' /\ IpcNoStrayResponse' /\ IpcFailureIsLocal'
    BY <1>1, <1>4 DEF DropInv, IpcNoStrayResponse, IpcFailureIsLocal, IpcTypeOK
  <1> QED BY <1>5, <1>6, <1>7, <1>8, <1>10

(* An answer is lost. *)
LEMMA LostInv ==
    ASSUME IpcInv, NEW d \in Peers, AnswerLost(d)
    PROVE  IpcInv'
  <1> USE DEF IpcInv
  <1>1. PICK n \in asked[d] :
          /\ asked' = [asked EXCEPT ![d] = @ \ {n}]
          /\ broken' = broken \cup {d}
          /\ UNCHANGED <<peer, incoming, arriving, workerVars, outgoing, seenError, seqCounter,
                         waiters, ipcPc, ipcSeq, ipcConn, outcome, abandoned>>
    BY DEF AnswerLost
  <1> USE DEF workerVars
  <1>2. \A e \in Peers : asked'[e] \subseteq asked[e]
    BY <1>1 DEF IpcTypeOK
  <1>3. \A e \in Peers, s \in Nat : Unanswered(e, s)' => Unanswered(e, s)
    BY <1>1, <1>2 DEF Unanswered, OnWire
  <1>4. IpcTypeOK'
    BY <1>1 DEF IpcTypeOK, TreeOK
  <1>5. SeqInv' /\ SetInv' /\ SentInv'
    BY <1>1, <1>3 DEF SeqInv, SetInv, SentInv, Gone, WaiterOf
  <1>6. PendingInv'
    BY <1>1, <1>2, <1>3 DEF PendingInv, Awaits
  <1>7. DropInv' /\ IpcNoStrayResponse' /\ IpcFailureIsLocal'
    BY <1>1 DEF DropInv, IpcNoStrayResponse, IpcFailureIsLocal
  <1> QED BY <1>4, <1>5, <1>6, <1>7

(* Another process dies. *)
LEMMA DiesInv ==
    ASSUME IpcInv, NEW d \in Peers, PeerDies(d)
    PROVE  IpcInv'
  <1> USE DEF IpcInv, PeerDies, workerVars
  <1>1. \A e \in Peers : peer'[e] = IF e = d THEN "dead" ELSE peer[e]
    BY DEF IpcTypeOK
  <1>2. IpcTypeOK'
    BY DEF IpcTypeOK, TreeOK
  <1>3. \A t \in Callers : ipcSeq[t] # 0 => WaiterOf(t) \in Waiter
    BY DEF SeqInv, IpcTypeOK, TreeOK, WaiterOf
  <1>4. SeqInv' /\ SetInv'
    BY <1>1, <1>3 DEF SeqInv, SetInv, Gone, WaiterOf, Waiter
  <1>5. PendingInv' /\ SentInv'
    BY <1>1 DEF PendingInv, SentInv, Unanswered, OnWire, Awaits
  <1>6. DropInv' /\ IpcNoStrayResponse'
    BY <1>1 DEF DropInv, IpcNoStrayResponse, IpcTypeOK
  <1>7. IpcFailureIsLocal'
    <2>1. ASSUME NEW t \in Callers, outcome[t] # NoOutcome
          PROVE  peer[outcome[t].dest] = "dead" => peer'[outcome[t].dest] = "dead"
      <3>1. outcome[t].dest \in Peers
        BY <2>1 DEF IpcTypeOK, Outcome
      <3> QED BY <1>1, <3>1
    <2> QED BY <2>1 DEF IpcFailureIsLocal
  <1> QED BY <1>2, <1>4, <1>5, <1>6, <1>7

-----------------------------------------------------------------------------
(* Every step keeps the invariant. *)
LEMMA IpcStepInv == IpcInv /\ [IpcNext]_ipcVars => IpcInv'
  <1> SUFFICES ASSUME IpcInv, [IpcNext]_ipcVars PROVE IpcInv'
    OBVIOUS
  <1>1. CASE UNCHANGED ipcVars
    BY <1>1 DEF ipcVars, IpcInv, IpcTypeOK, TreeOK, SeqInv, SentInv, PendingInv, Unanswered, OnWire,
           Awaits, SetInv, Gone, WaiterOf, DropInv, IpcNoStrayResponse, IpcFailureIsLocal
  <1>2. ASSUME NEW t \in Callers, BeginRequest(t) \/ (ipcSeq[t] # 0 /\ (Continue(t) \/ WaitFails(t)))
        PROVE  IpcInv'
    BY <1>2, BeginInv, ConnectInv, SendInv, AnswerTaken DEF Continue
  <1>3. CASE IpcWorkerStep
    BY <1>3, ResponseInv, DisconnectInv, WakeInv DEF IpcWorkerStep
  <1>4. ASSUME NEW d \in Peers, ReadFails(d) \/ PeerAnswers(d) \/ AnswerLost(d) \/ PeerDies(d)
        PROVE  IpcInv'
    BY <1>4, DisconnectInv, AnswersInv, LostInv, DiesInv
  <1> QED BY <1>1, <1>2, <1>3, <1>4 DEF IpcNext

(* The invariant always holds. *)
LEMMA IpcInvariant == IpcSpec => []IpcInv
  BY IpcInitInv, IpcStepInv, PTL DEF IpcSpec

(* Every variable of libos_ipc.c and of its worker keeps its type. *)
THEOREM IpcTypeCorrect == IpcSpec => []IpcTypeOK
  <1>1. IpcInv => IpcTypeOK
    BY DEF IpcInv
  <1> QED BY <1>1, IpcInvariant, PTL

(* ipc_response_callback ends the process over an answer without a waiter  *)
(* only when the wait for it failed, or a connection from a process that   *)
(* lived failed during the request: deaths, interrupted waits and failed   *)
(* connects and writes never lead there, whenever they happen.             *)
THEOREM NoStrayResponse == IpcSpec => []IpcNoStrayResponse
  <1>1. IpcInv => IpcNoStrayResponse
    BY DEF IpcInv
  <1> QED BY <1>1, IpcInvariant, PTL

(* A request that fails by no failing call of its own, or that returns an  *)
(* answer not its own, was sent to a process that has died or whose        *)
(* connection failed: remove_outgoing_ipc_connection wakes nobody else,    *)
(* and takes back an answer in no other case.                              *)
THEOREM FailureIsLocal == IpcSpec => []IpcFailureIsLocal
  <1>1. IpcInv => IpcFailureIsLocal
    BY DEF IpcInv
  <1> QED BY <1>1, IpcInvariant, PTL
=============================================================================
