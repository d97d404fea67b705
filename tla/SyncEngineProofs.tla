-------------------------- MODULE SyncEngineProofs --------------------------
(***************************************************************************)
(* Proofs about SyncEngine, for any set of processes and any bound: the    *)
(* type invariant, exclusion, the ordering of the state fields, and that   *)
(* no assert and no FATAL is reached.                                      *)
(*                                                                         *)
(* The properties are not inductive: they depend on what is in flight.     *)
(* The invariant below says, for each process, where its one outstanding   *)
(* upgrade request is (in the stream to the server, in the lease, or as a  *)
(* confirmation in the stream back) and how the downgrades in flight       *)
(* bridge the gap between the client's and the server's idea of the state. *)
(***************************************************************************)
EXTENDS SyncEngine, SequenceTheorems, TLAPS

(* The parts of the invariant are stated for values rather than for the    *)
(* variables, so that they can also be stated for the moment inside a      *)
(* server handler between its own changes and process_handle.  For one     *)
(* client: q and r are its streams to and from the server, cu, cr and ph   *)
(* its cur_state, client_req_state and phase; sc, rq and dn are its        *)
(* lease's cur_state, client_req_state and server_req_state; ls is the     *)
(* lease list.                                                             *)

Is(s, i, type) == i \in DOMAIN s /\ s[i].type = type

Up(q, i)    == Is(q, i, "REQUEST_UPGRADE")
Down(q, i)  == Is(q, i, "CONFIRM_DOWNGRADE")
Close(q, i) == Is(q, i, "REQUEST_CLOSE")
Conf(r, i)  == Is(r, i, "CONFIRM_UPGRADE")
Ask(r, i)   == Is(r, i, "REQUEST_DOWNGRADE")
End(r, i)   == Is(r, i, "CONFIRM_CLOSE")

(* The handle and the thread that uses it. *)
HandleInv(c) ==
    /\ pc[c] = "idle" => ~used[c] /\ phase[c] \in {"NEW", "OPEN"}
    /\ pc[c] = "held" => used[c] /\ creq[c] = NONE /\ want[c] # NONE /\ want[c] <= cur[c]
    /\ pc[c] = "lockwait" => /\ used[c]
                             /\ want[c] # NONE
                             /\ creq[c] \in {NONE, want[c]}
                             /\ creq[c] = NONE => want[c] <= cur[c]
    /\ pc[c] \in {"destroying", "stopsent", "stopping"} => phase[c] \in {"CLOSING", "CLOSED"}
    /\ pc[c] \in {"destroyed", "stopped", "exited"} => phase[c] \in {"NEW", "CLOSED"}
    /\ used[c] => phase[c] = "OPEN"
    /\ phase[c] # "OPEN" => cur[c] = INVALID
    /\ creq[c] # NONE => used[c] /\ cur[c] < creq[c]
    /\ sreq[c] # NONE => used[c] /\ sreq[c] < cur[c]

(* The stream to the server: an upgrade request or a close comes last, and *)
(* the downgrades lead from the server's state down to the client's.       *)
RequestsOK(q, cu, cr, ph, sc, rq) ==
    /\ \A i \in Nat : Up(q, i) => i = Len(q) /\ cr = q[i].state /\ rq = NONE
    /\ \A i \in Nat : Close(q, i) => /\ i = Len(q)
                                     /\ ph = "CLOSING"
                                     /\ q[i].data = NoData \/ q[i].state = EXCLUSIVE
    /\ \A i \in Nat : Down(q, i) => /\ cu <= q[i].state
                                    /\ q[i].state < sc
                                    /\ q[i].data = NoData \/ (i = 1 /\ sc = EXCLUSIVE)
    /\ \A i, j \in Nat : Down(q, i) /\ Down(q, j) /\ i < j => q[j].state < q[i].state

(* The stream to the client: at most one confirmation of the outstanding   *)
(* request, and CONFIRM_CLOSE comes last.                                  *)
AnswersOK(q, r, cr, ph, sc, rq) ==
    /\ \A i \in Nat : Conf(r, i) => /\ cr = r[i].state
                                    /\ sc = r[i].state
                                    /\ rq = NONE
                                    /\ q = <<>>
                                    /\ \A j \in Nat : Conf(r, j) => j = i
    /\ \A i \in Nat : End(r, i) => i = Len(r) /\ ph = "CLOSING" /\ q = <<>>
    /\ \A i \in Nat : Ask(r, i) => r[i].state # EXCLUSIVE

(* The lease: what the server knows differs from what the client knows     *)
(* only by what is in flight.                                              *)
LeaseOK(q, r, cu, cr, ph, sc, rq, dn) ==
    /\ cu <= sc
    /\ ph = "OPEN" => \/ sc = cu
                      \/ \E i \in Nat : Conf(r, i)
                      \/ \E i \in Nat : Down(q, i) /\ q[i].state = cu
    /\ rq # NONE => q = <<>> /\ cr = rq /\ sc < rq
    /\ dn # NONE => dn < sc

(* Which clients have a lease. *)
MemberOK(q, r, ph, sc, rq, ls, c) ==
    /\ \A i \in Nat : Close(q, i) => InList(ls, c)
    /\ \A i \in Nat : End(r, i) => ~InList(ls, c)
    /\ rq # NONE => InList(ls, c)
    /\ sc # INVALID => InList(ls, c)
    /\ ph = "OPEN" => InList(ls, c) \/ \E i \in Nat : Up(q, i)
    /\ ph \in {"NEW", "CLOSED"} => ~InList(ls, c) /\ q = <<>> /\ r = <<>>

Typed(q, r, cu, cr, sc, rq, dn) ==
    /\ q \in Seq(ServerMsgs) /\ r \in Seq(ClientMsgs)
    /\ cu \in States /\ cr \in {NONE, SHARED, EXCLUSIVE}
    /\ sc \in States /\ rq \in {NONE, SHARED, EXCLUSIVE} /\ dn \in {NONE, INVALID, SHARED}

ClientOK(q, r, cu, cr, ph, sc, rq, dn, ls, c) ==
    /\ RequestsOK(q, cu, cr, ph, sc, rq)
    /\ AnswersOK(q, r, cr, ph, sc, rq)
    /\ LeaseOK(q, r, cu, cr, ph, sc, rq, dn)
    /\ MemberOK(q, r, ph, sc, rq, ls, c)

(* The lease list. *)
LeaseExclusion(sc) == \A c, d \in Clients : c # d /\ sc[c] = EXCLUSIVE => sc[d] = INVALID

NoDuplicates(ls) == \A i, j \in DOMAIN ls : ls[i] = ls[j] => i = j

ClientInv(c) ==
    /\ HandleInv(c)
    /\ ClientOK(toServer[c], toClient[c], cur[c], creq[c], phase[c],
                scur[c], screq[c], ssreq[c], leases, c)

IInv ==
    /\ TypeOK
    /\ \A c \in Clients : ClientInv(c)
    /\ LeaseExclusion(scur)
    /\ NoDuplicates(leases)
    /\ fatal = FALSE

-----------------------------------------------------------------------------
(* Sequences *)

(* What Append does to length and elements. *)
LEMMA AppendFacts ==
    ASSUME NEW S, NEW s \in Seq(S), NEW e \in S
    PROVE  /\ Append(s, e) \in Seq(S)
           /\ Append(s, e) # <<>>
           /\ Len(Append(s, e)) = Len(s) + 1
           /\ DOMAIN Append(s, e) = 1..(Len(s) + 1)
           /\ \A i \in DOMAIN s : Append(s, e)[i] = s[i]
           /\ Append(s, e)[Len(s) + 1] = e
  OBVIOUS

(* What Tail does to length and elements. *)
LEMMA TailFacts ==
    ASSUME NEW S, NEW s \in Seq(S), s # <<>>
    PROVE  /\ Head(s) \in S
           /\ Head(s) = s[1]
           /\ Tail(s) \in Seq(S)
           /\ Len(s) \in Nat \ {0}
           /\ DOMAIN s = 1..Len(s)
           /\ Len(Tail(s)) = Len(s) - 1
           /\ DOMAIN Tail(s) = 1..(Len(s) - 1)
           /\ \A i \in DOMAIN Tail(s) : Tail(s)[i] = s[i + 1]
  OBVIOUS

(* Deleting a lease from the list keeps every other lease, and the list    *)
(* still has no client twice (LISTP_DEL in do_request_close and            *)
(* do_request_upgrade).                                                    *)
LEMMA WithoutFacts ==
    ASSUME NEW ls \in Seq(Clients), NEW c \in Clients, NoDuplicates(ls)
    PROVE  /\ Without(ls, c) \in Seq(Clients)
           /\ NoDuplicates(Without(ls, c))
           /\ ~InList(Without(ls, c), c)
           /\ \A d \in Clients : d # c => (InList(Without(ls, c), d) <=> InList(ls, d))
<1>1. CASE ~InList(ls, c)
  BY <1>1 DEF Without
<1>2. CASE InList(ls, c)
  <2> DEFINE p == Position(ls, c)
             w == RemoveAt(ls, p)
  <2>1. p \in DOMAIN ls /\ ls[p] = c
    BY <1>2 DEF InList, Position
  <2>2. p \in 1..Len(ls) /\ DOMAIN ls = 1..Len(ls) /\ Len(ls) \in Nat
    BY <2>1
  <2> HIDE DEF p
  <2>3. w = SubSeq(ls, 1, p-1) \o SubSeq(ls, p+1, Len(ls))
    BY DEF RemoveAt
  <2>4. /\ SubSeq(ls, 1, p-1) \in Seq(Clients)
        /\ Len(SubSeq(ls, 1, p-1)) = p - 1
        /\ \A i \in 1..(p-1) : SubSeq(ls, 1, p-1)[i] = ls[i]
    <3>1. \A i \in 1..(p-1) : ls[i] \in Clients
      BY <2>2
    <3> QED BY <3>1, <2>2, SubSeqProperties
  <2>5. /\ SubSeq(ls, p+1, Len(ls)) \in Seq(Clients)
        /\ Len(SubSeq(ls, p+1, Len(ls))) = Len(ls) - p
        /\ \A i \in 1..(Len(ls) - p) : SubSeq(ls, p+1, Len(ls))[i] = ls[p + i]
    <3> DEFINE m == p + 1
               n == Len(ls)
               t == SubSeq(ls, m, n)
    <3>1. m \in Int /\ n \in Int /\ \A i \in m..n : ls[i] \in Clients
      BY <2>2
    <3>2. m = p + 1 /\ n = Len(ls)
      OBVIOUS
    <3> HIDE DEF m, n
    <3>3. /\ t \in Seq(Clients)
          /\ Len(t) = IF m <= n THEN n-m+1 ELSE 0
          /\ \A i \in 1 .. n-m+1 : t[i] = ls[m+i-1]
      BY <3>1, SubSeqProperties
    <3> HIDE DEF t
    <3>4. /\ t \in Seq(Clients)
          /\ Len(t) = Len(ls) - p
          /\ \A i \in 1..(Len(ls) - p) : t[i] = ls[p + i]
      BY <3>2, <3>3, <2>2
    <3> QED BY <3>2, <3>4, Zenon DEF t
  <2>6. /\ w \in Seq(Clients)
        /\ Len(w) = Len(ls) - 1
        /\ \A i \in 1..Len(w) : w[i] = IF i < p THEN ls[i] ELSE ls[i + 1]
    <3> DEFINE u == SubSeq(ls, 1, p-1)
               v == SubSeq(ls, p+1, Len(ls))
    <3>1. /\ u \o v \in Seq(Clients)
          /\ Len(u \o v) = Len(u) + Len(v)
          /\ \A i \in 1..(Len(u) + Len(v)) : (u \o v)[i] = IF i <= Len(u) THEN u[i] ELSE v[i - Len(u)]
      BY <2>4, <2>5, ConcatProperties
    <3>2. /\ Len(u) = p - 1 /\ Len(v) = Len(ls) - p
          /\ \A i \in 1..(p-1) : u[i] = ls[i]
          /\ \A i \in 1..(Len(ls) - p) : v[i] = ls[p + i]
      BY <2>4, <2>5
    <3>3. w = u \o v
      BY <2>3
    <3> HIDE DEF u, v, w
    <3>4. Len(w) = Len(ls) - 1
      <4>1. Len(w) = Len(u) + Len(v)
        BY <3>1, <3>3, Zenon
      <4> QED BY <4>1, <3>2, <2>2
    <3>5. ASSUME NEW i \in 1..Len(w), i < p PROVE w[i] = ls[i]
      BY <3>5, <3>1, <3>2, <3>3, <3>4, <2>2
    <3>6. ASSUME NEW i \in 1..Len(w), ~(i < p) PROVE w[i] = ls[i + 1]
      <4>1. i - (p - 1) \in 1..(Len(ls) - p) /\ p + (i - (p - 1)) = i + 1
        BY <3>6, <3>4, <2>2
      <4>2. w[i] = v[i - (p - 1)]
        BY <3>6, <3>1, <3>2, <3>3, <3>4, <2>2
      <4> QED BY <4>1, <4>2, <3>2
    <3> QED BY <3>1, <3>3, <3>4, <3>5, <3>6
  <2> HIDE DEF w
  <2>7. NoDuplicates(w) /\ ~InList(w, c)
    <3>1. DOMAIN w = 1..Len(w)
      BY <2>6
    <3>2. NoDuplicates(w)
      <4> SUFFICES ASSUME NEW i \in 1..Len(w), NEW j \in 1..Len(w), w[i] = w[j]
                   PROVE  i = j
        BY <3>1 DEF NoDuplicates
      <4> DEFINE f(k) == IF k < p THEN k ELSE k + 1
      <4>1. f(i) \in DOMAIN ls /\ f(j) \in DOMAIN ls
        BY <2>2, <2>6
      <4>2. ls[f(i)] = ls[f(j)]
        BY <2>6
      <4>3. f(i) = f(j)
        BY <4>1, <4>2 DEF NoDuplicates
      <4> QED BY <4>3, <2>2, <2>6
    <3>3. ~InList(w, c)
      <4> SUFFICES ASSUME NEW i \in 1..Len(w), w[i] = c PROVE FALSE
        BY <3>1 DEF InList
      <4> DEFINE f == IF i < p THEN i ELSE i + 1
      <4>1. f \in DOMAIN ls /\ f # p
        BY <2>2, <2>6
      <4>2. ls[f] = ls[p]
        BY <2>1, <2>6
      <4> QED BY <4>1, <4>2, <2>1 DEF NoDuplicates
    <3> QED BY <3>2, <3>3
  <2>8. ASSUME NEW d \in Clients, d # c
        PROVE  InList(w, d) <=> InList(ls, d)
    <3>1. ASSUME NEW i \in 1..Len(w) PROVE InList(ls, w[i])
      BY <2>2, <2>6 DEF InList
    <3>2. ASSUME NEW i \in 1..Len(ls), ls[i] # c PROVE InList(w, ls[i])
      <4>1. CASE i < p
        BY <4>1, <2>2, <2>6 DEF InList
      <4>2. CASE i > p
        <5>1. i - 1 \in 1..Len(w) /\ w[i - 1] = ls[i]
          BY <4>2, <2>2, <2>6
        <5> QED BY <5>1, <2>6 DEF InList
      <4> QED BY <4>1, <4>2, <3>2, <2>1, <2>2
    <3>3. ASSUME InList(w, d) PROVE InList(ls, d)
      <4>1. PICK i \in 1..Len(w) : w[i] = d
        BY <3>3, <2>6 DEF InList
      <4> QED BY <4>1, <3>1
    <3>4. ASSUME InList(ls, d) PROVE InList(w, d)
      <4>1. PICK i \in 1..Len(ls) : ls[i] = d
        BY <3>4, <2>2 DEF InList
      <4> QED BY <4>1, <3>2, <2>8
    <3> QED BY <3>3, <3>4
  <2>9. Without(ls, c) = w
    BY <1>2 DEF Without, w, p
  <2> QED BY <2>6, <2>7, <2>8, <2>9
<1> QED BY <1>1, <1>2

-----------------------------------------------------------------------------
(* The lease walk *)

(* What process_handle grants was requested, and the grants keep one lease *)
(* from being EXCLUSIVE beside another that is not INVALID.                *)
LEMMA GrantFacts ==
    ASSUME NEW sc \in [Clients -> States], NEW rq \in [Clients -> {NONE, SHARED, EXCLUSIVE}],
           NEW ls, LeaseExclusion(sc)
    PROVE  LET eg  == ExclusiveGrants(sc, rq, ls)
               sg  == SharedGrants(sc, rq, ls)
               sc2 == [c \in Clients |-> IF c \in eg THEN EXCLUSIVE
                                         ELSE IF c \in sg THEN SHARED ELSE sc[c]]
           IN /\ \A c \in Clients : c \in eg => rq[c] = EXCLUSIVE
              /\ \A c \in Clients : c \in sg => rq[c] = SHARED
              /\ LeaseExclusion(sc2)
<1> DEFINE eg  == ExclusiveGrants(sc, rq, ls)
           sg  == SharedGrants(sc, rq, ls)
           sc2 == [c \in Clients |-> IF c \in eg THEN EXCLUSIVE
                                     ELSE IF c \in sg THEN SHARED ELSE sc[c]]
<1>1. \A c \in Clients : c \in eg => rq[c] = EXCLUSIVE
  BY DEF ExclusiveGrants, In
<1>2. \A c \in Clients : c \in sg => rq[c] = SHARED
  BY DEF SharedGrants, In
<1>3. \A c, d \in eg : c = d
  BY DEF ExclusiveGrants
<1>4. eg # {} => sg = {} /\ In(sc, EXCLUSIVE) = {}
  BY DEF ExclusiveGrants, SharedGrants
<1>5. \A c \in eg : \A d \in Clients : d # c => sc[d] # SHARED
  BY DEF ExclusiveGrants, In
<1>6. sg # {} => In(sc, EXCLUSIVE) = {}
  BY DEF SharedGrants
<1> HIDE DEF eg, sg
<1>7. LeaseExclusion(sc2)
  <2> SUFFICES ASSUME NEW c \in Clients, NEW d \in Clients, c # d, sc2[c] = EXCLUSIVE
               PROVE  sc2[d] = INVALID
    BY DEF LeaseExclusion
  <2>1. CASE c \in eg
    <3>1. d \notin eg /\ d \notin sg /\ sc[d] # EXCLUSIVE /\ sc[d] # SHARED
      BY <2>1, <1>3, <1>4, <1>5 DEF In
    <3> QED BY <3>1 DEF States
  <2>2. CASE c \notin eg
    <3>1. sc[c] = EXCLUSIVE
      BY <2>2 DEF SHARED, EXCLUSIVE
    <3>2. eg = {} /\ sg = {}
      BY <3>1, <1>4, <1>6 DEF In
    <3> QED BY <3>1, <3>2 DEF LeaseExclusion
  <2> QED BY <2>1, <2>2
<1> QED BY <1>1, <1>2, <1>7 DEF eg, sg

-----------------------------------------------------------------------------
(* process_handle for one client *)

(* A grant keeps the invariant of the client it is for. *)
LEMMA GrantOK ==
    ASSUME NEW q, NEW r, NEW cu, NEW cr, NEW ph, NEW sc, NEW rq, NEW dn, NEW ls, NEW c, NEW m,
           Typed(q, r, cu, cr, sc, rq, dn), rq # NONE,
           m \in ClientMsgs, m.type = "CONFIRM_UPGRADE", m.state = rq,
           ClientOK(q, r, cu, cr, ph, sc, rq, dn, ls, c)
    PROVE  /\ Append(r, m) \in Seq(ClientMsgs)
           /\ ClientOK(q, Append(r, m), cu, cr, ph, rq, NONE, dn, ls, c)
<1> DEFINE r2 == Append(r, m)
<1> USE DEF Typed
<1>2. /\ r2 \in Seq(ClientMsgs) /\ r2 # <<>> /\ Len(r2) = Len(r) + 1 /\ Len(r) \in Nat
      /\ DOMAIN r2 = 1..(Len(r) + 1) /\ DOMAIN r = 1..Len(r)
      /\ \A i \in DOMAIN r : r2[i] = r[i]
      /\ r2[Len(r) + 1] = m
  BY AppendFacts
<1> HIDE DEF r2
<1>3. rq # NONE /\ q = <<>> /\ cr = rq /\ sc < rq /\ cu < rq
  BY DEF ClientOK, LeaseOK, NONE, INVALID, SHARED, EXCLUSIVE, States
<1>4. InList(ls, c) /\ ph \notin {"NEW", "CLOSED"}
  BY <1>3 DEF ClientOK, MemberOK
<1>5. \A i \in Nat : ~Conf(r, i) /\ ~End(r, i)
  BY <1>3, <1>4 DEF ClientOK, AnswersOK, MemberOK
<1>6. \A i \in Nat : ~Up(q, i) /\ ~Down(q, i) /\ ~Close(q, i)
  BY <1>3 DEF Up, Down, Close, Is
<1>7. \A i \in Nat : Conf(r2, i) <=> i = Len(r) + 1
  BY <1>2, <1>5 DEF Conf, Is
<1>8. \A i \in Nat : ~End(r2, i)
  BY <1>2, <1>5 DEF End, Is
<1>9. \A i \in Nat : Ask(r2, i) => Ask(r, i) /\ r2[i] = r[i]
  BY <1>2 DEF Ask, Is
<1>10. RequestsOK(q, cu, cr, ph, rq, NONE)
  BY <1>6 DEF RequestsOK
<1>11. AnswersOK(q, r2, cr, ph, rq, NONE)
  <2>1. \A i \in Nat : Ask(r2, i) => r2[i].state # EXCLUSIVE
    BY <1>9 DEF ClientOK, AnswersOK
  <2> QED BY <2>1, <1>2, <1>3, <1>7, <1>8 DEF AnswersOK
<1>12. LeaseOK(q, r2, cu, cr, ph, rq, NONE, dn)
  <2>1. \E i \in Nat : Conf(r2, i)
    BY <1>2, <1>7
  <2>2. dn # NONE => dn < rq
    BY <1>3 DEF ClientOK, LeaseOK, NONE, INVALID, SHARED, EXCLUSIVE, States
  <2> QED BY <2>1, <2>2, <1>3 DEF LeaseOK, NONE, INVALID, SHARED, EXCLUSIVE, States
<1>13. MemberOK(q, r2, ph, rq, NONE, ls, c)
  BY <1>4, <1>6, <1>8 DEF MemberOK
<1> QED BY <1>2, <1>10, <1>11, <1>12, <1>13 DEF ClientOK, r2

(* A request for a downgrade keeps the invariant of the client it is for. *)
LEMMA AskOK ==
    ASSUME NEW q, NEW r, NEW cu, NEW cr, NEW ph, NEW sc, NEW rq, NEW dn, NEW ls, NEW c, NEW m,
           Typed(q, r, cu, cr, sc, rq, dn),
           m \in ClientMsgs, m.type = "REQUEST_DOWNGRADE", m.state # EXCLUSIVE, m.state < sc,
           ClientOK(q, r, cu, cr, ph, sc, rq, dn, ls, c)
    PROVE  /\ Append(r, m) \in Seq(ClientMsgs)
           /\ ClientOK(q, Append(r, m), cu, cr, ph, sc, rq, m.state, ls, c)
<1> DEFINE r2 == Append(r, m)
<1> USE DEF Typed
<1>2. /\ r2 \in Seq(ClientMsgs) /\ r2 # <<>> /\ Len(r2) = Len(r) + 1 /\ Len(r) \in Nat
      /\ DOMAIN r2 = 1..(Len(r) + 1) /\ DOMAIN r = 1..Len(r)
      /\ \A i \in DOMAIN r : r2[i] = r[i]
      /\ r2[Len(r) + 1] = m
  BY AppendFacts
<1> HIDE DEF r2
<1>3. sc # INVALID
  BY DEF ClientMsgs, States, INVALID, SHARED, EXCLUSIVE
<1>4. InList(ls, c) /\ ph \notin {"NEW", "CLOSED"}
  BY <1>3 DEF ClientOK, MemberOK
<1>5. \A i \in Nat : ~End(r, i)
  BY <1>4 DEF ClientOK, MemberOK
<1>6. \A i \in Nat : Conf(r2, i) <=> Conf(r, i)
  BY <1>2 DEF Conf, Is
<1>7. \A i \in Nat : Conf(r, i) => r2[i] = r[i]
  BY <1>2 DEF Conf, Is
<1>8. \A i \in Nat : ~End(r2, i)
  BY <1>2, <1>5 DEF End, Is
<1>9. \A i \in Nat : Ask(r2, i) => r2[i].state # EXCLUSIVE
  <2> SUFFICES ASSUME NEW i \in Nat, Ask(r2, i) PROVE r2[i].state # EXCLUSIVE
    OBVIOUS
  <2>1. CASE i = Len(r) + 1
    BY <2>1, <1>2 DEF INVALID, SHARED, EXCLUSIVE
  <2>2. CASE i # Len(r) + 1
    <3>1. Ask(r, i) /\ r2[i] = r[i]
      BY <2>2, <1>2 DEF Ask, Is
    <3> QED BY <3>1 DEF ClientOK, AnswersOK
  <2> QED BY <2>1, <2>2
<1>11. AnswersOK(q, r2, cr, ph, sc, rq)
  BY <1>6, <1>7, <1>8, <1>9 DEF ClientOK, AnswersOK
<1>12. LeaseOK(q, r2, cu, cr, ph, sc, rq, m.state)
  BY <1>6 DEF ClientOK, LeaseOK
<1>13. MemberOK(q, r2, ph, sc, rq, ls, c)
  BY <1>4, <1>8 DEF ClientOK, MemberOK
<1> QED BY <1>2, <1>11, <1>12, <1>13 DEF ClientOK, r2

(* The server asks only for a state below the lease's. *)
LEMMA AskFacts ==
    ASSUME NEW sc \in [Clients -> States], NEW rq, NEW dn, NEW c \in Clients
    PROVE  /\ DowngradesToAsk(sc, rq, dn)[c] \in {NONE, INVALID, SHARED}
           /\ DowngradesToAsk(sc, rq, dn)[c] # NONE => DowngradesToAsk(sc, rq, dn)[c] < sc[c]
<1>1. DowngradesToAsk(sc, rq, dn)[c] =
        IF In(rq, EXCLUSIVE) # {}
        THEN IF sc[c] \in {SHARED, EXCLUSIVE} /\ dn[c] # INVALID THEN INVALID ELSE NONE
        ELSE IF In(rq, SHARED) # {} /\ sc[c] = EXCLUSIVE /\ dn[c] \notin {SHARED, INVALID}
             THEN SHARED
             ELSE NONE
  BY DEF DowngradesToAsk
<1> QED BY <1>1 DEF NONE, INVALID, SHARED, EXCLUSIVE

LeasesTyped(sc, rq, dn, d, out) ==
    /\ sc \in [Clients -> States] /\ rq \in [Clients -> {NONE, SHARED, EXCLUSIVE}]
    /\ dn \in [Clients -> {NONE, INVALID, SHARED}]
    /\ d \in Nat /\ out \in [Clients -> Seq(ClientMsgs)]

AllClientsOK(q, out, sc, rq, dn, ls) == \A c \in Clients :
    ClientOK(q[c], out[c], cur[c], creq[c], phase[c], sc[c], rq[c], dn[c], ls, c)

(* process_handle keeps the invariant of every client, if it held after    *)
(* the handler's own changes; and it keeps the exclusion of leases.        *)
LEMMA ProcessHandleOK ==
    ASSUME TypeOK, toServer' \in [Clients -> Seq(ServerMsgs)],
           NEW ls, NEW sc, NEW rq, NEW dn, NEW d, NEW out,
           LeasesTyped(sc, rq, dn, d, out), LeaseExclusion(sc),
           AllClientsOK(toServer', out, sc, rq, dn, ls),
           ProcessHandle(ls, sc, rq, dn, d, out)
    PROVE  /\ leases' = ls
           /\ sdata' = d
           /\ scur' \in [Clients -> States]
           /\ screq' \in [Clients -> {NONE, SHARED, EXCLUSIVE}]
           /\ ssreq' \in [Clients -> {NONE, INVALID, SHARED}]
           /\ toClient' \in [Clients -> Seq(ClientMsgs)]
           /\ LeaseExclusion(scur')
           /\ \A c \in Clients : ClientOK(toServer'[c], toClient'[c], cur[c], creq[c], phase[c],
                                          scur'[c], screq'[c], ssreq'[c], leases', c)
           /\ GrantsFromInvalid(sc, rq, ls)
<1>0. /\ sc \in [Clients -> States] /\ rq \in [Clients -> {NONE, SHARED, EXCLUSIVE}]
      /\ dn \in [Clients -> {NONE, INVALID, SHARED}]
      /\ d \in Nat /\ out \in [Clients -> Seq(ClientMsgs)]
      /\ \A c \in Clients : ClientOK(toServer'[c], out[c], cur[c], creq[c], phase[c],
                                     sc[c], rq[c], dn[c], ls, c)
  BY DEF LeasesTyped, AllClientsOK
<1> USE <1>0
<1> DEFINE eg  == ExclusiveGrants(sc, rq, ls)
           sg  == SharedGrants(sc, rq, ls)
           sc2 == [c \in Clients |-> IF c \in eg THEN EXCLUSIVE
                                     ELSE IF c \in sg THEN SHARED ELSE sc[c]]
           rq2 == [c \in Clients |-> IF c \in eg \cup sg THEN NONE ELSE rq[c]]
           ask == DowngradesToAsk(sc2, rq2, dn)
           dn2 == [c \in Clients |-> IF ask[c] # NONE THEN ask[c] ELSE dn[c]]
           mid(c) == IF c \in eg \cup sg
                     THEN Append(out[c], Msg("CONFIRM_UPGRADE", sc2[c], d))
                     ELSE out[c]
           out2 == [c \in Clients |->
                      IF ask[c] # NONE
                      THEN Append(mid(c), Msg("REQUEST_DOWNGRADE", ask[c], NoData))
                      ELSE mid(c)]
<1>1. leases' = ls /\ scur' = sc2 /\ screq' = rq2 /\ ssreq' = dn2 /\ sdata' = d /\ toClient' = out2
  BY DEF ProcessHandle
<1>2. /\ \A c \in Clients : c \in eg => rq[c] = EXCLUSIVE
      /\ \A c \in Clients : c \in sg => rq[c] = SHARED
      /\ LeaseExclusion(sc2)
  BY GrantFacts
<1>3. /\ sc2 \in [Clients -> States]
      /\ rq2 \in [Clients -> {NONE, SHARED, EXCLUSIVE}]
  BY DEF States
<1>4. ASSUME NEW c \in Clients
      PROVE  /\ ask[c] \in {NONE, INVALID, SHARED}
             /\ ask[c] # NONE => ask[c] < sc2[c]
  BY <1>3, AskFacts
<1>5. ASSUME NEW c \in Clients
      PROVE  sc2[c] = IF c \in eg \cup sg THEN rq[c] ELSE sc[c]
  BY <1>2 DEF SHARED, EXCLUSIVE
<1>6. GrantsFromInvalid(sc, rq, ls)
  <2> SUFFICES ASSUME NEW c \in sg, c \in Clients PROVE sc[c] = INVALID
    BY DEF GrantsFromInvalid, SharedGrants, In
  <2>1. rq[c] = SHARED
    BY <1>2
  <2>2. ClientOK(toServer'[c], out[c], cur[c], creq[c], phase[c], sc[c], rq[c], dn[c], ls, c)
    OBVIOUS
  <2>3. sc[c] < rq[c] /\ sc[c] \in States
    BY <2>1, <2>2 DEF ClientOK, LeaseOK, NONE, SHARED
  <2> QED BY <2>1, <2>3 DEF States, INVALID, SHARED, EXCLUSIVE
<1> HIDE DEF eg, sg, sc2, ask
<1>7. ASSUME NEW c \in Clients
      PROVE  /\ mid(c) \in Seq(ClientMsgs)
             /\ ClientOK(toServer'[c], mid(c), cur[c], creq[c], phase[c],
                         sc2[c], rq2[c], dn[c], ls, c)
  <2>1. ClientOK(toServer'[c], out[c], cur[c], creq[c], phase[c], sc[c], rq[c], dn[c], ls, c)
    OBVIOUS
  <2>2. cur[c] \in States /\ creq[c] \in {NONE, SHARED, EXCLUSIVE} /\ toServer'[c] \in Seq(ServerMsgs)
    BY DEF TypeOK
  <2>3. CASE c \in eg \cup sg
    <3>1. rq[c] \in {SHARED, EXCLUSIVE} /\ sc2[c] = rq[c] /\ rq2[c] = NONE
      BY <2>3, <1>2, <1>5
    <3>2. mid(c) = Append(out[c], Msg("CONFIRM_UPGRADE", rq[c], d))
      BY <2>3, <3>1
    <3> DEFINE m == Msg("CONFIRM_UPGRADE", rq[c], d)
    <3>3. m \in ClientMsgs /\ m.type = "CONFIRM_UPGRADE" /\ m.state = rq[c] /\ rq[c] # NONE
      BY <3>1 DEF Msg, ClientMsgs, States, NONE, SHARED, EXCLUSIVE
    <3> HIDE DEF m, rq2, mid
    <3>4. Typed(toServer'[c], out[c], cur[c], creq[c], sc[c], rq[c], dn[c])
      BY <2>2 DEF Typed
    <3>5. /\ Append(out[c], m) \in Seq(ClientMsgs)
          /\ ClientOK(toServer'[c], Append(out[c], m), cur[c], creq[c], phase[c],
                      rq[c], NONE, dn[c], ls, c)
      BY <2>1, <3>3, <3>4, GrantOK
    <3> QED BY <3>1, <3>2, <3>5 DEF m
  <2>4. CASE c \notin eg \cup sg
    <3>1. sc2[c] = sc[c] /\ rq2[c] = rq[c] /\ mid(c) = out[c]
      BY <2>4, <1>5
    <3> QED BY <2>1, <3>1
  <2> QED BY <2>3, <2>4
<1> HIDE DEF mid, rq2
<1>8. ASSUME NEW c \in Clients
      PROVE  /\ out2[c] \in Seq(ClientMsgs)
             /\ ClientOK(toServer'[c], out2[c], cur[c], creq[c], phase[c],
                         sc2[c], rq2[c], dn2[c], ls, c)
  <2>1. cur[c] \in States /\ creq[c] \in {NONE, SHARED, EXCLUSIVE} /\ toServer'[c] \in Seq(ServerMsgs)
    BY DEF TypeOK
  <2>2. CASE ask[c] # NONE
    <3>1. ask[c] \in {INVALID, SHARED} /\ ask[c] < sc2[c] /\ dn2[c] = ask[c]
          /\ out2[c] = Append(mid(c), Msg("REQUEST_DOWNGRADE", ask[c], NoData))
      BY <2>2, <1>4
    <3> DEFINE m == Msg("REQUEST_DOWNGRADE", ask[c], NoData)
    <3>2. /\ m \in ClientMsgs /\ m.type = "REQUEST_DOWNGRADE"
          /\ m.state = ask[c] /\ m.state # EXCLUSIVE /\ m.state < sc2[c]
      BY <3>1 DEF Msg, ClientMsgs, States, NoData, INVALID, SHARED, EXCLUSIVE
    <3> HIDE DEF m, dn2, out2
    <3>3. Typed(toServer'[c], mid(c), cur[c], creq[c], sc2[c], rq2[c], dn[c])
      BY <2>1, <1>3, <1>7 DEF Typed
    <3>4. /\ Append(mid(c), m) \in Seq(ClientMsgs)
          /\ ClientOK(toServer'[c], Append(mid(c), m), cur[c], creq[c], phase[c],
                      sc2[c], rq2[c], m.state, ls, c)
      BY <1>7, <3>2, <3>3, AskOK
    <3> QED BY <3>1, <3>2, <3>4 DEF m
  <2>3. CASE ask[c] = NONE
    BY <2>3, <1>7
  <2> QED BY <2>2, <2>3
<1>9. dn2 \in [Clients -> {NONE, INVALID, SHARED}]
  BY <1>4
<1>10. out2 \in [Clients -> Seq(ClientMsgs)]
  BY <1>8
<1> QED BY <1>1, <1>2, <1>3, <1>6, <1>8, <1>9, <1>10

-----------------------------------------------------------------------------
(* Sending and taking messages *)

(* Where the messages of a stream are after one more was sent. *)
LEMMA AppendIs ==
    ASSUME NEW S, NEW s \in Seq(S), NEW m \in S
    PROVE  /\ \A i \in Nat : \A t : Is(Append(s, m), i, t) <=>
                                   Is(s, i, t) \/ (i = Len(s) + 1 /\ m.type = t)
           /\ \A i \in Nat : \A t : Is(s, i, t) => Append(s, m)[i] = s[i] /\ i >= 1 /\ i <= Len(s)
           /\ Append(s, m)[Len(s) + 1] = m
           /\ Len(Append(s, m)) = Len(s) + 1
           /\ Len(s) \in Nat
           /\ Append(s, m) \in Seq(S)
           /\ s # <<>> => Is(s, 1, s[1].type) /\ s[1] \in S
<1>1. /\ Append(s, m) \in Seq(S)
      /\ Len(Append(s, m)) = Len(s) + 1
      /\ DOMAIN Append(s, m) = 1..(Len(s) + 1)
      /\ \A i \in DOMAIN s : Append(s, m)[i] = s[i]
      /\ Append(s, m)[Len(s) + 1] = m
  BY AppendFacts
<1>2. DOMAIN s = 1..Len(s) /\ Len(s) \in Nat
  OBVIOUS
<1>3. ASSUME NEW i \in Nat, NEW t
      PROVE  Is(Append(s, m), i, t) <=> Is(s, i, t) \/ (i = Len(s) + 1 /\ m.type = t)
  <2>1. CASE i \in 1..Len(s)
    BY <2>1, <1>1, <1>2 DEF Is
  <2>2. CASE i = Len(s) + 1
    BY <2>2, <1>1, <1>2 DEF Is
  <2>3. CASE i \notin 1..(Len(s) + 1)
    BY <2>3, <1>1, <1>2 DEF Is
  <2> QED BY <2>1, <2>2, <2>3, <1>2
<1>4. ASSUME NEW i \in Nat, NEW t, Is(s, i, t)
      PROVE  Append(s, m)[i] = s[i] /\ i >= 1 /\ i <= Len(s)
  BY <1>4, <1>1, <1>2 DEF Is
<1>5. s # <<>> => Is(s, 1, s[1].type) /\ s[1] \in S
  BY <1>2 DEF Is
<1> QED BY <1>1, <1>2, <1>3, <1>4, <1>5

(* Where the messages of a stream are after the first was taken. *)
LEMMA TailIs ==
    ASSUME NEW S, NEW s \in Seq(S), s # <<>>
    PROVE  /\ \A i \in Nat : \A t : Is(Tail(s), i, t) => /\ Is(s, i + 1, t)
                                                     /\ Tail(s)[i] = s[i + 1]
                                                     /\ i >= 1
           /\ \A i \in Nat : \A t : Is(s, i, t) /\ i # 1 => /\ i - 1 \in Nat
                                                        /\ Is(Tail(s), i - 1, t)
                                                        /\ Tail(s)[i - 1] = s[i]
           /\ \A i \in Nat : \A t : Is(s, i, t) => i >= 1 /\ i <= Len(s)
           /\ Is(s, 1, Head(s).type) /\ Head(s) = s[1] /\ Head(s) \in S
           /\ Tail(s) \in Seq(S)
           /\ Len(Tail(s)) = Len(s) - 1
           /\ Len(s) \in Nat
           /\ Len(s) = 1 => Tail(s) = <<>>
<1>1. /\ Head(s) \in S /\ Head(s) = s[1]
      /\ Tail(s) \in Seq(S)
      /\ Len(s) \in Nat \ {0}
      /\ DOMAIN s = 1..Len(s)
      /\ Len(Tail(s)) = Len(s) - 1
      /\ DOMAIN Tail(s) = 1..(Len(s) - 1)
      /\ \A i \in DOMAIN Tail(s) : Tail(s)[i] = s[i + 1]
  BY TailFacts
<1>2. ASSUME NEW i \in Nat, NEW t, Is(Tail(s), i, t)
      PROVE  Is(s, i + 1, t) /\ Tail(s)[i] = s[i + 1] /\ i >= 1
  BY <1>1, <1>2 DEF Is
<1>3. ASSUME NEW i \in Nat, NEW t, Is(s, i, t), i # 1
      PROVE  i - 1 \in Nat /\ Is(Tail(s), i - 1, t) /\ Tail(s)[i - 1] = s[i]
  <2>1. i - 1 \in 1..(Len(s) - 1) /\ (i - 1) + 1 = i
    BY <1>3, <1>1 DEF Is
  <2>2. Tail(s)[i - 1] = s[i]
    BY <2>1, <1>1
  <2> QED BY <2>1, <2>2, <1>3, <1>1 DEF Is
<1>4. ASSUME NEW i \in Nat, NEW t, Is(s, i, t) PROVE i >= 1 /\ i <= Len(s)
  BY <1>4, <1>1 DEF Is
<1>5. Is(s, 1, Head(s).type)
  BY <1>1 DEF Is
<1>6. Len(s) = 1 => Tail(s) = <<>>
  BY <1>1
<1> QED BY <1>1, <1>2, <1>3, <1>4, <1>5, <1>6

(* What is in the streams of a client that waits for no upgrade. *)
LEMMA NoRequest ==
    ASSUME NEW q, NEW r, NEW cu, NEW ph, NEW sc, NEW rq, NEW dn, NEW ls, NEW c,
           Typed(q, r, cu, NONE, sc, rq, dn),
           ClientOK(q, r, cu, NONE, ph, sc, rq, dn, ls, c)
    PROVE  /\ rq = NONE
           /\ \A i \in Nat : ~Up(q, i) /\ ~Conf(r, i)
           /\ ph # "CLOSING" => \A i \in Nat : ~Close(q, i) /\ ~End(r, i)
<1>1. rq = NONE
  BY DEF ClientOK, LeaseOK
<1>2. ASSUME NEW i \in Nat, Up(q, i) PROVE FALSE
  <2>1. q[i] \in ServerMsgs /\ q[i].state = NONE
    BY <1>2 DEF ClientOK, RequestsOK, Typed, Up, Is
  <2> QED BY <2>1 DEF ServerMsgs, States, NONE, INVALID, SHARED, EXCLUSIVE
<1>3. ASSUME NEW i \in Nat, Conf(r, i) PROVE FALSE
  <2>1. r[i] \in ClientMsgs /\ r[i].state = NONE
    BY <1>3 DEF ClientOK, AnswersOK, Typed, Conf, Is
  <2> QED BY <2>1 DEF ClientMsgs, States, NONE, INVALID, SHARED, EXCLUSIVE
<1>4. ph # "CLOSING" => \A i \in Nat : ~Close(q, i) /\ ~End(r, i)
  BY DEF ClientOK, RequestsOK, AnswersOK
<1> QED BY <1>1, <1>2, <1>3, <1>4

(* sync_lock sends REQUEST_UPGRADE. *)
LEMMA SendUp ==
    ASSUME NEW q, NEW r, NEW cu, NEW ph, NEW sc, NEW rq, NEW dn, NEW ls, NEW c, NEW m,
           Typed(q, r, cu, NONE, sc, rq, dn),
           ClientOK(q, r, cu, NONE, ph, sc, rq, dn, ls, c),
           ph \in {"NEW", "OPEN"}, ph = "NEW" => cu = INVALID,
           m \in ServerMsgs, m.type = "REQUEST_UPGRADE"
    PROVE  /\ Append(q, m) \in Seq(ServerMsgs)
           /\ ClientOK(Append(q, m), r, cu, m.state, "OPEN", sc, rq, dn, ls, c)
<1> DEFINE q2 == Append(q, m)
<1>1. /\ \A i \in Nat : \A t : Is(q2, i, t) <=> Is(q, i, t) \/ (i = Len(q) + 1 /\ m.type = t)
      /\ \A i \in Nat : \A t : Is(q, i, t) => q2[i] = q[i] /\ i >= 1 /\ i <= Len(q)
      /\ q2[Len(q) + 1] = m /\ Len(q2) = Len(q) + 1 /\ Len(q) \in Nat
      /\ q2 \in Seq(ServerMsgs)
  BY AppendIs DEF Typed
<1> HIDE DEF q2
<1>2. rq = NONE /\ \A i \in Nat : ~Up(q, i) /\ ~Conf(r, i) /\ ~Close(q, i) /\ ~End(r, i)
  BY NoRequest
<1>3. \A i \in Nat : /\ Up(q2, i) <=> i = Len(q) + 1
                     /\ ~Close(q2, i)
                     /\ Down(q2, i) <=> Down(q, i)
                     /\ Down(q, i) => q2[i] = q[i]
  BY <1>1, <1>2 DEF Up, Down, Close
<1>4. RequestsOK(q2, cu, m.state, "OPEN", sc, rq)
  BY <1>1, <1>2, <1>3 DEF ClientOK, RequestsOK
<1>5. AnswersOK(q2, r, m.state, "OPEN", sc, rq)
  BY <1>2 DEF ClientOK, AnswersOK
<1>6. LeaseOK(q2, r, cu, m.state, "OPEN", sc, rq, dn)
  <2>1. CASE ph = "NEW"
    <3>1. sc = INVALID
      BY <2>1 DEF ClientOK, MemberOK
    <3> QED BY <2>1, <3>1, <1>2 DEF ClientOK, LeaseOK
  <2>2. CASE ph = "OPEN"
    BY <2>2, <1>2, <1>3 DEF ClientOK, LeaseOK
  <2> QED BY <2>1, <2>2
<1>7. MemberOK(q2, r, "OPEN", sc, rq, ls, c)
  BY <1>1, <1>2, <1>3 DEF ClientOK, MemberOK
<1> QED BY <1>1, <1>4, <1>5, <1>6, <1>7 DEF ClientOK, q2

(* sync_downgrade sends CONFIRM_DOWNGRADE. *)
LEMMA SendDown ==
    ASSUME NEW q, NEW r, NEW cu, NEW sc, NEW rq, NEW dn, NEW ls, NEW c, NEW m,
           Typed(q, r, cu, NONE, sc, rq, dn),
           ClientOK(q, r, cu, NONE, "OPEN", sc, rq, dn, ls, c),
           m \in ServerMsgs, m.type = "CONFIRM_DOWNGRADE", m.state < cu,
           m.data = NoData \/ cu = EXCLUSIVE
    PROVE  /\ Append(q, m) \in Seq(ServerMsgs)
           /\ ClientOK(Append(q, m), r, m.state, NONE, "OPEN", sc, rq, dn, ls, c)
<1> DEFINE q2 == Append(q, m)
<1>1. /\ \A i \in Nat : \A t : Is(q2, i, t) <=> Is(q, i, t) \/ (i = Len(q) + 1 /\ m.type = t)
      /\ \A i \in Nat : \A t : Is(q, i, t) => q2[i] = q[i] /\ i >= 1 /\ i <= Len(q)
      /\ q2[Len(q) + 1] = m /\ Len(q2) = Len(q) + 1 /\ Len(q) \in Nat
      /\ q2 \in Seq(ServerMsgs)
      /\ q # <<>> => Is(q, 1, q[1].type) /\ q[1] \in ServerMsgs
  BY AppendIs DEF Typed
<1> HIDE DEF q2
<1>2. rq = NONE /\ \A i \in Nat : ~Up(q, i) /\ ~Conf(r, i) /\ ~Close(q, i) /\ ~End(r, i)
  BY NoRequest
<1>3. \A i \in Nat : /\ Down(q2, i) <=> Down(q, i) \/ i = Len(q) + 1
                     /\ Down(q, i) => q2[i] = q[i] /\ i <= Len(q)
                     /\ ~Close(q2, i) /\ ~Up(q2, i)
  BY <1>1, <1>2 DEF Up, Down, Close
<1>4. m.state \in States /\ cu \in States /\ sc \in States /\ cu <= sc
  BY DEF Typed, ServerMsgs, ClientOK, LeaseOK
<1>5. \A i \in Nat : Down(q, i) => /\ cu <= q[i].state /\ q[i].state < sc /\ q[i].state \in States
                                   /\ q[i].data = NoData \/ (i = 1 /\ sc = EXCLUSIVE)
  <2>1. ASSUME NEW i \in Nat, Down(q, i) PROVE q[i].state \in States
    <3>1. q[i] \in ServerMsgs
      BY <2>1 DEF Typed, Down, Is
    <3> QED BY <3>1 DEF ServerMsgs
  <2> QED BY <2>1 DEF ClientOK, RequestsOK
<1>6. cu = EXCLUSIVE => q = <<>> /\ sc = EXCLUSIVE
  <2> SUFFICES ASSUME cu = EXCLUSIVE PROVE q = <<>> /\ sc = EXCLUSIVE
    OBVIOUS
  <2>1. sc = EXCLUSIVE
    BY <1>4 DEF States, INVALID, SHARED, EXCLUSIVE
  <2>2. \A i \in Nat : ~Down(q, i)
    BY <2>1, <1>5 DEF States, INVALID, SHARED, EXCLUSIVE
  <2>3. ~Down(q, 1) /\ ~Up(q, 1) /\ ~Close(q, 1)
    BY <2>2, <1>2
  <2>4. q # <<>> => FALSE
    BY <2>3, <1>1 DEF Up, Down, Close, Is, ServerMsgs
  <2> QED BY <2>1, <2>4
<1>7. RequestsOK(q2, m.state, NONE, "OPEN", sc, rq)
  <2>1. ASSUME NEW i \in Nat, Down(q2, i)
        PROVE  /\ m.state <= q2[i].state
               /\ q2[i].state < sc
               /\ q2[i].data = NoData \/ (i = 1 /\ sc = EXCLUSIVE)
    <3>1. CASE Down(q, i)
      BY <3>1, <1>3, <1>4, <1>5 DEF States, INVALID, SHARED, EXCLUSIVE
    <3>2. CASE i = Len(q) + 1
      <4>1. m.state <= m.state /\ m.state < sc
        BY <1>4 DEF States, INVALID, SHARED, EXCLUSIVE
      <4>2. m.data = NoData \/ (i = 1 /\ sc = EXCLUSIVE)
        BY <3>2, <1>6
      <4> QED BY <3>2, <4>1, <4>2, <1>1
    <3> QED BY <3>1, <3>2, <2>1, <1>3
  <2>2. ASSUME NEW i \in Nat, NEW j \in Nat, Down(q2, i), Down(q2, j), i < j
        PROVE  q2[j].state < q2[i].state
    <3>1. Down(q, i)
      BY <2>2, <1>1, <1>3
    <3>2. CASE Down(q, j)
      BY <3>1, <3>2, <2>2, <1>3 DEF ClientOK, RequestsOK
    <3>3. CASE j = Len(q) + 1
      <4>1. q2[j].state = m.state /\ q2[i].state = q[i].state
        BY <3>1, <3>3, <1>1, <1>3
      <4> QED BY <4>1, <3>1, <1>4, <1>5 DEF States, INVALID, SHARED, EXCLUSIVE
    <3> QED BY <3>2, <3>3, <2>2, <1>3
  <2> QED BY <2>1, <2>2, <1>3 DEF RequestsOK
<1>8. AnswersOK(q2, r, NONE, "OPEN", sc, rq)
  BY <1>2 DEF ClientOK, AnswersOK
<1>9. LeaseOK(q2, r, m.state, NONE, "OPEN", sc, rq, dn)
  <2>1. m.state <= sc
    BY <1>4 DEF States, INVALID, SHARED, EXCLUSIVE
  <2>2. \E i \in Nat : Down(q2, i) /\ q2[i].state = m.state
    BY <1>1, <1>3
  <2> QED BY <2>1, <2>2, <1>2 DEF ClientOK, LeaseOK
<1>10. MemberOK(q2, r, "OPEN", sc, rq, ls, c)
  BY <1>2, <1>3 DEF ClientOK, MemberOK
<1> QED BY <1>1, <1>7, <1>8, <1>9, <1>10 DEF ClientOK, q2

(* sync_destroy and shutdown_sync_client send REQUEST_CLOSE. *)
LEMMA SendClose ==
    ASSUME NEW q, NEW r, NEW cu, NEW sc, NEW rq, NEW dn, NEW ls, NEW c, NEW m,
           Typed(q, r, cu, NONE, sc, rq, dn),
           ClientOK(q, r, cu, NONE, "OPEN", sc, rq, dn, ls, c),
           m \in ServerMsgs, m.type = "REQUEST_CLOSE", m.data = NoData \/ m.state = EXCLUSIVE
    PROVE  /\ Append(q, m) \in Seq(ServerMsgs)
           /\ ClientOK(Append(q, m), r, INVALID, NONE, "CLOSING", sc, rq, dn, ls, c)
<1> DEFINE q2 == Append(q, m)
<1>1. /\ \A i \in Nat : \A t : Is(q2, i, t) <=> Is(q, i, t) \/ (i = Len(q) + 1 /\ m.type = t)
      /\ \A i \in Nat : \A t : Is(q, i, t) => q2[i] = q[i] /\ i >= 1 /\ i <= Len(q)
      /\ q2[Len(q) + 1] = m /\ Len(q2) = Len(q) + 1 /\ Len(q) \in Nat
      /\ q2 \in Seq(ServerMsgs)
  BY AppendIs DEF Typed
<1> HIDE DEF q2
<1>2. rq = NONE /\ \A i \in Nat : ~Up(q, i) /\ ~Conf(r, i) /\ ~Close(q, i) /\ ~End(r, i)
  BY NoRequest
<1>3. \A i \in Nat : /\ Down(q2, i) <=> Down(q, i)
                     /\ Down(q, i) => q2[i] = q[i] /\ q[i].state \in States
                     /\ Close(q2, i) <=> i = Len(q) + 1
                     /\ ~Up(q2, i)
  <2>1. ASSUME NEW i \in Nat, Down(q, i) PROVE q[i].state \in States
    <3>1. q[i] \in ServerMsgs
      BY <2>1 DEF Typed, Down, Is
    <3> QED BY <3>1 DEF ServerMsgs
  <2> QED BY <2>1, <1>1, <1>2 DEF Up, Down, Close
<1>4. RequestsOK(q2, INVALID, NONE, "CLOSING", sc, rq)
  <2>1. \A i \in Nat : Down(q2, i) => INVALID <= q2[i].state
    BY <1>3 DEF States, INVALID, SHARED, EXCLUSIVE
  <2> QED BY <2>1, <1>1, <1>3 DEF ClientOK, RequestsOK
<1>5. AnswersOK(q2, r, NONE, "CLOSING", sc, rq)
  BY <1>2 DEF ClientOK, AnswersOK
<1>6. LeaseOK(q2, r, INVALID, NONE, "CLOSING", sc, rq, dn)
  <2>1. INVALID <= sc
    BY DEF Typed, States, INVALID, SHARED, EXCLUSIVE
  <2> QED BY <2>1, <1>2 DEF ClientOK, LeaseOK
<1>7. MemberOK(q2, r, "CLOSING", sc, rq, ls, c)
  BY <1>2 DEF ClientOK, MemberOK
<1> QED BY <1>1, <1>4, <1>5, <1>6, <1>7 DEF ClientOK, q2

(* The client takes a REQUEST_DOWNGRADE. *)
LEMMA TakeAsk ==
    ASSUME NEW q, NEW r, NEW cu, NEW cr, NEW ph, NEW sc, NEW rq, NEW dn, NEW ls, NEW c,
           Typed(q, r, cu, cr, sc, rq, dn),
           ClientOK(q, r, cu, cr, ph, sc, rq, dn, ls, c),
           r # <<>>, Head(r).type = "REQUEST_DOWNGRADE"
    PROVE  /\ Tail(r) \in Seq(ClientMsgs)
           /\ Head(r).state \in {INVALID, SHARED}
           /\ ClientOK(q, Tail(r), cu, cr, ph, sc, rq, dn, ls, c)
<1> DEFINE r2 == Tail(r)
<1>1. /\ \A i \in Nat : \A t : Is(r2, i, t) => Is(r, i + 1, t) /\ r2[i] = r[i + 1] /\ i >= 1
      /\ \A i \in Nat : \A t : Is(r, i, t) /\ i # 1 => /\ i - 1 \in Nat
                                                   /\ Is(r2, i - 1, t)
                                                   /\ r2[i - 1] = r[i]
      /\ Is(r, 1, "REQUEST_DOWNGRADE") /\ Head(r) = r[1] /\ Head(r) \in ClientMsgs
      /\ r2 \in Seq(ClientMsgs)
      /\ Len(r2) = Len(r) - 1 /\ Len(r) \in Nat
  BY TailIs DEF Typed
<1> HIDE DEF r2
<1>2. Head(r).state \in {INVALID, SHARED}
  <2>1. Head(r).state # EXCLUSIVE /\ Head(r).state \in States
    BY <1>1 DEF ClientOK, AnswersOK, Ask, ClientMsgs
  <2> QED BY <2>1 DEF States
<1>3. ~Conf(r, 1)
  BY <1>1 DEF Conf, Is
<1>4. \A i \in Nat : Conf(r2, i) => Conf(r, i + 1) /\ r2[i] = r[i + 1] /\ i + 1 \in Nat
  BY <1>1 DEF Conf
<1>5. (\E i \in Nat : Conf(r, i)) => \E i \in Nat : Conf(r2, i)
  BY <1>1, <1>3 DEF Conf
<1>6. \A i \in Nat : End(r2, i) => End(r, i + 1) /\ i + 1 \in Nat
  BY <1>1 DEF End
<1>7. \A i \in Nat : Ask(r2, i) => Ask(r, i + 1) /\ r2[i] = r[i + 1] /\ i + 1 \in Nat
  BY <1>1 DEF Ask
<1>8. AnswersOK(q, r2, cr, ph, sc, rq)
  <2>1. ASSUME NEW i \in Nat, Conf(r2, i)
        PROVE  /\ cr = r2[i].state /\ sc = r2[i].state /\ rq = NONE /\ q = <<>>
               /\ \A j \in Nat : Conf(r2, j) => j = i
    <3>1. /\ cr = r2[i].state /\ sc = r2[i].state /\ rq = NONE /\ q = <<>>
          /\ \A j \in Nat : Conf(r, j) => j = i + 1
      BY <2>1, <1>4 DEF ClientOK, AnswersOK
    <3>2. ASSUME NEW j \in Nat, Conf(r2, j) PROVE j = i
      BY <3>1, <3>2, <1>4
    <3> QED BY <3>1, <3>2
  <2>2. ASSUME NEW i \in Nat, End(r2, i) PROVE i = Len(r2) /\ ph = "CLOSING" /\ q = <<>>
    <3>1. i + 1 = Len(r) /\ ph = "CLOSING" /\ q = <<>>
      BY <2>2, <1>6 DEF ClientOK, AnswersOK
    <3> QED BY <3>1, <1>1
  <2>3. ASSUME NEW i \in Nat, Ask(r2, i) PROVE r2[i].state # EXCLUSIVE
    BY <2>3, <1>7 DEF ClientOK, AnswersOK
  <2> QED BY <2>1, <2>2, <2>3 DEF AnswersOK
<1>9. LeaseOK(q, r2, cu, cr, ph, sc, rq, dn)
  BY <1>5 DEF ClientOK, LeaseOK
<1>10. MemberOK(q, r2, ph, sc, rq, ls, c)
  <2>1. \A i \in Nat : End(r2, i) => ~InList(ls, c)
    BY <1>6 DEF ClientOK, MemberOK
  <2>2. ph \notin {"NEW", "CLOSED"}
    BY DEF ClientOK, MemberOK
  <2> QED BY <2>1, <2>2 DEF ClientOK, MemberOK
<1> QED BY <1>1, <1>2, <1>8, <1>9, <1>10 DEF ClientOK, r2

(* The client takes a CONFIRM_UPGRADE. *)
LEMMA TakeConf ==
    ASSUME NEW q, NEW r, NEW cu, NEW cr, NEW ph, NEW sc, NEW rq, NEW dn, NEW ls, NEW c,
           Typed(q, r, cu, cr, sc, rq, dn),
           ClientOK(q, r, cu, cr, ph, sc, rq, dn, ls, c),
           r # <<>>, Head(r).type = "CONFIRM_UPGRADE"
    PROVE  /\ Tail(r) \in Seq(ClientMsgs)
           /\ Head(r).state = cr
           /\ Head(r).state = sc
           /\ Head(r).data \in Nat
           /\ ClientOK(q, Tail(r), sc, NONE, ph, sc, rq, dn, ls, c)
<1> DEFINE r2 == Tail(r)
<1>1. /\ \A i \in Nat : \A t : Is(r2, i, t) => Is(r, i + 1, t) /\ r2[i] = r[i + 1] /\ i >= 1
      /\ Is(r, 1, "CONFIRM_UPGRADE") /\ Head(r) = r[1] /\ Head(r) \in ClientMsgs
      /\ r2 \in Seq(ClientMsgs)
      /\ Len(r2) = Len(r) - 1 /\ Len(r) \in Nat
  BY TailIs DEF Typed
<1> HIDE DEF r2
<1>2. Conf(r, 1)
  BY <1>1 DEF Conf
<1>3. /\ cr = Head(r).state /\ sc = Head(r).state /\ rq = NONE /\ q = <<>>
      /\ \A j \in Nat : Conf(r, j) => j = 1
  BY <1>1, <1>2 DEF ClientOK, AnswersOK
<1>4. \A i \in Nat : ~Conf(r2, i)
  BY <1>1, <1>3 DEF Conf
<1>5. \A i \in Nat : End(r2, i) => End(r, i + 1) /\ i + 1 \in Nat
  BY <1>1 DEF End
<1>6. \A i \in Nat : Ask(r2, i) => Ask(r, i + 1) /\ r2[i] = r[i + 1] /\ i + 1 \in Nat
  BY <1>1 DEF Ask
<1>7. \A i \in Nat : ~Up(q, i) /\ ~Down(q, i) /\ ~Close(q, i)
  BY <1>3 DEF Up, Down, Close, Is
<1>8. RequestsOK(q, sc, NONE, ph, sc, rq)
  BY <1>7 DEF RequestsOK
<1>9. AnswersOK(q, r2, NONE, ph, sc, rq)
  <2>1. ASSUME NEW i \in Nat, End(r2, i) PROVE i = Len(r2) /\ ph = "CLOSING"
    <3>1. i + 1 = Len(r) /\ ph = "CLOSING"
      BY <2>1, <1>5 DEF ClientOK, AnswersOK
    <3> QED BY <3>1, <1>1
  <2>2. ASSUME NEW i \in Nat, Ask(r2, i) PROVE r2[i].state # EXCLUSIVE
    BY <2>2, <1>6 DEF ClientOK, AnswersOK
  <2> QED BY <2>1, <2>2, <1>3, <1>4 DEF AnswersOK
<1>10. LeaseOK(q, r2, sc, NONE, ph, sc, rq, dn)
  <2>1. sc <= sc
    BY DEF Typed, States, INVALID, SHARED, EXCLUSIVE
  <2> QED BY <2>1, <1>3 DEF ClientOK, LeaseOK
<1>11. MemberOK(q, r2, ph, sc, rq, ls, c)
  <2>1. \A i \in Nat : End(r2, i) => ~InList(ls, c)
    BY <1>5 DEF ClientOK, MemberOK
  <2>2. ph \notin {"NEW", "CLOSED"}
    BY DEF ClientOK, MemberOK
  <2> QED BY <2>1, <2>2 DEF ClientOK, MemberOK
<1>12. Head(r).data \in Nat
  BY <1>1 DEF ClientMsgs
<1> QED BY <1>1, <1>3, <1>8, <1>9, <1>10, <1>11, <1>12 DEF ClientOK, r2

(* The client takes a CONFIRM_CLOSE. *)
LEMMA TakeEnd ==
    ASSUME NEW q, NEW r, NEW cu, NEW cr, NEW ph, NEW sc, NEW rq, NEW dn, NEW ls, NEW c,
           Typed(q, r, cu, cr, sc, rq, dn),
           ClientOK(q, r, cu, cr, ph, sc, rq, dn, ls, c),
           r # <<>>, Head(r).type = "CONFIRM_CLOSE"
    PROVE  /\ Tail(r) = <<>>
           /\ ph = "CLOSING"
           /\ ClientOK(q, <<>>, cu, cr, "CLOSED", sc, rq, dn, ls, c)
<1>1. /\ Is(r, 1, "CONFIRM_CLOSE") /\ Len(r) = 1 => Tail(r) = <<>>
  BY TailIs DEF Typed
<1>2. End(r, 1)
  BY TailIs DEF Typed, End
<1>3. 1 = Len(r) /\ ph = "CLOSING" /\ q = <<>> /\ ~InList(ls, c)
  BY <1>2 DEF ClientOK, AnswersOK, MemberOK
<1>4. \A i \in Nat : ~Up(q, i) /\ ~Down(q, i) /\ ~Close(q, i)
  BY <1>3 DEF Up, Down, Close, Is
<1>5. \A i \in Nat : ~Conf(<<>>, i) /\ ~Ask(<<>>, i) /\ ~End(<<>>, i)
  BY DEF Conf, Ask, End, Is
<1>6. RequestsOK(q, cu, cr, "CLOSED", sc, rq)
  BY <1>4 DEF RequestsOK
<1>7. AnswersOK(q, <<>>, cr, "CLOSED", sc, rq)
  BY <1>5 DEF AnswersOK
<1>8. LeaseOK(q, <<>>, cu, cr, "CLOSED", sc, rq, dn)
  BY DEF ClientOK, LeaseOK
<1>9. MemberOK(q, <<>>, "CLOSED", sc, rq, ls, c)
  BY <1>3, <1>4, <1>5 DEF ClientOK, MemberOK
<1>10. Tail(r) = <<>>
  BY <1>1, <1>2, <1>3 DEF End
<1> QED BY <1>3, <1>6, <1>7, <1>8, <1>9, <1>10 DEF ClientOK

(* The server takes a REQUEST_UPGRADE; ls2 is the list with the lease at   *)
(* its end.                                                                *)
LEMMA ServeUp ==
    ASSUME NEW q, NEW r, NEW cu, NEW cr, NEW ph, NEW sc, NEW rq, NEW dn, NEW ls, NEW ls2, NEW c,
           Typed(q, r, cu, cr, sc, rq, dn),
           ClientOK(q, r, cu, cr, ph, sc, rq, dn, ls, c),
           cr # NONE => ph = "OPEN" /\ cu < cr,
           InList(ls2, c),
           q # <<>>, Head(q).type = "REQUEST_UPGRADE"
    PROVE  /\ Tail(q) \in Seq(ServerMsgs)
           /\ Head(q).state \in {SHARED, EXCLUSIVE}
           /\ sc < Head(q).state
           /\ ClientOK(Tail(q), r, cu, cr, ph, sc, Head(q).state, dn, ls2, c)
<1>1. /\ Is(q, 1, "REQUEST_UPGRADE") /\ Head(q) = q[1] /\ Head(q) \in ServerMsgs
      /\ Tail(q) \in Seq(ServerMsgs)
      /\ Len(q) = 1 => Tail(q) = <<>>
      /\ \A i \in Nat : \A t : Is(q, i, t) => i >= 1 /\ i <= Len(q)
  BY TailIs DEF Typed
<1>2. Up(q, 1)
  BY <1>1 DEF Up
<1>3. 1 = Len(q) /\ cr = Head(q).state /\ rq = NONE
  BY <1>1, <1>2 DEF ClientOK, RequestsOK
<1>4. Tail(q) = <<>>
  BY <1>1, <1>3
<1>5. Head(q).state \in States
  BY <1>1 DEF ServerMsgs
<1>6. cr # NONE /\ ph = "OPEN" /\ cu < cr /\ cr \in {SHARED, EXCLUSIVE}
  BY <1>3, <1>5 DEF Typed, States, NONE, INVALID, SHARED, EXCLUSIVE
<1>7. \A i \in Nat : ~Down(q, i)
  BY <1>1, <1>3 DEF Down, Is
<1>8. \A i \in Nat : ~Conf(r, i) /\ ~End(r, i)
  BY <1>6 DEF ClientOK, AnswersOK
<1>9. sc = cu
  BY <1>6, <1>7, <1>8 DEF ClientOK, LeaseOK
<1>10. \A i \in Nat : ~Up(<<>>, i) /\ ~Down(<<>>, i) /\ ~Close(<<>>, i)
  BY DEF Up, Down, Close, Is
<1>11. RequestsOK(<<>>, cu, cr, ph, sc, cr)
  BY <1>10 DEF RequestsOK
<1>12. AnswersOK(<<>>, r, cr, ph, sc, cr)
  BY <1>8 DEF ClientOK, AnswersOK
<1>13. LeaseOK(<<>>, r, cu, cr, ph, sc, cr, dn)
  BY <1>6, <1>9 DEF ClientOK, LeaseOK
<1>14. MemberOK(<<>>, r, ph, sc, cr, ls2, c)
  BY <1>6, <1>8, <1>10 DEF MemberOK
<1> QED BY <1>1, <1>3, <1>4, <1>6, <1>9, <1>11, <1>12, <1>13, <1>14 DEF ClientOK

(* The server takes a CONFIRM_DOWNGRADE. *)
LEMMA ServeDown ==
    ASSUME NEW q, NEW r, NEW cu, NEW cr, NEW ph, NEW sc, NEW rq, NEW dn, NEW dn2, NEW ls, NEW c,
           Typed(q, r, cu, cr, sc, rq, dn),
           ClientOK(q, r, cu, cr, ph, sc, rq, dn, ls, c),
           q # <<>>, Head(q).type = "CONFIRM_DOWNGRADE",
           dn2 = IF Head(q).state <= dn THEN NONE ELSE dn
    PROVE  /\ Tail(q) \in Seq(ServerMsgs)
           /\ Head(q).state \in States
           /\ Head(q).data \in Nat
           /\ Head(q).state < sc
           /\ InList(ls, c)
           /\ Head(q).data = NoData \/ sc = EXCLUSIVE
           /\ ClientOK(Tail(q), r, cu, cr, ph, Head(q).state, rq, dn2, ls, c)
<1> DEFINE q2 == Tail(q)
           st == Head(q).state
<1>1. /\ \A i \in Nat : \A t : Is(q2, i, t) => Is(q, i + 1, t) /\ q2[i] = q[i + 1] /\ i >= 1
      /\ \A i \in Nat : \A t : Is(q, i, t) /\ i # 1 => /\ i - 1 \in Nat
                                                   /\ Is(q2, i - 1, t)
                                                   /\ q2[i - 1] = q[i]
      /\ Is(q, 1, "CONFIRM_DOWNGRADE") /\ Head(q) = q[1] /\ Head(q) \in ServerMsgs
      /\ q2 \in Seq(ServerMsgs)
      /\ Len(q2) = Len(q) - 1 /\ Len(q) \in Nat
  BY TailIs DEF Typed
<1>2. st \in States /\ Head(q).data \in Nat
  BY <1>1 DEF ServerMsgs
<1> HIDE DEF q2
<1>3. Down(q, 1)
  BY <1>1 DEF Down
<1>4. cu <= st /\ st < sc /\ (Head(q).data = NoData \/ sc = EXCLUSIVE)
  BY <1>1, <1>3 DEF ClientOK, RequestsOK
<1>5. InList(ls, c)
  <2>1. sc # INVALID
    BY <1>2, <1>4 DEF Typed, States, INVALID, SHARED, EXCLUSIVE
  <2> QED BY <2>1 DEF ClientOK, MemberOK
<1>6. rq = NONE /\ \A i \in Nat : ~Conf(r, i) /\ ~End(r, i)
  BY DEF ClientOK, LeaseOK, AnswersOK
<1>7. \A i \in Nat : /\ Up(q2, i) => Up(q, i + 1) /\ q2[i] = q[i + 1] /\ i + 1 \in Nat
                     /\ Close(q2, i) => Close(q, i + 1) /\ q2[i] = q[i + 1] /\ i + 1 \in Nat
                     /\ Down(q2, i) => Down(q, i + 1) /\ q2[i] = q[i + 1] /\ i + 1 \in Nat /\ i >= 1
  BY <1>1 DEF Up, Down, Close
<1>8. RequestsOK(q2, cu, cr, ph, st, rq)
  <2>1. ASSUME NEW i \in Nat, Up(q2, i) PROVE i = Len(q2) /\ cr = q2[i].state /\ rq = NONE
    <3>1. i + 1 = Len(q) /\ cr = q2[i].state /\ rq = NONE
      BY <2>1, <1>7 DEF ClientOK, RequestsOK
    <3> QED BY <3>1, <1>1
  <2>2. ASSUME NEW i \in Nat, Close(q2, i)
        PROVE  i = Len(q2) /\ ph = "CLOSING" /\ (q2[i].data = NoData \/ q2[i].state = EXCLUSIVE)
    <3>1. i + 1 = Len(q) /\ ph = "CLOSING" /\ (q2[i].data = NoData \/ q2[i].state = EXCLUSIVE)
      BY <2>2, <1>7 DEF ClientOK, RequestsOK
    <3> QED BY <3>1, <1>1
  <2>3. ASSUME NEW i \in Nat, Down(q2, i)
        PROVE  cu <= q2[i].state /\ q2[i].state < st /\ q2[i].data = NoData
    <3>1. Down(q, i + 1) /\ q2[i] = q[i + 1] /\ i + 1 \in Nat /\ 1 < i + 1 /\ i + 1 # 1
      BY <2>3, <1>7
    <3>2. cu <= q2[i].state /\ q2[i].data = NoData
      BY <3>1 DEF ClientOK, RequestsOK
    <3>3. q[i + 1].state < q[1].state
      BY <3>1, <1>3 DEF ClientOK, RequestsOK
    <3> QED BY <3>1, <3>2, <3>3, <1>1
  <2>4. ASSUME NEW i \in Nat, NEW j \in Nat, Down(q2, i), Down(q2, j), i < j
        PROVE  q2[j].state < q2[i].state
    <3>1. /\ Down(q, i + 1) /\ q2[i] = q[i + 1] /\ i + 1 \in Nat
          /\ Down(q, j + 1) /\ q2[j] = q[j + 1] /\ j + 1 \in Nat
          /\ i + 1 < j + 1
      BY <2>4, <1>7
    <3> QED BY <3>1 DEF ClientOK, RequestsOK
  <2> QED BY <2>1, <2>2, <2>3, <2>4 DEF RequestsOK
<1>9. AnswersOK(q2, r, cr, ph, st, rq)
  BY <1>6 DEF ClientOK, AnswersOK
<1>10. LeaseOK(q2, r, cu, cr, ph, st, rq, dn2)
  <2>1. ph = "OPEN" => st = cu \/ \E i \in Nat : Down(q2, i) /\ q2[i].state = cu
    <3> SUFFICES ASSUME ph = "OPEN" PROVE st = cu \/ \E i \in Nat : Down(q2, i) /\ q2[i].state = cu
      OBVIOUS
    <3>1. sc # cu
      BY <1>2, <1>4 DEF Typed, States, INVALID, SHARED, EXCLUSIVE
    <3>2. PICK i \in Nat : Down(q, i) /\ q[i].state = cu
      BY <3>1, <1>6 DEF ClientOK, LeaseOK
    <3>3. CASE i = 1
      BY <3>2, <3>3, <1>1
    <3>4. CASE i # 1
      BY <3>2, <3>4, <1>1 DEF Down
    <3> QED BY <3>3, <3>4
  <2>2. dn2 # NONE => dn2 < st
    BY <1>2 DEF Typed, States, NONE, INVALID, SHARED, EXCLUSIVE
  <2> QED BY <2>1, <2>2, <1>4, <1>6 DEF LeaseOK
<1>11. MemberOK(q2, r, ph, st, rq, ls, c)
  <2>1. ph \notin {"NEW", "CLOSED"}
    BY DEF ClientOK, MemberOK
  <2> QED BY <2>1, <1>5, <1>6 DEF MemberOK
<1> QED BY <1>1, <1>2, <1>4, <1>5, <1>8, <1>9, <1>10, <1>11 DEF ClientOK, q2

(* The server takes a REQUEST_CLOSE and answers with CONFIRM_CLOSE m; ls2  *)
(* is the list without the lease.                                          *)
LEMMA ServeClose ==
    ASSUME NEW q, NEW r, NEW cu, NEW cr, NEW ph, NEW sc, NEW rq, NEW dn, NEW ls, NEW ls2, NEW c,
           NEW m,
           Typed(q, r, cu, cr, sc, rq, dn),
           ClientOK(q, r, cu, cr, ph, sc, rq, dn, ls, c),
           ph # "OPEN" => cu = INVALID,
           ~InList(ls2, c),
           m \in ClientMsgs, m.type = "CONFIRM_CLOSE",
           q # <<>>, Head(q).type = "REQUEST_CLOSE"
    PROVE  /\ Tail(q) \in Seq(ServerMsgs)
           /\ Append(r, m) \in Seq(ClientMsgs)
           /\ Head(q).data \in Nat
           /\ InList(ls, c)
           /\ Head(q).data = NoData \/ Head(q).state = EXCLUSIVE
           /\ ClientOK(Tail(q), Append(r, m), cu, cr, ph, INVALID, NONE, NONE, ls2, c)
<1> DEFINE r2 == Append(r, m)
<1>1. /\ Is(q, 1, "REQUEST_CLOSE") /\ Head(q) = q[1] /\ Head(q) \in ServerMsgs
      /\ Tail(q) \in Seq(ServerMsgs)
      /\ Len(q) = 1 => Tail(q) = <<>>
  BY TailIs DEF Typed
<1>2. Close(q, 1)
  BY <1>1 DEF Close
<1>3. /\ 1 = Len(q) /\ ph = "CLOSING" /\ InList(ls, c)
      /\ Head(q).data = NoData \/ Head(q).state = EXCLUSIVE
  BY <1>1, <1>2 DEF ClientOK, RequestsOK, MemberOK
<1>4. Tail(q) = <<>> /\ cu = INVALID
  BY <1>1, <1>3
<1>5. \A i \in Nat : ~Conf(r, i) /\ ~End(r, i)
  BY DEF ClientOK, AnswersOK
<1>6. /\ \A i \in Nat : \A t : Is(r2, i, t) <=> Is(r, i, t) \/ (i = Len(r) + 1 /\ m.type = t)
      /\ \A i \in Nat : \A t : Is(r, i, t) => r2[i] = r[i] /\ i >= 1 /\ i <= Len(r)
      /\ Len(r2) = Len(r) + 1 /\ Len(r) \in Nat
      /\ r2 \in Seq(ClientMsgs)
  BY AppendIs DEF Typed
<1> HIDE DEF r2
<1>7. \A i \in Nat : /\ ~Conf(r2, i)
                     /\ End(r2, i) => i = Len(r2)
                     /\ Ask(r2, i) => Ask(r, i) /\ r2[i] = r[i]
  BY <1>5, <1>6 DEF Conf, End, Ask
<1>8. \A i \in Nat : ~Up(<<>>, i) /\ ~Down(<<>>, i) /\ ~Close(<<>>, i)
  BY DEF Up, Down, Close, Is
<1>9. RequestsOK(<<>>, cu, cr, ph, INVALID, NONE)
  BY <1>8 DEF RequestsOK
<1>10. AnswersOK(<<>>, r2, cr, ph, INVALID, NONE)
  BY <1>3, <1>7 DEF ClientOK, AnswersOK
<1>11. LeaseOK(<<>>, r2, cu, cr, ph, INVALID, NONE, NONE)
  BY <1>3, <1>4 DEF LeaseOK, INVALID
<1>12. MemberOK(<<>>, r2, ph, INVALID, NONE, ls2, c)
  BY <1>3, <1>8 DEF MemberOK
<1>13. Head(q).data \in Nat
  BY <1>1 DEF ServerMsgs
<1> QED BY <1>1, <1>3, <1>4, <1>6, <1>9, <1>10, <1>11, <1>12, <1>13 DEF ClientOK, r2

-----------------------------------------------------------------------------
(* The steps *)

(* The initial state. *)
LEMMA InitOK == Init => IInv
<1> SUFFICES ASSUME Init PROVE IInv
  OBVIOUS
<1>1. TypeOK
  <2>1. <<>> \in Seq(Clients) /\ <<>> \in Seq(ServerMsgs) /\ <<>> \in Seq(ClientMsgs)
    OBVIOUS
  <2> QED BY <2>1 DEF Init, TypeOK, States, NoData, FirstVersion
<1>2. ASSUME NEW c \in Clients PROVE ClientInv(c)
  <2>1. HandleInv(c)
    BY DEF Init, HandleInv, NONE, INVALID
  <2>2. \A i \in Nat : /\ ~Up(<<>>, i) /\ ~Down(<<>>, i) /\ ~Close(<<>>, i)
                       /\ ~Conf(<<>>, i) /\ ~Ask(<<>>, i) /\ ~End(<<>>, i)
    BY DEF Up, Down, Close, Conf, Ask, End, Is
  <2>3. ~InList(<<>>, c)
    BY DEF InList
  <2>4. /\ RequestsOK(<<>>, INVALID, NONE, "NEW", INVALID, NONE)
        /\ AnswersOK(<<>>, <<>>, NONE, "NEW", INVALID, NONE)
        /\ LeaseOK(<<>>, <<>>, INVALID, NONE, "NEW", INVALID, NONE, NONE)
        /\ MemberOK(<<>>, <<>>, "NEW", INVALID, NONE, <<>>, c)
    BY <2>2, <2>3 DEF RequestsOK, AnswersOK, LeaseOK, MemberOK, INVALID, NONE
  <2>5. /\ toServer[c] = <<>> /\ toClient[c] = <<>> /\ cur[c] = INVALID /\ creq[c] = NONE
        /\ phase[c] = "NEW" /\ scur[c] = INVALID /\ screq[c] = NONE /\ ssreq[c] = NONE
        /\ leases = <<>>
    BY DEF Init
  <2> QED BY <2>1, <2>4, <2>5 DEF ClientInv, ClientOK
<1>3. LeaseExclusion(scur) /\ NoDuplicates(leases) /\ fatal = FALSE
  BY DEF Init, LeaseExclusion, NoDuplicates, INVALID, EXCLUSIVE
<1> QED BY <1>1, <1>2, <1>3 DEF IInv

(* A step of one process that leaves the server's state alone. *)
LEMMA LocalStep ==
    ASSUME IInv, NEW c \in Clients, TypeOK', fatal' = FALSE, ClientInv(c)',
           leases' = leases, scur' = scur, screq' = screq, ssreq' = ssreq,
           \A d \in Clients \ {c} :
              /\ phase'[d] = phase[d] /\ cur'[d] = cur[d] /\ creq'[d] = creq[d]
              /\ sreq'[d] = sreq[d] /\ used'[d] = used[d] /\ pc'[d] = pc[d] /\ want'[d] = want[d]
              /\ toServer'[d] = toServer[d] /\ toClient'[d] = toClient[d]
    PROVE  IInv'
<1>1. ASSUME NEW d \in Clients PROVE ClientInv(d)'
  <2>1. CASE d = c
    BY <2>1
  <2>2. CASE d # c
    <3>1. ClientInv(d)
      BY DEF IInv
    <3>2. /\ phase'[d] = phase[d] /\ cur'[d] = cur[d] /\ creq'[d] = creq[d]
          /\ sreq'[d] = sreq[d] /\ used'[d] = used[d] /\ pc'[d] = pc[d] /\ want'[d] = want[d]
          /\ toServer'[d] = toServer[d] /\ toClient'[d] = toClient[d]
      BY <2>2
    <3>3. HandleInv(d)'
      BY <3>1, <3>2 DEF ClientInv, HandleInv
    <3> QED BY <3>1, <3>2, <3>3 DEF ClientInv
  <2> QED BY <2>1, <2>2
<1>2. LeaseExclusion(scur)' /\ NoDuplicates(leases)'
  BY DEF IInv, LeaseExclusion, NoDuplicates
<1> QED BY <1>1, <1>2 DEF IInv

(* What IInv says of one process, as the lemmas above need it. *)
LEMMA ClientFacts ==
    ASSUME IInv, NEW c \in Clients
    PROVE  /\ HandleInv(c)
           /\ ClientOK(toServer[c], toClient[c], cur[c], creq[c], phase[c],
                       scur[c], screq[c], ssreq[c], leases, c)
           /\ Typed(toServer[c], toClient[c], cur[c], creq[c], scur[c], screq[c], ssreq[c])
  BY DEF IInv, ClientInv, TypeOK, Typed

(* sync_lock keeps the invariant: a request is sent only by a handle that  *)
(* has none outstanding.                                                   *)
LEMMA SyncLockOK ==
    ASSUME IInv, NEW c \in Clients, NEW st \in {SHARED, EXCLUSIVE}, SyncLock(c, st)
    PROVE  IInv'
<1>1. /\ HandleInv(c)
      /\ ClientOK(toServer[c], toClient[c], cur[c], creq[c], phase[c],
                  scur[c], screq[c], ssreq[c], leases, c)
      /\ Typed(toServer[c], toClient[c], cur[c], creq[c], scur[c], screq[c], ssreq[c])
      /\ TypeOK /\ fatal = FALSE
  BY ClientFacts DEF IInv
<1>2. /\ pc[c] = "idle" /\ ~used[c] /\ phase[c] \in {"NEW", "OPEN"}
      /\ creq[c] = NONE /\ sreq[c] = NONE
      /\ phase[c] = "NEW" => cur[c] = INVALID
  BY <1>1 DEF SyncLock, HandleInv
<1>3. fatal' = FALSE
  BY <1>1, <1>2 DEF SyncLock
<1> DEFINE m == Msg("REQUEST_UPGRADE", st, NoData)
<1>4. m \in ServerMsgs /\ m.type = "REQUEST_UPGRADE" /\ m.state = st
  BY DEF Msg, ServerMsgs, States, NoData
<1>5. CASE cur[c] < st
  <2>1. /\ toServer' = [toServer EXCEPT ![c] = Append(toServer[c], m)]
        /\ creq' = [creq EXCEPT ![c] = st] /\ phase' = [phase EXCEPT ![c] = "OPEN"]
        /\ pc' = [pc EXCEPT ![c] = "lockwait"]
    BY <1>2, <1>5 DEF SyncLock, RequestAndWait, NONE, SHARED, EXCLUSIVE
  <2> HIDE DEF m
  <2>2. /\ Append(toServer[c], m) \in Seq(ServerMsgs)
        /\ ClientOK(Append(toServer[c], m), toClient[c], cur[c], m.state, "OPEN",
                    scur[c], screq[c], ssreq[c], leases, c)
    BY <1>1, <1>2, <1>4, SendUp
  <2>3. TypeOK'
    BY <2>1, <2>2, <1>1, <1>3 DEF SyncLock, TypeOK, leaseVars, histVars
  <2>4. HandleInv(c)'
    BY <2>1, <1>1, <1>2, <1>5 DEF SyncLock, HandleInv, TypeOK, leaseVars, histVars, NONE, SHARED, EXCLUSIVE
  <2>5. ClientInv(c)'
    BY <2>1, <2>2, <2>4, <1>1, <1>4 DEF SyncLock, TypeOK, ClientInv, leaseVars
  <2>6. /\ cur' = cur /\ sreq' = sreq /\ toClient' = toClient
        /\ leases' = leases /\ scur' = scur /\ screq' = screq /\ ssreq' = ssreq
    BY DEF SyncLock, leaseVars
  <2>7. \A d \in Clients \ {c} :
           /\ phase'[d] = phase[d] /\ creq'[d] = creq[d] /\ used'[d] = used[d]
           /\ pc'[d] = pc[d] /\ want'[d] = want[d] /\ toServer'[d] = toServer[d]
    BY <2>1, <1>1 DEF SyncLock, TypeOK
  <2> QED BY <2>3, <2>5, <2>6, <2>7, <1>3, LocalStep
<1>6. CASE ~(cur[c] < st)
  <2>1. TypeOK'
    BY <1>1, <1>3, <1>6 DEF SyncLock, TypeOK, leaseVars, histVars
  <2>2. HandleInv(c)'
    <3>1. /\ pc'[c] = "held" /\ used'[c] = TRUE /\ want'[c] = st
          /\ phase' = phase /\ cur' = cur /\ creq' = creq /\ sreq' = sreq
      BY <1>1, <1>6 DEF SyncLock, TypeOK
    <3>2. st <= cur[c] /\ st # NONE /\ cur[c] # INVALID
      BY <1>1, <1>6 DEF Typed, States, NONE, INVALID, SHARED, EXCLUSIVE
    <3>3. phase[c] = "OPEN"
      BY <3>2, <1>1 DEF HandleInv
    <3> QED BY <3>1, <3>2, <3>3, <1>2 DEF HandleInv
  <2>3. ClientInv(c)'
    BY <2>2, <1>1, <1>6 DEF SyncLock, TypeOK, ClientInv, leaseVars
  <2>4. /\ phase' = phase /\ cur' = cur /\ creq' = creq /\ sreq' = sreq
        /\ toServer' = toServer /\ toClient' = toClient
        /\ leases' = leases /\ scur' = scur /\ screq' = screq /\ ssreq' = ssreq
    BY <1>6 DEF SyncLock, leaseVars
  <2>5. \A d \in Clients \ {c} : used'[d] = used[d] /\ pc'[d] = pc[d] /\ want'[d] = want[d]
    BY <1>1, <1>6 DEF SyncLock, TypeOK
  <2> QED BY <2>1, <2>3, <2>4, <2>5, <1>3, LocalStep
<1> QED BY <1>5, <1>6

(* The end of the wait in sync_lock keeps the invariant: the request is    *)
(* never sent a second time.                                               *)
LEMMA SyncLockWakeOK ==
    ASSUME IInv, NEW c \in Clients, SyncLockWake(c)
    PROVE  IInv'
<1>1. /\ HandleInv(c)
      /\ ClientOK(toServer[c], toClient[c], cur[c], creq[c], phase[c],
                  scur[c], screq[c], ssreq[c], leases, c)
      /\ Typed(toServer[c], toClient[c], cur[c], creq[c], scur[c], screq[c], ssreq[c])
      /\ TypeOK /\ fatal = FALSE
  BY ClientFacts DEF IInv
<1>2. /\ pc[c] = "lockwait" /\ used[c] /\ phase[c] = "OPEN" /\ want[c] # NONE
      /\ creq[c] \in {NONE, want[c]} /\ (creq[c] = NONE => want[c] <= cur[c])
      /\ creq[c] # NONE => cur[c] < creq[c]
      /\ want[c] \in {NONE, SHARED, EXCLUSIVE} /\ cur[c] \in States
  BY <1>1 DEF SyncLockWake, HandleInv, TypeOK
<1>3. /\ cur' = cur /\ sreq' = sreq /\ used' = used /\ want' = want /\ toClient' = toClient
      /\ leases' = leases /\ scur' = scur /\ screq' = screq /\ ssreq' = ssreq
  BY DEF SyncLockWake, leaseVars
<1>4. /\ toServer' = toServer /\ creq' = creq /\ phase' = phase
      /\ pc' = [pc EXCEPT ![c] = IF cur[c] < want[c] THEN "lockwait" ELSE "held"]
  <2>1. cur[c] < want[c] => ~(creq[c] < want[c])
    BY <1>2 DEF States, NONE, INVALID, SHARED, EXCLUSIVE
  <2> QED BY <2>1 DEF SyncLockWake, RequestAndWait
<1>5. fatal' = FALSE
  BY <1>1, <1>2 DEF SyncLockWake
<1>6. TypeOK'
  <2>1. event' \in [Clients -> BOOLEAN]
    BY <1>1 DEF SyncLockWake, TypeOK
  <2>2. obj' = obj \/ obj' = [obj EXCEPT ![c] = IF data[c] # NoData THEN data[c] ELSE @]
    BY DEF SyncLockWake
  <2>3. obj' \in [Clients -> Nat]
    BY <2>2, <1>1 DEF TypeOK
  <2>4. UNCHANGED <<data, sdata, serverUp, version, forgot>>
    BY DEF SyncLockWake, leaseVars, histVars
  <2> QED BY <2>1, <2>3, <2>4, <1>1, <1>3, <1>4, <1>5 DEF TypeOK
<1>7. HandleInv(c)'
  <2>1. pc'[c] = IF cur[c] < want[c] THEN "lockwait" ELSE "held"
    BY <1>1, <1>4 DEF TypeOK
  <2>2. ~(cur[c] < want[c]) => want[c] <= cur[c] /\ creq[c] = NONE
    BY <1>2 DEF States, NONE, INVALID, SHARED, EXCLUSIVE
  <2> QED BY <2>1, <2>2, <1>1, <1>2, <1>3, <1>4 DEF HandleInv
<1>8. ClientInv(c)'
  BY <1>1, <1>3, <1>4, <1>7 DEF ClientInv
<1> QED BY <1>1, <1>3, <1>4, <1>5, <1>6, <1>8, LocalStep DEF TypeOK

(* sync_downgrade, from sync_unlock or from the IPC worker: r is what is   *)
(* left in the stream to the client.                                       *)
LEMMA SyncDowngradeOK ==
    ASSUME NEW c, NEW r, NEW st, NEW d,
           c \in Clients, TypeOK, st \in {INVALID, SHARED}, d \in Nat,
           Typed(toServer[c], r, cur[c], creq[c], scur[c], screq[c], ssreq[c]),
           ClientOK(toServer[c], r, cur[c], creq[c], phase[c],
                    scur[c], screq[c], ssreq[c], leases, c),
           creq[c] = NONE, phase[c] = "OPEN", st < cur[c],
           SyncDowngrade(c, st, d)
    PROVE  /\ toServer' \in [Clients -> Seq(ServerMsgs)]
           /\ cur' = [cur EXCEPT ![c] = st]
           /\ sreq' = [sreq EXCEPT ![c] = NONE]
           /\ \A x \in Clients \ {c} : toServer'[x] = toServer[x]
           /\ ClientOK(toServer'[c], r, st, NONE, "OPEN",
                       scur[c], screq[c], ssreq[c], leases, c)
<1> DEFINE dd == IF cur[c] = EXCLUSIVE THEN d ELSE NoData
           m  == Msg("CONFIRM_DOWNGRADE", st, dd)
<1>1. dd \in Nat /\ (dd = NoData \/ cur[c] = EXCLUSIVE)
  BY DEF NoData
<1> HIDE DEF dd
<1>2. m \in ServerMsgs /\ m.type = "CONFIRM_DOWNGRADE" /\ m.state = st /\ m.data = dd
  BY <1>1 DEF Msg, ServerMsgs, States
<1>3. /\ toServer' = [toServer EXCEPT ![c] = Append(toServer[c], m)]
      /\ cur' = [cur EXCEPT ![c] = st] /\ sreq' = [sreq EXCEPT ![c] = NONE]
  BY DEF SyncDowngrade, dd
<1> HIDE DEF m
<1>4. /\ Append(toServer[c], m) \in Seq(ServerMsgs)
      /\ ClientOK(Append(toServer[c], m), r, m.state, NONE, "OPEN",
                  scur[c], screq[c], ssreq[c], leases, c)
  BY <1>1, <1>2, SendDown
<1>5. toServer' \in [Clients -> Seq(ServerMsgs)] /\ toServer'[c] = Append(toServer[c], m)
  BY <1>3, <1>4 DEF TypeOK
<1> QED BY <1>2, <1>3, <1>4, <1>5 DEF TypeOK

(* sync_unlock keeps the invariant, whether or not it answers a downgrade. *)
LEMMA SyncUnlockOK ==
    ASSUME IInv, NEW c \in Clients, SyncUnlock(c)
    PROVE  IInv'
<1>1. /\ HandleInv(c)
      /\ ClientOK(toServer[c], toClient[c], cur[c], creq[c], phase[c],
                  scur[c], screq[c], ssreq[c], leases, c)
      /\ Typed(toServer[c], toClient[c], cur[c], creq[c], scur[c], screq[c], ssreq[c])
      /\ TypeOK /\ fatal = FALSE
  BY ClientFacts DEF IInv
<1>2. /\ pc[c] = "held" /\ used[c] /\ phase[c] = "OPEN" /\ creq[c] = NONE
      /\ sreq[c] # NONE => sreq[c] < cur[c]
      /\ sreq[c] \in {NONE, INVALID, SHARED}
  BY <1>1 DEF SyncUnlock, HandleInv, TypeOK
<1>3. PICK write \in BOOLEAN, pass \in BOOLEAN :
        /\ version' = IF write THEN version + 1 ELSE version
        /\ forgot' = (forgot /\ ~write)
        /\ obj' = [obj EXCEPT ![c] = IF write THEN version + 1 ELSE @]
        /\ data' = [data EXCEPT ![c] = IF pass THEN obj'[c] ELSE @]
        /\ used' = [used EXCEPT ![c] = FALSE]
        /\ fatal' = (fatal \/ ~used[c])
        /\ IF DowngradePending(c)
           THEN SyncDowngrade(c, sreq[c], data'[c])
           ELSE UNCHANGED <<toServer, cur, sreq>>
        /\ pc' = [pc EXCEPT ![c] = "idle"]
        /\ UNCHANGED <<phase, creq, event, want, leaseVars, serverUp, toClient>>
  BY DEF SyncUnlock
<1>4. /\ version' \in Nat /\ forgot' \in BOOLEAN /\ fatal' = FALSE
      /\ obj' \in [Clients -> Nat] /\ data' \in [Clients -> Nat]
      /\ used' \in [Clients -> BOOLEAN] /\ used'[c] = FALSE /\ pc'[c] = "idle"
      /\ \A x \in Clients \ {c} : used'[x] = used[x] /\ pc'[x] = pc[x]
  <2>1. version' \in Nat /\ fatal' = FALSE /\ forgot' \in BOOLEAN
    BY <1>1, <1>2, <1>3 DEF TypeOK
  <2>2. obj' \in [Clients -> Nat]
    BY <1>1, <1>3 DEF TypeOK
  <2>3. data' \in [Clients -> Nat]
    BY <2>2, <1>1, <1>3 DEF TypeOK
  <2> QED BY <2>1, <2>2, <2>3, <1>1, <1>3 DEF TypeOK
<1>5. /\ phase' = phase /\ creq' = creq /\ want' = want /\ toClient' = toClient
      /\ leases' = leases /\ scur' = scur /\ screq' = screq /\ ssreq' = ssreq
  BY <1>3 DEF leaseVars
<1>6. /\ toServer' \in [Clients -> Seq(ServerMsgs)]
      /\ cur' \in [Clients -> States] /\ sreq' \in [Clients -> {NONE, INVALID, SHARED}]
      /\ \A x \in Clients \ {c} : toServer'[x] = toServer[x] /\ cur'[x] = cur[x] /\ sreq'[x] = sreq[x]
      /\ ClientOK(toServer'[c], toClient[c], cur'[c], creq[c], phase[c],
                  scur[c], screq[c], ssreq[c], leases, c)
      /\ sreq'[c] = NONE
  <2>1. CASE DowngradePending(c)
    <3>1. SyncDowngrade(c, sreq[c], data'[c]) /\ data'[c] \in Nat
      BY <2>1, <1>3, <1>4
    <3>2. sreq[c] \in {INVALID, SHARED} /\ sreq[c] < cur[c]
      BY <2>1, <1>2 DEF DowngradePending
    <3>3. /\ toServer' \in [Clients -> Seq(ServerMsgs)]
          /\ cur' = [cur EXCEPT ![c] = sreq[c]]
          /\ sreq' = [sreq EXCEPT ![c] = NONE]
          /\ \A x \in Clients \ {c} : toServer'[x] = toServer[x]
          /\ ClientOK(toServer'[c], toClient[c], sreq[c], NONE, "OPEN",
                      scur[c], screq[c], ssreq[c], leases, c)
      BY <3>1, <3>2, <1>1, <1>2, SyncDowngradeOK
    <3> QED BY <3>2, <3>3, <1>1, <1>2 DEF TypeOK, States
  <2>2. CASE ~DowngradePending(c)
    <3>1. toServer' = toServer /\ cur' = cur /\ sreq' = sreq
      BY <2>2, <1>3
    <3>2. sreq[c] = NONE
      BY <2>2, <1>2 DEF DowngradePending
    <3> QED BY <3>1, <3>2, <1>1 DEF TypeOK
  <2> QED BY <2>1, <2>2
<1>7. TypeOK'
  <2>1. pc' \in [Clients -> {"idle", "lockwait", "held", "destroying", "destroyed",
                             "stopsent", "stopping", "stopped", "exited", "killed"}]
    BY <1>1, <1>3 DEF TypeOK
  <2>2. UNCHANGED <<event, sdata, serverUp>>
    BY <1>3 DEF leaseVars
  <2> QED BY <2>1, <2>2, <1>1, <1>4, <1>5, <1>6 DEF TypeOK
<1>8. HandleInv(c)'
  BY <1>1, <1>2, <1>4, <1>5, <1>6 DEF HandleInv
<1>9. ClientInv(c)'
  BY <1>5, <1>6, <1>8 DEF ClientInv
<1> QED BY <1>4, <1>5, <1>6, <1>7, <1>9, LocalStep

(* The common part of sync_destroy and shutdown_sync_client. *)
LEMMA BeginCloseOK ==
    ASSUME IInv, NEW c \in Clients, pc[c] = "idle", fatal' = FALSE,
           NEW waitpc \in {"destroying", "stopsent"}, NEW endpc \in {"destroyed", "stopped"},
           BeginClose(c, waitpc, endpc)
    PROVE  IInv'
<1>1. /\ HandleInv(c)
      /\ ClientOK(toServer[c], toClient[c], cur[c], creq[c], phase[c],
                  scur[c], screq[c], ssreq[c], leases, c)
      /\ Typed(toServer[c], toClient[c], cur[c], creq[c], scur[c], screq[c], ssreq[c])
      /\ TypeOK
  BY ClientFacts DEF IInv
<1>2. ~used[c] /\ creq[c] = NONE /\ sreq[c] = NONE /\ phase[c] \in {"NEW", "OPEN"}
  BY <1>1 DEF HandleInv
<1>3. /\ creq' = creq /\ sreq' = sreq /\ used' = used /\ want' = want /\ toClient' = toClient
      /\ leases' = leases /\ scur' = scur /\ screq' = screq /\ ssreq' = ssreq
      /\ UNCHANGED <<data, event, obj, sdata, serverUp, version, forgot>>
  BY DEF BeginClose, leaseVars, histVars
<1>4. CASE phase[c] = "OPEN"
  <2> DEFINE dd == IF cur[c] = EXCLUSIVE THEN data[c] ELSE NoData
             m  == Msg("REQUEST_CLOSE", cur[c], dd)
  <2>1. dd \in Nat /\ (dd = NoData \/ cur[c] = EXCLUSIVE) /\ cur[c] \in States
    BY <1>1 DEF NoData, TypeOK
  <2>2. /\ toServer' = [toServer EXCEPT ![c] = Append(toServer[c], m)]
        /\ phase' = [phase EXCEPT ![c] = "CLOSING"] /\ cur' = [cur EXCEPT ![c] = INVALID]
        /\ pc' = [pc EXCEPT ![c] = waitpc]
    BY <1>4 DEF BeginClose
  <2> HIDE DEF dd
  <2>3. /\ m \in ServerMsgs /\ m.type = "REQUEST_CLOSE"
        /\ m.data = NoData \/ m.state = EXCLUSIVE
    BY <2>1 DEF Msg, ServerMsgs
  <2> HIDE DEF m
  <2>4. /\ Append(toServer[c], m) \in Seq(ServerMsgs)
        /\ ClientOK(Append(toServer[c], m), toClient[c], INVALID, NONE, "CLOSING",
                    scur[c], screq[c], ssreq[c], leases, c)
    BY <2>3, <1>1, <1>2, <1>4, SendClose
  <2>5. TypeOK'
    BY <2>2, <2>4, <1>1, <1>3 DEF TypeOK, States
  <2>6. /\ pc'[c] = waitpc /\ phase'[c] = "CLOSING" /\ cur'[c] = INVALID
        /\ toServer'[c] = Append(toServer[c], m)
    BY <2>2, <1>1 DEF TypeOK
  <2>7. HandleInv(c)'
    BY <2>6, <1>2, <1>3 DEF HandleInv
  <2>8. ClientInv(c)'
    BY <2>4, <2>6, <2>7, <1>2, <1>3 DEF ClientInv
  <2>9. \A x \in Clients \ {c} : /\ phase'[x] = phase[x] /\ cur'[x] = cur[x] /\ pc'[x] = pc[x]
                                 /\ toServer'[x] = toServer[x]
    BY <2>2, <1>1 DEF TypeOK
  <2> QED BY <2>5, <2>8, <2>9, <1>3, LocalStep
<1>5. CASE phase[c] # "OPEN"
  <2>1. toServer' = toServer /\ phase' = phase /\ cur' = cur /\ pc' = [pc EXCEPT ![c] = endpc]
    BY <1>5 DEF BeginClose
  <2>2. TypeOK'
    BY <2>1, <1>1, <1>3 DEF TypeOK
  <2>3. pc'[c] = endpc /\ \A x \in Clients \ {c} : pc'[x] = pc[x]
    BY <2>1, <1>1 DEF TypeOK
  <2>4. HandleInv(c)'
    BY <2>1, <2>3, <1>1, <1>2, <1>3, <1>5 DEF HandleInv
  <2>5. ClientInv(c)'
    BY <2>1, <2>4, <1>1, <1>3 DEF ClientInv
  <2> QED BY <2>1, <2>2, <2>3, <2>5, <1>3, LocalStep
<1> QED BY <1>4, <1>5

(* sync_destroy keeps the invariant. *)
LEMMA SyncDestroyOK ==
    ASSUME IInv, NEW c \in Clients, SyncDestroy(c)
    PROVE  IInv'
<1>1. pc[c] = "idle" /\ ~used[c] /\ fatal = FALSE
  BY ClientFacts DEF SyncDestroy, HandleInv, IInv
<1>2. fatal' = FALSE /\ BeginClose(c, "destroying", "destroyed")
  BY <1>1 DEF SyncDestroy
<1> QED BY <1>1, <1>2, BeginCloseOK

(* shutdown_sync_client keeps the invariant. *)
LEMMA ShutdownSyncClientOK ==
    ASSUME IInv, NEW c \in Clients, ShutdownSyncClient(c)
    PROVE  IInv'
<1>1. pc[c] = "idle" /\ fatal' = FALSE /\ BeginClose(c, "stopsent", "stopped")
  BY DEF ShutdownSyncClient, IInv
<1> QED BY <1>1, BeginCloseOK

(* A step of the thread that only moves it on (and may clear the event). *)
LEMMA MoveOK ==
    ASSUME IInv, NEW c \in Clients,
           NEW next \in {"destroying", "destroyed", "stopsent", "stopping", "stopped",
                         "exited", "killed"},
           next \in {"destroying", "stopsent", "stopping"} => phase[c] \in {"CLOSING", "CLOSED"},
           next \in {"destroyed", "stopped", "exited"} => phase[c] \in {"NEW", "CLOSED"},
           pc' = [pc EXCEPT ![c] = next], event' \in [Clients -> BOOLEAN],
           UNCHANGED <<phase, cur, creq, sreq, used, data, want, obj, leaseVars,
                       serverUp, toServer, toClient, histVars, fatal>>
    PROVE  IInv'
<1>1. /\ HandleInv(c)
      /\ ClientOK(toServer[c], toClient[c], cur[c], creq[c], phase[c],
                  scur[c], screq[c], ssreq[c], leases, c)
      /\ TypeOK /\ fatal = FALSE
  BY ClientFacts DEF IInv
<1>2. /\ phase' = phase /\ cur' = cur /\ creq' = creq /\ sreq' = sreq /\ used' = used
      /\ want' = want /\ toServer' = toServer /\ toClient' = toClient /\ fatal' = FALSE
      /\ leases' = leases /\ scur' = scur /\ screq' = screq /\ ssreq' = ssreq
      /\ UNCHANGED <<data, obj, sdata, serverUp, version, forgot>>
  BY <1>1 DEF leaseVars, histVars
<1>3. pc'[c] = next /\ \A x \in Clients \ {c} : pc'[x] = pc[x]
  BY <1>1 DEF TypeOK
<1>4. TypeOK'
  BY <1>1, <1>2 DEF TypeOK
<1>5. HandleInv(c)'
  BY <1>1, <1>2, <1>3 DEF HandleInv
<1>6. ClientInv(c)'
  BY <1>1, <1>2, <1>5 DEF ClientInv
<1> QED BY <1>2, <1>3, <1>4, <1>6, LocalStep

(* The waits for CONFIRM_CLOSE, exit and kill keep the invariant. *)
LEMMA ThreadMovesOK ==
    ASSUME IInv, NEW c \in Clients,
           ShutdownWait(c) \/ CloseWake(c) \/ ProcessExit(c) \/ Kill(c)
    PROVE  IInv'
<1>1. HandleInv(c) /\ TypeOK
  BY ClientFacts DEF IInv
<1>2. CASE ShutdownWait(c)
  <2> DEFINE next == IF phase[c] = "CLOSED" THEN "stopped" ELSE "stopping"
  <2>1. /\ pc' = [pc EXCEPT ![c] = next] /\ event' = event
        /\ UNCHANGED <<phase, cur, creq, sreq, used, data, want, obj, leaseVars,
                       serverUp, toServer, toClient, histVars, fatal>>
    BY <1>2 DEF ShutdownWait, handleVars
  <2>2. phase[c] \in {"CLOSING", "CLOSED"}
    BY <1>1, <1>2 DEF ShutdownWait, HandleInv
  <2>3. /\ next \in {"stopping", "stopped"}
        /\ next = "stopped" => phase[c] = "CLOSED"
    OBVIOUS
  <2>4. event' \in [Clients -> BOOLEAN]
    BY <2>1, <1>1 DEF TypeOK
  <2> HIDE DEF next
  <2> QED BY <2>1, <2>2, <2>3, <2>4, MoveOK
<1>3. CASE CloseWake(c)
  <2> DEFINE next == IF phase[c] # "CLOSED" THEN pc[c]
                     ELSE IF pc[c] = "destroying" THEN "destroyed" ELSE "stopped"
  <2>1. /\ pc' = [pc EXCEPT ![c] = next] /\ event' \in [Clients -> BOOLEAN]
        /\ UNCHANGED <<phase, cur, creq, sreq, used, data, want, obj, leaseVars,
                       serverUp, toServer, toClient, histVars, fatal>>
    BY <1>3, <1>1 DEF CloseWake, TypeOK
  <2>2. phase[c] \in {"CLOSING", "CLOSED"} /\ pc[c] \in {"destroying", "stopping"}
    BY <1>1, <1>3 DEF CloseWake, HandleInv
  <2>3. /\ next \in {"destroying", "stopping", "destroyed", "stopped"}
        /\ next \in {"destroyed", "stopped"} => phase[c] = "CLOSED"
    BY <2>2
  <2> HIDE DEF next
  <2> QED BY <2>1, <2>2, <2>3, MoveOK
<1>4. CASE ProcessExit(c)
  <2>1. /\ pc' = [pc EXCEPT ![c] = "exited"] /\ event' \in [Clients -> BOOLEAN]
        /\ UNCHANGED <<phase, cur, creq, sreq, used, data, want, obj, leaseVars,
                       serverUp, toServer, toClient, histVars, fatal>>
        /\ phase[c] \in {"NEW", "CLOSED"}
    BY <1>4, <1>1 DEF ProcessExit, handleVars, HandleInv, TypeOK
  <2> QED BY <2>1, MoveOK
<1>5. CASE Kill(c)
  <2>1. /\ pc' = [pc EXCEPT ![c] = "killed"] /\ event' \in [Clients -> BOOLEAN]
        /\ UNCHANGED <<phase, cur, creq, sreq, used, data, want, obj, leaseVars,
                       serverUp, toServer, toClient, histVars, fatal>>
    BY <1>5, <1>1 DEF Kill, handleVars, TypeOK
  <2> QED BY <2>1, MoveOK
<1> QED BY <1>2, <1>3, <1>4, <1>5

(* The IPC worker takes a message: the handle is still in g_client_handles. *)
LEMMA ClientReceiveOK ==
    ASSUME IInv, NEW c \in Clients, NEW type, ClientReceive(c, type)
    PROVE  /\ toClient[c] # <<>> /\ Head(toClient[c]).type = type
           /\ fatal' = FALSE
           /\ toClient' = [toClient EXCEPT ![c] = Tail(toClient[c])]
<1>1. toClient[c] # <<>> /\ Head(toClient[c]).type = type
  BY DEF ClientReceive, HasMsg
<1>2. pc[c] # "destroyed"
  BY <1>1, ClientFacts DEF HandleInv, ClientOK, MemberOK
<1> QED BY <1>1, <1>2 DEF ClientReceive, IInv

(* do_request_downgrade keeps the invariant: the request is put aside      *)
(* while the handle is used, answered at once otherwise, or ignored.       *)
LEMMA DoRequestDowngradeOK ==
    ASSUME IInv, NEW c \in Clients, DoRequestDowngrade(c)
    PROVE  IInv'
<1> DEFINE st == Head(toClient[c]).state
           r  == Tail(toClient[c])
<1>1. /\ HandleInv(c)
      /\ ClientOK(toServer[c], toClient[c], cur[c], creq[c], phase[c],
                  scur[c], screq[c], ssreq[c], leases, c)
      /\ Typed(toServer[c], toClient[c], cur[c], creq[c], scur[c], screq[c], ssreq[c])
      /\ TypeOK
  BY ClientFacts DEF IInv
<1>2. /\ toClient[c] # <<>> /\ Head(toClient[c]).type = "REQUEST_DOWNGRADE" /\ fatal' = FALSE
      /\ toClient' = [toClient EXCEPT ![c] = r]
  <2>1. ClientReceive(c, "REQUEST_DOWNGRADE")
    BY DEF DoRequestDowngrade
  <2> QED BY <2>1, ClientReceiveOK
<1>3. /\ IF HeedsDowngrade(c, st)
         THEN IF used[c]
              THEN sreq' = [sreq EXCEPT ![c] = st] /\ toServer' = toServer /\ cur' = cur
              ELSE SyncDowngrade(c, st, data[c])
         ELSE toServer' = toServer /\ cur' = cur /\ sreq' = sreq
      /\ phase' = phase /\ creq' = creq /\ used' = used /\ pc' = pc /\ want' = want
      /\ leases' = leases /\ scur' = scur /\ screq' = screq /\ ssreq' = ssreq
      /\ UNCHANGED <<data, event, obj, sdata, serverUp, version, forgot>>
  BY DEF DoRequestDowngrade, threadVars, leaseVars, histVars
<1>4. /\ r \in Seq(ClientMsgs) /\ st \in {INVALID, SHARED}
      /\ ClientOK(toServer[c], r, cur[c], creq[c], phase[c],
                  scur[c], screq[c], ssreq[c], leases, c)
  BY <1>1, <1>2, TakeAsk
<1> HIDE DEF st, r
<1>5. /\ toClient' \in [Clients -> Seq(ClientMsgs)] /\ toClient'[c] = r
      /\ \A x \in Clients \ {c} : toClient'[x] = toClient[x]
  BY <1>1, <1>2, <1>4 DEF TypeOK
<1>6. Typed(toServer[c], r, cur[c], creq[c], scur[c], screq[c], ssreq[c]) /\ data[c] \in Nat
  BY <1>1, <1>4 DEF Typed, TypeOK
<1>7. /\ toServer' \in [Clients -> Seq(ServerMsgs)]
      /\ cur' \in [Clients -> States] /\ sreq' \in [Clients -> {NONE, INVALID, SHARED}]
      /\ \A x \in Clients \ {c} : toServer'[x] = toServer[x] /\ cur'[x] = cur[x] /\ sreq'[x] = sreq[x]
      /\ ClientOK(toServer'[c], r, cur'[c], creq[c], phase[c],
                  scur[c], screq[c], ssreq[c], leases, c)
      /\ sreq'[c] # NONE => used[c] /\ sreq'[c] < cur'[c]
      /\ used[c] \/ phase[c] # "OPEN" => cur'[c] = cur[c]
  <2>1. CASE HeedsDowngrade(c, st) /\ used[c]
    <3>1. sreq' = [sreq EXCEPT ![c] = st] /\ toServer' = toServer /\ cur' = cur
      BY <2>1, <1>3
    <3>2. st < cur[c]
      BY <2>1, <1>4, <1>1 DEF HeedsDowngrade, Typed, States, INVALID, SHARED, EXCLUSIVE
    <3> QED BY <3>1, <3>2, <2>1, <1>1, <1>4 DEF TypeOK
  <2>2. CASE HeedsDowngrade(c, st) /\ ~used[c]
    <3>1. SyncDowngrade(c, st, data[c])
      BY <2>2, <1>3
    <3>2. creq[c] = NONE /\ phase[c] = "OPEN"
      BY <2>2, <1>1 DEF HandleInv, HeedsDowngrade
    <3>3. st < cur[c]
      BY <2>2, <1>4, <1>1 DEF HeedsDowngrade, Typed, States, INVALID, SHARED, EXCLUSIVE
    <3>4. /\ toServer' \in [Clients -> Seq(ServerMsgs)]
          /\ cur' = [cur EXCEPT ![c] = st]
          /\ sreq' = [sreq EXCEPT ![c] = NONE]
          /\ \A x \in Clients \ {c} : toServer'[x] = toServer[x]
          /\ ClientOK(toServer'[c], r, st, NONE, "OPEN",
                      scur[c], screq[c], ssreq[c], leases, c)
      BY <3>1, <3>2, <3>3, <1>1, <1>4, <1>6, SyncDowngradeOK
    <3> QED BY <3>2, <3>4, <2>2, <1>1, <1>4 DEF TypeOK, States
  <2>3. CASE ~HeedsDowngrade(c, st)
    <3>1. toServer' = toServer /\ cur' = cur /\ sreq' = sreq
      BY <2>3, <1>3
    <3> QED BY <3>1, <1>1, <1>4 DEF TypeOK, HandleInv
  <2> QED BY <2>1, <2>2, <2>3
<1>8. TypeOK'
  BY <1>1, <1>2, <1>3, <1>5, <1>7 DEF TypeOK
<1>9. HandleInv(c)'
  <2>1. pc[c] = "held" \/ pc[c] = "lockwait" => used[c]
    BY <1>1 DEF HandleInv
  <2>2. phase[c] # "OPEN" => cur'[c] = INVALID
    BY <1>1, <1>7 DEF HandleInv
  <2>3. creq[c] # NONE => used[c] /\ cur'[c] < creq[c]
    BY <1>1, <1>7 DEF HandleInv
  <2> QED BY <2>1, <2>2, <2>3, <1>1, <1>3, <1>7 DEF HandleInv
<1>10. ClientInv(c)'
  BY <1>3, <1>5, <1>7, <1>9 DEF ClientInv
<1> QED BY <1>2, <1>3, <1>5, <1>7, <1>8, <1>10, LocalStep

(* do_confirm_upgrade keeps the invariant: the confirmation is for the one *)
(* request the handle waits for, and the handle is open.                   *)
LEMMA DoConfirmUpgradeOK ==
    ASSUME IInv, NEW c \in Clients, DoConfirmUpgrade(c)
    PROVE  IInv'
<1> DEFINE m == Head(toClient[c])
           r == Tail(toClient[c])
<1>1. /\ HandleInv(c)
      /\ ClientOK(toServer[c], toClient[c], cur[c], creq[c], phase[c],
                  scur[c], screq[c], ssreq[c], leases, c)
      /\ Typed(toServer[c], toClient[c], cur[c], creq[c], scur[c], screq[c], ssreq[c])
      /\ TypeOK
  BY ClientFacts DEF IInv
<1>2. /\ toClient[c] # <<>> /\ m.type = "CONFIRM_UPGRADE" /\ fatal' = FALSE
      /\ toClient' = [toClient EXCEPT ![c] = r]
      /\ Running(c)
  <2>1. ClientReceive(c, "CONFIRM_UPGRADE")
    BY DEF DoConfirmUpgrade
  <2> QED BY <2>1, ClientReceiveOK DEF ClientReceive
<1>3. /\ IF phase[c] = "OPEN" /\ cur[c] < m.state
         THEN /\ cur' = [cur EXCEPT ![c] = m.state]
              /\ creq' = [creq EXCEPT ![c] = NONE]
              /\ SyncNotify(c)
         ELSE UNCHANGED <<cur, creq, event>>
      /\ data' = [data EXCEPT ![c] = IF m.data # NoData THEN m.data ELSE @]
      /\ phase' = phase /\ sreq' = sreq /\ used' = used /\ pc' = pc /\ want' = want
      /\ toServer' = toServer
      /\ leases' = leases /\ scur' = scur /\ screq' = screq /\ ssreq' = ssreq
      /\ UNCHANGED <<obj, sdata, serverUp, version, forgot>>
  BY DEF DoConfirmUpgrade, threadVars, leaseVars, histVars
<1>4. /\ r \in Seq(ClientMsgs) /\ m.state = creq[c] /\ m.state = scur[c] /\ m.data \in Nat
      /\ ClientOK(toServer[c], r, scur[c], NONE, phase[c],
                  scur[c], screq[c], ssreq[c], leases, c)
  BY <1>1, <1>2, TakeConf
<1> HIDE DEF m, r
<1>5. creq[c] # NONE /\ scur[c] \in States /\ creq[c] = scur[c]
  BY <1>1, <1>4 DEF Typed, States, NONE, INVALID, SHARED, EXCLUSIVE
<1>6. used[c] /\ phase[c] = "OPEN" /\ cur[c] < creq[c] /\ cur[c] \in States
  BY <1>1, <1>5 DEF HandleInv, Typed
<1>7. pc[c] = "lockwait" /\ want[c] = creq[c]
  BY <1>1, <1>2, <1>5, <1>6 DEF HandleInv, Running, TypeOK
<1>8. /\ cur' = [cur EXCEPT ![c] = scur[c]] /\ creq' = [creq EXCEPT ![c] = NONE]
      /\ event' = [event EXCEPT ![c] = @ \/ Waiting(c)]
  BY <1>3, <1>4, <1>6 DEF SyncNotify
<1>9. /\ toClient' \in [Clients -> Seq(ClientMsgs)] /\ toClient'[c] = r
      /\ \A x \in Clients \ {c} : toClient'[x] = toClient[x]
  BY <1>1, <1>2, <1>4 DEF TypeOK
<1>10. /\ cur' \in [Clients -> States] /\ creq' \in [Clients -> {NONE, SHARED, EXCLUSIVE}]
       /\ cur'[c] = scur[c] /\ creq'[c] = NONE
       /\ \A x \in Clients \ {c} : cur'[x] = cur[x] /\ creq'[x] = creq[x]
  BY <1>1, <1>5, <1>8 DEF TypeOK
<1>11. TypeOK'
  <2>1. data' \in [Clients -> Nat]
    BY <1>1, <1>3, <1>4 DEF TypeOK
  <2>2. Waiting(c)
    BY <1>7 DEF Waiting
  <2>3. event' \in [Clients -> BOOLEAN]
    BY <2>2, <1>1, <1>8 DEF TypeOK
  <2> QED BY <2>1, <2>3, <1>1, <1>2, <1>3, <1>9, <1>10 DEF TypeOK
<1>12. HandleInv(c)'
  <2>1. sreq[c] # NONE => sreq[c] < scur[c]
    <3>1. sreq[c] # NONE => sreq[c] < cur[c]
      BY <1>1 DEF HandleInv
    <3>2. sreq[c] \in {NONE, INVALID, SHARED}
      BY <1>1 DEF TypeOK
    <3> QED BY <3>1, <3>2, <1>5, <1>6 DEF States, NONE, INVALID, SHARED, EXCLUSIVE
  <2>2. want[c] <= scur[c] /\ want[c] # NONE
    BY <1>5, <1>7 DEF States, NONE, INVALID, SHARED, EXCLUSIVE
  <2> QED BY <2>1, <2>2, <1>3, <1>6, <1>7, <1>10 DEF HandleInv
<1>13. ClientInv(c)'
  BY <1>3, <1>4, <1>9, <1>10, <1>12 DEF ClientInv
<1> QED BY <1>2, <1>3, <1>9, <1>10, <1>11, <1>13, LocalStep

(* do_confirm_close keeps the invariant: nothing is left in flight. *)
LEMMA DoConfirmCloseOK ==
    ASSUME IInv, NEW c \in Clients, DoConfirmClose(c)
    PROVE  IInv'
<1>1. /\ HandleInv(c)
      /\ ClientOK(toServer[c], toClient[c], cur[c], creq[c], phase[c],
                  scur[c], screq[c], ssreq[c], leases, c)
      /\ Typed(toServer[c], toClient[c], cur[c], creq[c], scur[c], screq[c], ssreq[c])
      /\ TypeOK
  BY ClientFacts DEF IInv
<1>2. /\ toClient[c] # <<>> /\ Head(toClient[c]).type = "CONFIRM_CLOSE" /\ fatal' = FALSE
      /\ toClient' = [toClient EXCEPT ![c] = Tail(toClient[c])]
  <2>1. ClientReceive(c, "CONFIRM_CLOSE")
    BY DEF DoConfirmClose
  <2> QED BY <2>1, ClientReceiveOK
<1>3. /\ Tail(toClient[c]) = <<>> /\ phase[c] = "CLOSING"
      /\ ClientOK(toServer[c], <<>>, cur[c], creq[c], "CLOSED",
                  scur[c], screq[c], ssreq[c], leases, c)
  BY <1>1, <1>2, TakeEnd
<1>4. /\ phase' = [phase EXCEPT ![c] = "CLOSED"]
      /\ event' = [event EXCEPT ![c] = @ \/ Waiting(c)]
      /\ cur' = cur /\ creq' = creq /\ sreq' = sreq /\ used' = used /\ pc' = pc /\ want' = want
      /\ toServer' = toServer
      /\ leases' = leases /\ scur' = scur /\ screq' = screq /\ ssreq' = ssreq
      /\ UNCHANGED <<data, obj, sdata, serverUp, version, forgot>>
  BY <1>3 DEF DoConfirmClose, SyncNotify, threadVars, leaseVars, histVars
<1>5. /\ toClient' \in [Clients -> Seq(ClientMsgs)] /\ toClient'[c] = <<>>
      /\ \A x \in Clients \ {c} : toClient'[x] = toClient[x]
  BY <1>1, <1>2, <1>3 DEF TypeOK
<1>6. /\ phase'[c] = "CLOSED" /\ \A x \in Clients \ {c} : phase'[x] = phase[x]
      /\ phase' \in [Clients -> {"NEW", "OPEN", "CLOSING", "CLOSED"}]
  BY <1>1, <1>4 DEF TypeOK
<1>7. TypeOK'
  <2>1. event' \in [Clients -> BOOLEAN]
    BY <1>1, <1>4 DEF TypeOK, Waiting
  <2> QED BY <2>1, <1>1, <1>2, <1>4, <1>5, <1>6 DEF TypeOK
<1>8. HandleInv(c)'
  BY <1>1, <1>3, <1>4, <1>6 DEF HandleInv
<1>9. ClientInv(c)'
  BY <1>3, <1>4, <1>5, <1>6, <1>8 DEF ClientInv
<1> QED BY <1>2, <1>4, <1>5, <1>6, <1>7, <1>9, LocalStep

(* What a server handler for a message of client c does before it runs     *)
(* process_handle: it takes the message and changes the leases to ls, sc,  *)
(* rq and dn, the data to d and the streams to out, touching only the      *)
(* values of c, and it never raises the state of the lease.                *)
HandlerChange(c, ls, sc, rq, dn, d, out) ==
    /\ c \in Clients /\ ls \in Seq(Clients) /\ LeasesTyped(sc, rq, dn, d, out)
    /\ toServer' \in [Clients -> Seq(ServerMsgs)]
    /\ NoDuplicates(ls)
    /\ sc[c] = scur[c] \/ sc[c] # EXCLUSIVE
    /\ sc[c] # SHARED \/ scur[c] # INVALID
    /\ \A x \in Clients \ {c} :
          /\ sc[x] = scur[x] /\ rq[x] = screq[x] /\ dn[x] = ssreq[x]
          /\ toServer'[x] = toServer[x] /\ out[x] = toClient[x]
          /\ InList(ls, x) <=> InList(leases, x)
    /\ ClientOK(toServer'[c], out[c], cur[c], creq[c], phase[c], sc[c], rq[c], dn[c], ls, c)

(* Such a change followed by process_handle keeps the invariant. *)
LEMMA HandlerOK ==
    ASSUME IInv, NEW c, NEW ls, NEW sc, NEW rq, NEW dn, NEW d, NEW out,
           HandlerChange(c, ls, sc, rq, dn, d, out),
           ProcessHandle(ls, sc, rq, dn, d, out),
           GrantsFromInvalid(sc, rq, ls) => fatal' = FALSE,
           UNCHANGED <<handleVars, threadVars, serverUp>>,
           version' \in Nat, forgot' \in BOOLEAN
    PROVE  IInv'
<1>0. /\ c \in Clients /\ ls \in Seq(Clients) /\ LeasesTyped(sc, rq, dn, d, out)
      /\ sc \in [Clients -> States] /\ d \in Nat
      /\ toServer' \in [Clients -> Seq(ServerMsgs)]
      /\ NoDuplicates(ls)
      /\ sc[c] = scur[c] \/ sc[c] # EXCLUSIVE
      /\ sc[c] # SHARED \/ scur[c] # INVALID
      /\ \A x \in Clients \ {c} :
            /\ sc[x] = scur[x] /\ rq[x] = screq[x] /\ dn[x] = ssreq[x]
            /\ toServer'[x] = toServer[x] /\ out[x] = toClient[x]
            /\ InList(ls, x) <=> InList(leases, x)
      /\ ClientOK(toServer'[c], out[c], cur[c], creq[c], phase[c], sc[c], rq[c], dn[c], ls, c)
  BY DEF HandlerChange, LeasesTyped
<1> USE <1>0
<1>1. TypeOK /\ LeaseExclusion(scur)
  BY DEF IInv
<1>2. LeaseExclusion(sc)
  <2> SUFFICES ASSUME NEW a \in Clients, NEW b \in Clients, a # b, sc[a] = EXCLUSIVE
               PROVE  sc[b] = INVALID
    BY DEF LeaseExclusion
  <2>1. scur[a] = EXCLUSIVE
    BY DEF EXCLUSIVE
  <2>2. scur[b] = INVALID
    BY <2>1, <1>1 DEF LeaseExclusion
  <2>3. CASE b # c
    BY <2>2, <2>3
  <2>4. CASE b = c
    BY <2>2, <2>4 DEF States, INVALID, SHARED, EXCLUSIVE
  <2> QED BY <2>3, <2>4
<1>3. ASSUME NEW x \in Clients
      PROVE  ClientOK(toServer'[x], out[x], cur[x], creq[x], phase[x], sc[x], rq[x], dn[x], ls, x)
  <2>1. CASE x = c
    BY <2>1
  <2>2. CASE x # c
    <3>1. ClientOK(toServer[x], toClient[x], cur[x], creq[x], phase[x],
                   scur[x], screq[x], ssreq[x], leases, x)
      BY ClientFacts
    <3>2. MemberOK(toServer[x], toClient[x], phase[x], scur[x], screq[x], ls, x)
      BY <3>1, <2>2 DEF ClientOK, MemberOK
    <3>3. ClientOK(toServer[x], toClient[x], cur[x], creq[x], phase[x],
                   scur[x], screq[x], ssreq[x], ls, x)
      BY <3>1, <3>2 DEF ClientOK
    <3> QED BY <3>3, <2>2
  <2> QED BY <2>1, <2>2
<1>4. /\ leases' = ls /\ sdata' = d
      /\ scur' \in [Clients -> States]
      /\ screq' \in [Clients -> {NONE, SHARED, EXCLUSIVE}]
      /\ ssreq' \in [Clients -> {NONE, INVALID, SHARED}]
      /\ toClient' \in [Clients -> Seq(ClientMsgs)]
      /\ LeaseExclusion(scur')
      /\ \A x \in Clients : ClientOK(toServer'[x], toClient'[x], cur[x], creq[x], phase[x],
                                     scur'[x], screq'[x], ssreq'[x], leases', x)
      /\ GrantsFromInvalid(sc, rq, ls)
  <2>1. AllClientsOK(toServer', out, sc, rq, dn, ls)
    BY <1>3 DEF AllClientsOK
  <2> QED BY <2>1, <1>1, <1>2, ProcessHandleOK
<1>5. /\ phase' = phase /\ cur' = cur /\ creq' = creq /\ sreq' = sreq /\ used' = used
      /\ pc' = pc /\ want' = want
      /\ UNCHANGED <<data, event, obj, serverUp>>
  BY DEF handleVars, threadVars
<1>6. TypeOK' /\ fatal' = FALSE
  <2>1. fatal' = FALSE
    BY <1>4
  <2> QED BY <2>1, <1>1, <1>4, <1>5 DEF TypeOK
<1>7. ASSUME NEW x \in Clients PROVE ClientInv(x)'
  <2>1. HandleInv(x)'
    BY <1>5, ClientFacts DEF HandleInv
  <2> QED BY <2>1, <1>4, <1>5 DEF ClientInv
<1>8. LeaseExclusion(scur)' /\ NoDuplicates(leases)'
  BY <1>4
<1> QED BY <1>6, <1>7, <1>8 DEF IInv

(* The server takes a message: the stream it came from is one shorter. *)
LEMMA ServerReceiveOK ==
    ASSUME IInv, NEW c \in Clients, NEW type, ServerReceive(c, type),
           Tail(toServer[c]) \in Seq(ServerMsgs)
    PROVE  /\ toServer[c] # <<>> /\ Head(toServer[c]).type = type
           /\ toServer' \in [Clients -> Seq(ServerMsgs)]
           /\ toServer'[c] = Tail(toServer[c])
           /\ \A x \in Clients \ {c} : toServer'[x] = toServer[x]
  BY DEF ServerReceive, HasMsg, IInv, TypeOK

(* do_request_upgrade keeps the invariant: the client asks for more than   *)
(* the lease has, and the list holds its lease once, at the end.           *)
LEMMA DoRequestUpgradeOK ==
    ASSUME IInv, NEW c \in Clients, DoRequestUpgrade(c)
    PROVE  IInv'
<1> DEFINE st == Head(toServer[c]).state
           w  == Without(leases, c)
           ls == Append(w, c)
           rq == [screq EXCEPT ![c] = st]
<1>1. /\ HandleInv(c)
      /\ ClientOK(toServer[c], toClient[c], cur[c], creq[c], phase[c],
                  scur[c], screq[c], ssreq[c], leases, c)
      /\ Typed(toServer[c], toClient[c], cur[c], creq[c], scur[c], screq[c], ssreq[c])
      /\ TypeOK /\ NoDuplicates(leases) /\ fatal = FALSE
  BY ClientFacts DEF IInv
<1>2. /\ ServerReceive(c, "REQUEST_UPGRADE")
      /\ ProcessHandle(ls, scur, rq, ssreq, sdata, toClient)
      /\ fatal' = (fatal \/ ~(scur[c] < st) \/ ~GrantsFromInvalid(scur, rq, ls))
      /\ UNCHANGED <<handleVars, threadVars, serverUp>> /\ version' = version /\ forgot' = forgot
  BY DEF DoRequestUpgrade, histVars
<1>3. /\ w \in Seq(Clients) /\ NoDuplicates(w) /\ ~InList(w, c)
      /\ \A x \in Clients : x # c => (InList(w, x) <=> InList(leases, x))
  BY <1>1, WithoutFacts DEF TypeOK
<1> HIDE DEF w
<1>4. /\ ls \in Seq(Clients) /\ NoDuplicates(ls) /\ InList(ls, c)
      /\ \A x \in Clients : x # c => (InList(ls, x) <=> InList(leases, x))
  <2>1. /\ ls \in Seq(Clients) /\ Len(w) \in Nat /\ DOMAIN w = 1..Len(w)
        /\ DOMAIN ls = 1..(Len(w) + 1)
        /\ \A i \in DOMAIN w : ls[i] = w[i]
        /\ ls[Len(w) + 1] = c
    BY <1>3, AppendFacts
  <2> HIDE DEF ls
  <2>2. InList(ls, c)
    BY <2>1 DEF InList
  <2>3. NoDuplicates(ls)
    BY <2>1, <1>3 DEF NoDuplicates, InList
  <2>4. ASSUME NEW x \in Clients, x # c PROVE InList(ls, x) <=> InList(leases, x)
    <3>1. InList(ls, x) <=> InList(w, x)
      BY <2>1, <2>4 DEF InList
    <3> QED BY <3>1, <2>4, <1>3
  <2> QED BY <2>1, <2>2, <2>3, <2>4
<1>5. toServer[c] # <<>> /\ Head(toServer[c]).type = "REQUEST_UPGRADE"
  BY <1>2 DEF ServerReceive, HasMsg
<1> HIDE DEF ls
<1>6. creq[c] # NONE => phase[c] = "OPEN" /\ cur[c] < creq[c]
  BY <1>1 DEF HandleInv
<1>7. /\ Tail(toServer[c]) \in Seq(ServerMsgs) /\ st \in {SHARED, EXCLUSIVE} /\ scur[c] < st
      /\ ClientOK(Tail(toServer[c]), toClient[c], cur[c], creq[c], phase[c],
                  scur[c], st, ssreq[c], ls, c)
  BY <1>1, <1>4, <1>5, <1>6, ServeUp
<1>8. /\ toServer' \in [Clients -> Seq(ServerMsgs)] /\ toServer'[c] = Tail(toServer[c])
      /\ \A x \in Clients \ {c} : toServer'[x] = toServer[x]
  BY <1>2, <1>7, ServerReceiveOK
<1> HIDE DEF st
<1>9. /\ rq \in [Clients -> {NONE, SHARED, EXCLUSIVE}] /\ rq[c] = st
      /\ \A x \in Clients \ {c} : rq[x] = screq[x]
  BY <1>1, <1>7 DEF TypeOK
<1>10. GrantsFromInvalid(scur, rq, ls) => fatal' = FALSE
  BY <1>1, <1>2, <1>7
<1> HIDE DEF rq
<1>11. /\ scur \in [Clients -> States] /\ ssreq \in [Clients -> {NONE, INVALID, SHARED}]
       /\ sdata \in Nat /\ toClient \in [Clients -> Seq(ClientMsgs)]
       /\ version' \in Nat /\ forgot' \in BOOLEAN
       /\ scur[c] # SHARED \/ scur[c] # INVALID
  BY <1>1, <1>2 DEF TypeOK, SHARED, INVALID
<1>12. HandlerChange(c, ls, scur, rq, ssreq, sdata, toClient)
  BY <1>4, <1>7, <1>8, <1>9, <1>11 DEF HandlerChange, LeasesTyped
<1> QED BY <1>2, <1>10, <1>11, <1>12, HandlerOK

(* do_confirm_downgrade keeps the invariant: the lease exists and is above *)
(* the confirmed state, and data comes only with an EXCLUSIVE lease.       *)
LEMMA DoConfirmDowngradeOK ==
    ASSUME IInv, NEW c \in Clients, DoConfirmDowngrade(c)
    PROVE  IInv'
<1> DEFINE m  == Head(toServer[c])
           ls == IF HasLease(c) THEN leases ELSE Append(leases, c)
           sc == [scur EXCEPT ![c] = m.state]
           dn == [ssreq EXCEPT ![c] = IF m.state <= @ THEN NONE ELSE @]
           d  == IF scur[c] = EXCLUSIVE THEN m.data ELSE sdata
           e  == IF m.state <= ssreq[c] THEN NONE ELSE ssreq[c]
<1>1. /\ ClientOK(toServer[c], toClient[c], cur[c], creq[c], phase[c],
                  scur[c], screq[c], ssreq[c], leases, c)
      /\ Typed(toServer[c], toClient[c], cur[c], creq[c], scur[c], screq[c], ssreq[c])
      /\ TypeOK /\ NoDuplicates(leases) /\ fatal = FALSE
  BY ClientFacts DEF IInv
<1>2. /\ ServerReceive(c, "CONFIRM_DOWNGRADE")
      /\ ProcessHandle(ls, sc, screq, dn, d, toClient)
      /\ fatal' = (fatal \/ ~(scur[c] > m.state)
                         \/ (scur[c] # EXCLUSIVE /\ m.data # NoData)
                         \/ ~GrantsFromInvalid(sc, screq, ls))
      /\ UNCHANGED <<handleVars, threadVars, serverUp>> /\ version' = version /\ forgot' = forgot
  BY DEF DoConfirmDowngrade, histVars
<1>3. toServer[c] # <<>> /\ m.type = "CONFIRM_DOWNGRADE"
  BY <1>2 DEF ServerReceive, HasMsg
<1>4. e = IF Head(toServer[c]).state <= ssreq[c] THEN NONE ELSE ssreq[c]
  OBVIOUS
<1> HIDE DEF e
<1>5. /\ Tail(toServer[c]) \in Seq(ServerMsgs)
      /\ m.state \in States /\ m.data \in Nat /\ m.state < scur[c]
      /\ InList(leases, c)
      /\ m.data = NoData \/ scur[c] = EXCLUSIVE
      /\ ClientOK(Tail(toServer[c]), toClient[c], cur[c], creq[c], phase[c],
                  m.state, screq[c], e, leases, c)
  BY <1>1, <1>3, <1>4, ServeDown
<1>6. /\ toServer' \in [Clients -> Seq(ServerMsgs)] /\ toServer'[c] = Tail(toServer[c])
      /\ \A x \in Clients \ {c} : toServer'[x] = toServer[x]
  BY <1>2, <1>5, ServerReceiveOK
<1>7. e \in {NONE, INVALID, SHARED} /\ dn = [ssreq EXCEPT ![c] = e]
  BY <1>1, <1>4 DEF Typed
<1> HIDE DEF m
<1>8. /\ sc \in [Clients -> States] /\ sc[c] = m.state /\ dn[c] = e
      /\ dn \in [Clients -> {NONE, INVALID, SHARED}]
      /\ \A x \in Clients \ {c} : sc[x] = scur[x] /\ dn[x] = ssreq[x]
  BY <1>1, <1>5, <1>7 DEF TypeOK
<1>9. d \in Nat /\ ls = leases
  BY <1>1, <1>5 DEF TypeOK, HasLease
<1> HIDE DEF sc, dn, d, ls
<1>10. GrantsFromInvalid(sc, screq, leases) => fatal' = FALSE
  <2>1. scur[c] > m.state
    BY <1>5, <1>1 DEF Typed, States, INVALID, SHARED, EXCLUSIVE
  <2> QED BY <2>1, <1>1, <1>2, <1>5, <1>9
<1>11. sc[c] # EXCLUSIVE /\ (sc[c] # SHARED \/ scur[c] # INVALID)
  BY <1>1, <1>5, <1>8 DEF Typed, States, INVALID, SHARED, EXCLUSIVE
<1>12. /\ screq \in [Clients -> {NONE, SHARED, EXCLUSIVE}] /\ leases \in Seq(Clients)
       /\ toClient \in [Clients -> Seq(ClientMsgs)]
       /\ version' \in Nat /\ forgot' \in BOOLEAN
  BY <1>1, <1>2 DEF TypeOK
<1>13. ProcessHandle(leases, sc, screq, dn, d, toClient)
  BY <1>2, <1>9
<1>14. ClientOK(toServer'[c], toClient[c], cur[c], creq[c], phase[c],
                sc[c], screq[c], dn[c], leases, c)
  BY <1>5, <1>6, <1>8
<1>15. HandlerChange(c, leases, sc, screq, dn, d, toClient)
  BY <1>1, <1>6, <1>8, <1>9, <1>11, <1>12, <1>14 DEF HandlerChange, LeasesTyped
<1> QED BY <1>2, <1>10, <1>12, <1>13, <1>15, HandlerOK

(* do_request_close keeps the invariant: the lease that is deleted exists. *)
LEMMA DoRequestCloseOK ==
    ASSUME IInv, NEW c \in Clients, DoRequestClose(c)
    PROVE  IInv'
<1> DEFINE m   == Head(toServer[c])
           ls  == Without(leases, c)
           sc  == [scur EXCEPT ![c] = INVALID]
           rq  == [screq EXCEPT ![c] = NONE]
           dn  == [ssreq EXCEPT ![c] = NONE]
           d   == IF ls = <<>> THEN NoData
                  ELSE IF m.state = EXCLUSIVE THEN m.data ELSE sdata
           a   == Msg("CONFIRM_CLOSE", INVALID, NoData)
           out == [toClient EXCEPT ![c] = Append(@, a)]
<1>1. /\ HandleInv(c)
      /\ ClientOK(toServer[c], toClient[c], cur[c], creq[c], phase[c],
                  scur[c], screq[c], ssreq[c], leases, c)
      /\ Typed(toServer[c], toClient[c], cur[c], creq[c], scur[c], screq[c], ssreq[c])
      /\ TypeOK /\ NoDuplicates(leases) /\ fatal = FALSE
  BY ClientFacts DEF IInv
<1>2. /\ ServerReceive(c, "REQUEST_CLOSE")
      /\ ProcessHandle(ls, sc, rq, dn, d, out)
      /\ forgot' = (forgot \/ (ls = <<>> /\ version # FirstVersion))
      /\ fatal' = (fatal \/ ~HasLease(c)
                         \/ (m.state # EXCLUSIVE /\ m.data # NoData)
                         \/ ~GrantsFromInvalid(sc, rq, ls))
      /\ UNCHANGED <<handleVars, threadVars, serverUp>> /\ version' = version
  BY DEF DoRequestClose
<1>3. toServer[c] # <<>> /\ m.type = "REQUEST_CLOSE"
  BY <1>2 DEF ServerReceive, HasMsg
<1>4. a \in ClientMsgs /\ a.type = "CONFIRM_CLOSE"
  BY DEF Msg, ClientMsgs, States, NoData
<1>5. /\ ls \in Seq(Clients) /\ NoDuplicates(ls) /\ ~InList(ls, c)
      /\ \A x \in Clients : x # c => (InList(ls, x) <=> InList(leases, x))
  BY <1>1, WithoutFacts DEF TypeOK
<1> HIDE DEF a, ls
<1>6. phase[c] # "OPEN" => cur[c] = INVALID
  BY <1>1 DEF HandleInv
<1>7. /\ Tail(toServer[c]) \in Seq(ServerMsgs) /\ Append(toClient[c], a) \in Seq(ClientMsgs)
      /\ m.data \in Nat /\ InList(leases, c)
      /\ m.data = NoData \/ m.state = EXCLUSIVE
      /\ ClientOK(Tail(toServer[c]), Append(toClient[c], a), cur[c], creq[c], phase[c],
                  INVALID, NONE, NONE, ls, c)
  BY <1>1, <1>3, <1>4, <1>5, <1>6, ServeClose, ZenonT(30)
<1>8. /\ toServer' \in [Clients -> Seq(ServerMsgs)] /\ toServer'[c] = Tail(toServer[c])
      /\ \A x \in Clients \ {c} : toServer'[x] = toServer[x]
  BY <1>2, <1>7, ServerReceiveOK
<1> HIDE DEF m
<1>9. /\ sc \in [Clients -> States] /\ sc[c] = INVALID
      /\ rq \in [Clients -> {NONE, SHARED, EXCLUSIVE}] /\ rq[c] = NONE
      /\ dn \in [Clients -> {NONE, INVALID, SHARED}] /\ dn[c] = NONE
      /\ \A x \in Clients \ {c} : sc[x] = scur[x] /\ rq[x] = screq[x] /\ dn[x] = ssreq[x]
  BY <1>1 DEF TypeOK, States
<1>10. /\ out \in [Clients -> Seq(ClientMsgs)] /\ out[c] = Append(toClient[c], a)
       /\ \A x \in Clients \ {c} : out[x] = toClient[x]
  BY <1>1, <1>7 DEF TypeOK
<1>11. d \in Nat
  BY <1>1, <1>7 DEF TypeOK, NoData
<1> HIDE DEF sc, rq, dn, out, d
<1>12. GrantsFromInvalid(sc, rq, ls) => fatal' = FALSE
  BY <1>1, <1>2, <1>7 DEF HasLease
<1>13. version' \in Nat /\ forgot' \in BOOLEAN /\ sc[c] # EXCLUSIVE /\ sc[c] # SHARED
  BY <1>1, <1>2, <1>9 DEF TypeOK, INVALID, SHARED, EXCLUSIVE
<1>14. ClientOK(toServer'[c], out[c], cur[c], creq[c], phase[c], sc[c], rq[c], dn[c], ls, c)
  BY <1>7, <1>8, <1>9, <1>10
<1>15. HandlerChange(c, ls, sc, rq, dn, d, out)
  BY <1>5, <1>8, <1>9, <1>10, <1>11, <1>13, <1>14 DEF HandlerChange, LeasesTyped
<1> QED BY <1>2, <1>12, <1>13, <1>15, HandlerOK

(* The disconnect callback keeps the invariant: a process that exited by   *)
(* itself has no lease, so only a killed one makes the server end.         *)
LEMMA ServerDisconnectOK ==
    ASSUME IInv, NEW c \in Clients, ServerDisconnect(c)
    PROVE  IInv'
<1>1. /\ HandleInv(c) /\ TypeOK /\ fatal = FALSE
      /\ ClientOK(toServer[c], toClient[c], cur[c], creq[c], phase[c],
                  scur[c], screq[c], ssreq[c], leases, c)
  BY ClientFacts DEF IInv
<1>2. pc[c] = "killed"
  BY <1>1 DEF ServerDisconnect, HasLease, Running, HandleInv, ClientOK, MemberOK
<1>3. /\ fatal' = FALSE /\ serverUp' = FALSE
      /\ phase' = phase /\ cur' = cur /\ creq' = creq /\ sreq' = sreq /\ used' = used
      /\ pc' = pc /\ want' = want /\ toServer' = toServer /\ toClient' = toClient
      /\ leases' = leases /\ scur' = scur /\ screq' = screq /\ ssreq' = ssreq
      /\ UNCHANGED <<data, event, obj, sdata, version, forgot>>
  BY <1>1, <1>2 DEF ServerDisconnect, handleVars, threadVars, leaseVars, histVars
<1>4. TypeOK'
  BY <1>1, <1>3 DEF TypeOK
<1>5. ClientInv(c)'
  BY <1>1, <1>3 DEF ClientInv, HandleInv
<1> QED BY <1>3, <1>4, <1>5, LocalStep

-----------------------------------------------------------------------------
(* The theorems *)

(* Every step of clients, IPC workers, server and host keeps IInv. *)
LEMMA NextOK == IInv /\ [Next]_vars => IInv'
<1> SUFFICES ASSUME IInv, [Next]_vars PROVE IInv'
  OBVIOUS
<1>1. CASE UNCHANGED vars
  <2>1. /\ phase' = phase /\ cur' = cur /\ creq' = creq /\ sreq' = sreq /\ used' = used
        /\ pc' = pc /\ want' = want /\ toServer' = toServer /\ toClient' = toClient
        /\ leases' = leases /\ scur' = scur /\ screq' = screq /\ ssreq' = ssreq
        /\ fatal' = fatal /\ UNCHANGED <<data, event, obj, sdata, serverUp, version, forgot>>
    BY <1>1 DEF vars, handleVars, threadVars, leaseVars, histVars
  <2>2. TypeOK'
    BY <2>1 DEF IInv, TypeOK
  <2>3. \A c \in Clients : ClientInv(c)'
    BY <2>1 DEF IInv, ClientInv, HandleInv
  <2> QED BY <2>1, <2>2, <2>3 DEF IInv, LeaseExclusion, NoDuplicates
<1>2. CASE Next
  <2>1. PICK c \in Clients : UserStep(c) \/ Kill(c) \/ WorkerStep(c) \/ ServerStep(c)
    BY <1>2 DEF Next
  <2>2. CASE UserStep(c)
    <3>1. CASE \E st \in {SHARED, EXCLUSIVE} : SyncLock(c, st)
      BY <3>1, SyncLockOK
    <3>2. CASE SyncLockWake(c)
      BY <3>2, SyncLockWakeOK
    <3>3. CASE SyncUnlock(c)
      BY <3>3, SyncUnlockOK
    <3>4. CASE SyncDestroy(c)
      BY <3>4, SyncDestroyOK
    <3>5. CASE ShutdownSyncClient(c)
      BY <3>5, ShutdownSyncClientOK
    <3>6. CASE ShutdownWait(c) \/ CloseWake(c) \/ ProcessExit(c)
      BY <3>6, ThreadMovesOK
    <3> QED BY <2>2, <3>1, <3>2, <3>3, <3>4, <3>5, <3>6 DEF UserStep
  <2>3. CASE Kill(c)
    BY <2>3, ThreadMovesOK
  <2>4. CASE WorkerStep(c)
    BY <2>4, DoRequestDowngradeOK, DoConfirmUpgradeOK, DoConfirmCloseOK DEF WorkerStep
  <2>5. CASE ServerStep(c)
    BY <2>5, DoRequestUpgradeOK, DoConfirmDowngradeOK, DoRequestCloseOK, ServerDisconnectOK
       DEF ServerStep
  <2> QED BY <2>1, <2>2, <2>3, <2>4, <2>5
<1> QED BY <1>1, <1>2

(* IInv is an invariant of the engine, for every set of processes. *)
THEOREM Invariance == Spec => []IInv
  BY InitOK, NextOK, PTL DEF Spec

(* The engine's variables keep their types, for every set of processes. *)
THEOREM TypeCorrect == Spec => []TypeOK
<1>1. IInv => TypeOK
  BY DEF IInv
<1> QED BY <1>1, Invariance, PTL

(* While a process has the handle EXCLUSIVE, every other process has it    *)
(* INVALID, for every set of processes and any order of messages, closes,  *)
(* exits and kills (the guarantee of sync_lock).                           *)
THEOREM ExclusionHolds == Spec => []Exclusion
<1>1. IInv => Exclusion
  <2> SUFFICES ASSUME IInv, NEW c \in Clients, NEW d \in Clients, c # d, cur[c] = EXCLUSIVE
               PROVE  cur[d] = INVALID
    BY DEF Exclusion
  <2>1. /\ cur[c] <= scur[c] /\ cur[d] <= scur[d]
        /\ scur[c] \in States /\ scur[d] \in States /\ cur[d] \in States
    BY ClientFacts DEF ClientOK, LeaseOK, Typed
  <2>2. scur[c] = EXCLUSIVE
    BY <2>1 DEF States, INVALID, SHARED, EXCLUSIVE
  <2>3. scur[d] = INVALID
    BY <2>2 DEF IInv, LeaseExclusion
  <2> QED BY <2>1, <2>3 DEF States, INVALID, SHARED, EXCLUSIVE
<1> QED BY <1>1, Invariance, PTL

(* No assert and no FATAL of client and server is reached, except the      *)
(* deliberate exit of the server after a process was killed.               *)
THEOREM NoFatalHolds == Spec => []NoFatal
<1>1. IInv => NoFatal
  BY DEF IInv, NoFatal
<1> QED BY <1>1, Invariance, PTL

(* On both sides a pending upgrade is above the current state and a        *)
(* pending downgrade below it, and the client's state is never above the   *)
(* one the server has for it.                                              *)
THEOREM StatesOrderedHolds == Spec => []StatesOrdered
<1>1. IInv => StatesOrdered
  <2> SUFFICES ASSUME IInv, NEW c \in Clients
               PROVE  /\ cur[c] <= scur[c]
                      /\ creq[c]  = NONE \/ creq[c]  > cur[c]
                      /\ sreq[c]  = NONE \/ sreq[c]  < cur[c]
                      /\ screq[c] = NONE \/ screq[c] > scur[c]
                      /\ ssreq[c] = NONE \/ ssreq[c] < scur[c]
    BY DEF StatesOrdered
  <2>1. /\ cur[c] <= scur[c]
        /\ screq[c] # NONE => scur[c] < screq[c]
        /\ ssreq[c] # NONE => ssreq[c] < scur[c]
        /\ creq[c] # NONE => cur[c] < creq[c]
        /\ sreq[c] # NONE => sreq[c] < cur[c]
        /\ cur[c] \in States /\ creq[c] \in {NONE, SHARED, EXCLUSIVE}
        /\ scur[c] \in States /\ screq[c] \in {NONE, SHARED, EXCLUSIVE}
    BY ClientFacts DEF ClientOK, LeaseOK, HandleInv, Typed
  <2> QED BY <2>1 DEF States, NONE, INVALID, SHARED, EXCLUSIVE
<1> QED BY <1>1, Invariance, PTL
=============================================================================
