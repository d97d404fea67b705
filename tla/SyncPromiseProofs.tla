-------------------------- MODULE SyncPromiseProofs -------------------------
(***************************************************************************)
(* Proof that SyncEngine implements SharedObject, for any set of processes *)
(* and any bound: what the users of a handle see is an object with shared  *)
(* holders or one exclusive holder, who see the last version written.      *)
(*                                                                         *)
(* The invariant of SyncEngineProofs says who may hold the handle.  What   *)
(* is added here follows the last version: while a lease is EXCLUSIVE it   *)
(* is in the confirmation on its way to that process, then in its handle,  *)
(* then in the first message on its way back; otherwise the server has it. *)
(* As there, the parts are stated for values: q and r are the streams of a *)
(* process, sc the state of its lease, v the last version and f whether it *)
(* was dropped.                                                            *)
(***************************************************************************)
EXTENDS SyncEngineProofs

(* d is the last version; no data at all means the first one. *)
Current(d, v) == d = v \/ (d = NoData /\ v = FirstVersion)

(* The stream to the server.  REQUEST_CLOSE names the state that the lease *)
(* will have when the server takes the message.                            *)
QData(q, sc, v, f) ==
    /\ \A i \in DOMAIN q : q[i].data <= v
    /\ \A i \in DOMAIN q : q[i].type = "REQUEST_CLOSE" =>
          q[i].state = IF i = 1 THEN sc ELSE q[i - 1].state
    /\ f = FALSE /\ sc = EXCLUSIVE /\ q # <<>> /\ q[1].type # "REQUEST_UPGRADE" =>
          Current(q[1].data, v)

(* The stream to the process. *)
RData(r, v, f) ==
    /\ \A i \in DOMAIN r : r[i].data <= v
    /\ f = FALSE => \A i \in DOMAIN r : r[i].type = "CONFIRM_UPGRADE" => Current(r[i].data, v)

(* The handle: its cur_state cu and data d, the object o, and the place p  *)
(* of the thread.                                                          *)
HData(cu, d, o, p, v, f) ==
    /\ FirstVersion <= o /\ o <= v /\ d <= v
    /\ f = FALSE /\ cu # INVALID => Current(d, v)
    /\ f = FALSE /\ cu # INVALID /\ p \in {"idle", "held"} => o = v

(* The server, with the states sc of the leases and its data d. *)
SData(sc, d, v, f) ==
    /\ FirstVersion <= v /\ d <= v
    /\ f = FALSE /\ (\A c \in Clients : sc[c] # EXCLUSIVE) => Current(d, v)

ClientData(c) ==
    /\ QData(toServer[c], scur[c], version, forgot)
    /\ RData(toClient[c], version, forgot)
    /\ HData(cur[c], data[c], obj[c], pc[c], version, forgot)

DInv == SData(scur, sdata, version, forgot) /\ \A c \in Clients : ClientData(c)

-----------------------------------------------------------------------------
(* Streams *)

(* An empty stream holds no data. *)
LEMMA QEmpty == ASSUME NEW sc, NEW v, NEW f PROVE QData(<<>>, sc, v, f)
  BY DEF QData

(* A message is added to a stream to the server. *)
LEMMA QAppend ==
    ASSUME NEW q \in Seq(ServerMsgs), NEW m \in ServerMsgs, NEW sc, NEW v, NEW f,
           QData(q, sc, v, f), m.data <= v,
           m.type = "REQUEST_CLOSE" => m.state = IF q = <<>> THEN sc ELSE q[Len(q)].state,
           q = <<>> /\ f = FALSE /\ sc = EXCLUSIVE /\ m.type # "REQUEST_UPGRADE" =>
              Current(m.data, v)
    PROVE  QData(Append(q, m), sc, v, f)
<1> DEFINE a == Append(q, m)
<1>1. /\ a # <<>> /\ DOMAIN a = 1..(Len(q) + 1) /\ DOMAIN q = 1..Len(q) /\ Len(q) \in Nat
      /\ \A i \in DOMAIN q : a[i] = q[i]
      /\ a[Len(q) + 1] = m
  BY AppendFacts
<1>2. q = <<>> <=> Len(q) = 0
  OBVIOUS
<1> HIDE DEF a
<1>3. \A i \in DOMAIN a : a[i].data <= v
  BY <1>1 DEF QData
<1>4. ASSUME NEW i \in DOMAIN a, a[i].type = "REQUEST_CLOSE"
      PROVE  a[i].state = IF i = 1 THEN sc ELSE a[i - 1].state
  <2>1. CASE i = Len(q) + 1 /\ q = <<>>
    BY <1>1, <1>2, <1>4, <2>1
  <2>2. CASE i = Len(q) + 1 /\ q # <<>>
    <3>1. i - 1 = Len(q) /\ Len(q) \in DOMAIN q /\ i # 1
      BY <1>1, <1>2, <2>2
    <3> QED BY <1>1, <1>4, <2>2, <3>1
  <2>3. CASE i \in DOMAIN q
    <3>1. i # 1 => i - 1 \in DOMAIN q
      BY <1>1, <2>3
    <3> QED BY <1>1, <1>4, <2>3, <3>1 DEF QData
  <2> QED BY <1>1, <2>1, <2>2, <2>3
<1>5. ASSUME f = FALSE, sc = EXCLUSIVE, a[1].type # "REQUEST_UPGRADE"
      PROVE  Current(a[1].data, v)
  <2>1. CASE q = <<>>
    BY <1>1, <1>2, <1>5, <2>1
  <2>2. CASE q # <<>>
    <3>1. a[1] = q[1]
      BY <1>1, <1>2, <2>2
    <3> QED BY <1>5, <2>2, <3>1 DEF QData
  <2> QED BY <2>1, <2>2
<1>6. QData(a, sc, v, f)
  BY <1>3, <1>4, <1>5 DEF QData
<1> QED BY <1>6 DEF a

(* A downgrade was taken: the lease has the state that it confirmed. *)
LEMMA QTail ==
    ASSUME NEW q \in Seq(ServerMsgs), q # <<>>, NEW sc, NEW v, NEW f,
           QData(q, sc, v, f), Head(q).state # EXCLUSIVE
    PROVE  QData(Tail(q), Head(q).state, v, f)
<1> DEFINE a == Tail(q)
<1>1. /\ Len(q) \in Nat \ {0} /\ DOMAIN q = 1..Len(q) /\ DOMAIN a = 1..(Len(q) - 1)
      /\ \A i \in DOMAIN a : a[i] = q[i + 1]
      /\ Head(q) = q[1]
  BY TailFacts
<1> HIDE DEF a
<1>2. \A i \in DOMAIN a : i + 1 \in DOMAIN q /\ (i + 1) - 1 = i /\ i + 1 # 1
  BY <1>1
<1>3. \A i \in DOMAIN a : a[i].data <= v
  BY <1>1, <1>2 DEF QData
<1>4. ASSUME NEW i \in DOMAIN a, a[i].type = "REQUEST_CLOSE"
      PROVE  a[i].state = IF i = 1 THEN Head(q).state ELSE a[i - 1].state
  <2>1. a[i].state = q[i].state
    BY <1>1, <1>2, <1>4 DEF QData
  <2>2. i # 1 => i - 1 \in DOMAIN a /\ (i - 1) + 1 = i
    BY <1>1
  <2> QED BY <1>1, <2>1, <2>2
<1>5. QData(a, Head(q).state, v, f)
  BY <1>3, <1>4 DEF QData
<1> QED BY <1>5 DEF a

(* A message is added to a stream to a client. *)
LEMMA RAppend ==
    ASSUME NEW r \in Seq(ClientMsgs), NEW m \in ClientMsgs, NEW v, NEW f,
           RData(r, v, f), m.data <= v,
           f = FALSE /\ m.type = "CONFIRM_UPGRADE" => Current(m.data, v)
    PROVE  RData(Append(r, m), v, f)
<1> DEFINE a == Append(r, m)
<1>1. /\ DOMAIN a = 1..(Len(r) + 1) /\ DOMAIN r = 1..Len(r) /\ Len(r) \in Nat
      /\ \A i \in DOMAIN r : a[i] = r[i]
      /\ a[Len(r) + 1] = m
  BY AppendFacts
<1> HIDE DEF a
<1>2. RData(a, v, f)
  BY <1>1 DEF RData
<1> QED BY <1>2 DEF a

(* A client takes a message from its stream. *)
LEMMA RTail ==
    ASSUME NEW r \in Seq(ClientMsgs), r # <<>>, NEW v, NEW f, RData(r, v, f)
    PROVE  /\ RData(Tail(r), v, f)
           /\ Head(r).data <= v
           /\ f = FALSE /\ Head(r).type = "CONFIRM_UPGRADE" => Current(Head(r).data, v)
<1> DEFINE a == Tail(r)
<1>1. /\ Len(r) \in Nat \ {0} /\ DOMAIN r = 1..Len(r) /\ DOMAIN a = 1..(Len(r) - 1)
      /\ \A i \in DOMAIN a : a[i] = r[i + 1]
      /\ Head(r) = r[1]
  BY TailFacts
<1> HIDE DEF a
<1>2. \A i \in DOMAIN a : i + 1 \in DOMAIN r
  BY <1>1
<1>3. RData(a, v, f)
  BY <1>1, <1>2 DEF RData
<1>4. 1 \in DOMAIN r
  BY <1>1
<1> QED BY <1>1, <1>3, <1>4 DEF a, RData

-----------------------------------------------------------------------------
(* Steps of a process *)

(* At the start nobody holds the handle. *)
LEMMA InitData == Init => DInv
<1> SUFFICES ASSUME Init PROVE DInv
  OBVIOUS
<1>1. SData(scur, sdata, version, forgot)
  BY DEF Init, SData, Current, NoData, FirstVersion
<1>2. ASSUME NEW c \in Clients PROVE ClientData(c)
  <2>1. QData(<<>>, scur[c], version, forgot)
    BY QEmpty
  <2>2. RData(<<>>, version, forgot)
    BY DEF RData
  <2>3. HData(cur[c], data[c], obj[c], pc[c], version, forgot)
    BY DEF Init, HData, NoData, FirstVersion
  <2> QED BY <2>1, <2>2, <2>3 DEF Init, ClientData
<1> QED BY <1>1, <1>2 DEF DInv

(* A step of one process that writes no version. *)
LEMMA LocalData ==
    ASSUME DInv, NEW c \in Clients,
           version' = version, forgot' = forgot, sdata' = sdata, scur' = scur,
           \A x \in Clients \ {c} :
              /\ cur'[x] = cur[x] /\ data'[x] = data[x] /\ obj'[x] = obj[x] /\ pc'[x] = pc[x]
              /\ toServer'[x] = toServer[x] /\ toClient'[x] = toClient[x],
           ClientData(c)'
    PROVE  DInv'
<1>1. SData(scur, sdata, version, forgot)'
  BY DEF DInv
<1>2. ASSUME NEW x \in Clients, x # c PROVE ClientData(x)'
  <2>1. ClientData(x)
    BY DEF DInv
  <2>2. /\ cur'[x] = cur[x] /\ data'[x] = data[x] /\ obj'[x] = obj[x] /\ pc'[x] = pc[x]
        /\ toServer'[x] = toServer[x] /\ toClient'[x] = toClient[x]
    BY <1>2
  <2> QED BY <2>1, <2>2 DEF ClientData
<1> QED BY <1>1, <1>2 DEF DInv

(* A process that waits for no upgrade has the state that the server will  *)
(* have for it once its downgrades have arrived.                           *)
LEMMA LastState ==
    ASSUME IInv, NEW c \in Clients, phase[c] = "OPEN", creq[c] = NONE
    PROVE  cur[c] = IF toServer[c] = <<>> THEN scur[c] ELSE toServer[c][Len(toServer[c])].state
<1> DEFINE q == toServer[c]
<1>1. /\ ClientOK(q, toClient[c], cur[c], NONE, "OPEN", scur[c], screq[c], ssreq[c], leases, c)
      /\ Typed(q, toClient[c], cur[c], NONE, scur[c], screq[c], ssreq[c])
  BY ClientFacts
<1>2. \A i \in Nat : ~Up(q, i) /\ ~Conf(toClient[c], i) /\ ~Close(q, i)
  BY <1>1, NoRequest
<1>3. q \in Seq(ServerMsgs) /\ DOMAIN q = 1..Len(q) /\ Len(q) \in Nat
  BY <1>1 DEF Typed
<1>4. /\ cur[c] <= scur[c] /\ cur[c] \in Int /\ scur[c] \in Int
      /\ scur[c] = cur[c] \/ \E i \in Nat : Down(q, i) /\ q[i].state = cur[c]
  BY <1>1, <1>2 DEF ClientOK, LeaseOK, Typed, States, INVALID, SHARED, EXCLUSIVE
<1>5. ASSUME q = <<>> PROVE cur[c] = scur[c]
  BY <1>4, <1>5 DEF Down, Is
<1>6. ASSUME q # <<>> PROVE cur[c] = q[Len(q)].state
  <2>1. Len(q) \in DOMAIN q /\ Len(q) \in Nat /\ q[Len(q)] \in ServerMsgs
    BY <1>3, <1>6
  <2>2. Down(q, Len(q))
    BY <1>2, <2>1 DEF Up, Down, Close, Is, ServerMsgs
  <2>3. cur[c] <= q[Len(q)].state /\ q[Len(q)].state < scur[c] /\ q[Len(q)].state \in Int
    BY <1>1, <2>1, <2>2 DEF ClientOK, RequestsOK, ServerMsgs, States, INVALID, SHARED, EXCLUSIVE
  <2>4. PICK i \in Nat : Down(q, i) /\ q[i].state = cur[c]
    BY <1>4, <2>3
  <2>5. i = Len(q) \/ i < Len(q)
    BY <1>3, <2>4 DEF Down, Is
  <2>6. i < Len(q) => q[Len(q)].state < cur[c]
    BY <1>1, <2>1, <2>2, <2>4 DEF ClientOK, RequestsOK
  <2> QED BY <1>4, <2>3, <2>4, <2>5, <2>6
<1> QED BY <1>5, <1>6

(* sync_downgrade sends the last version, if this process has it. *)
LEMMA DowngradeData ==
    ASSUME IInv, NEW c \in Clients, phase[c] = "OPEN", creq[c] = NONE,
           NEW st \in States, NEW d \in Nat, NEW v \in Nat, NEW f, SyncDowngrade(c, st, d),
           QData(toServer[c], scur[c], v, f), d <= v,
           f = FALSE /\ cur[c] # INVALID => Current(d, v)
    PROVE  /\ QData(toServer'[c], scur[c], v, f)
           /\ cur'[c] = st
           /\ \A x \in Clients \ {c} : toServer'[x] = toServer[x] /\ cur'[x] = cur[x]
<1> DEFINE q  == toServer[c]
           dd == IF cur[c] = EXCLUSIVE THEN d ELSE NoData
           m  == Msg("CONFIRM_DOWNGRADE", st, dd)
<1>1. toServer \in [Clients -> Seq(ServerMsgs)] /\ cur \in [Clients -> States]
  BY DEF IInv, TypeOK
<1>2. toServer'[c] = Append(q, m) /\ cur'[c] = st
  BY <1>1 DEF SyncDowngrade
<1>3. \A x \in Clients \ {c} : toServer'[x] = toServer[x] /\ cur'[x] = cur[x]
  BY <1>1 DEF SyncDowngrade
<1>4. dd \in Nat /\ dd <= v
  BY DEF NoData
<1>5. q = <<>> /\ f = FALSE /\ scur[c] = EXCLUSIVE => Current(dd, v)
  <2>1. q = <<>> => cur[c] = scur[c]
    BY LastState
  <2> QED BY <2>1 DEF EXCLUSIVE, INVALID
<1>6. m \in ServerMsgs /\ m.type = "CONFIRM_DOWNGRADE" /\ m.data = dd
  BY <1>4 DEF Msg, ServerMsgs
<1> HIDE DEF m, dd
<1>7. QData(Append(q, m), scur[c], v, f)
  BY <1>1, <1>4, <1>5, <1>6, QAppend
<1> QED BY <1>2, <1>3, <1>7

(* The data of a message is the number of a version. *)
LEMMA MessageData ==
    ASSUME NEW q \in Seq(ServerMsgs), NEW r \in Seq(ClientMsgs)
    PROVE  /\ \A i \in DOMAIN q : q[i].data \in Nat
           /\ \A i \in DOMAIN r : r[i].data \in Nat
<1>1. ASSUME NEW i \in DOMAIN q PROVE q[i].data \in Nat
  <2>1. q[i] \in ServerMsgs
    OBVIOUS
  <2> QED BY <2>1 DEF ServerMsgs
<1>2. ASSUME NEW i \in DOMAIN r PROVE r[i].data \in Nat
  <2>1. r[i] \in ClientMsgs
    OBVIOUS
  <2> QED BY <2>1 DEF ClientMsgs
<1> QED BY <1>1, <1>2

(* What the invariant says of one process. *)
LEMMA DataFacts ==
    ASSUME IInv, DInv, NEW c \in Clients
    PROVE  /\ HandleInv(c)
           /\ QData(toServer[c], scur[c], version, forgot)
           /\ RData(toClient[c], version, forgot)
           /\ HData(cur[c], data[c], obj[c], pc[c], version, forgot)
           /\ toServer \in [Clients -> Seq(ServerMsgs)] /\ toClient \in [Clients -> Seq(ClientMsgs)]
           /\ cur \in [Clients -> States] /\ scur \in [Clients -> States]
           /\ data \in [Clients -> Nat] /\ obj \in [Clients -> Nat]
           /\ DOMAIN pc = Clients
           /\ version \in Nat /\ forgot \in BOOLEAN /\ sdata \in Nat
  BY ClientFacts DEF IInv, DInv, ClientData, TypeOK

(* An upgrade request carries no data. *)
LEMMA RequestData ==
    ASSUME IInv, DInv, NEW c \in Clients, NEW st \in {SHARED, EXCLUSIVE}, RequestAndWait(c, st)
    PROVE  /\ QData(toServer'[c], scur[c], version, forgot)
           /\ \A x \in Clients \ {c} : toServer'[x] = toServer[x] /\ pc'[x] = pc[x]
           /\ pc'[c] = "lockwait"
<1> DEFINE m == Msg("REQUEST_UPGRADE", st, NoData)
<1>1. m \in ServerMsgs /\ m.type = "REQUEST_UPGRADE" /\ m.data = NoData
  BY DEF Msg, ServerMsgs, States, NoData
<1> HIDE DEF m
<1>2. NoData <= version
  BY DataFacts DEF NoData
<1>3. QData(Append(toServer[c], m), scur[c], version, forgot)
  BY <1>1, <1>2, DataFacts, QAppend
<1>4. toServer'[c] \in {toServer[c], Append(toServer[c], m)}
  BY DataFacts DEF RequestAndWait, m
<1>5. /\ \A x \in Clients \ {c} : toServer'[x] = toServer[x] /\ pc'[x] = pc[x]
      /\ pc'[c] = "lockwait"
  BY DataFacts DEF RequestAndWait
<1> QED BY <1>3, <1>4, <1>5, DataFacts

(* sync_lock that need not wait gets an object that is up to date. *)
LEMMA SyncLockData ==
    ASSUME IInv, DInv, NEW c \in Clients, NEW st \in {SHARED, EXCLUSIVE}, SyncLock(c, st)
    PROVE  DInv'
<1>1. /\ version' = version /\ forgot' = forgot /\ sdata' = sdata /\ scur' = scur
      /\ cur' = cur /\ data' = data /\ obj' = obj /\ toClient' = toClient /\ pc[c] = "idle"
  BY DEF SyncLock, leaseVars, histVars
<1>2. CASE RequestAndWait(c, st)
  <2>1. /\ QData(toServer'[c], scur[c], version, forgot)
        /\ \A x \in Clients \ {c} : toServer'[x] = toServer[x] /\ pc'[x] = pc[x]
        /\ pc'[c] = "lockwait"
    BY <1>2, RequestData
  <2>2. HData(cur[c], data[c], obj[c], "lockwait", version, forgot)
    BY DataFacts DEF HData
  <2>3. ClientData(c)'
    BY <1>1, <2>1, <2>2, DataFacts DEF ClientData
  <2> QED BY <1>1, <2>1, <2>3, LocalData
<1>3. CASE pc' = [pc EXCEPT ![c] = "held"] /\ toServer' = toServer
  <2>1. pc'[c] = "held" /\ \A x \in Clients \ {c} : pc'[x] = pc[x]
    BY <1>3, DataFacts
  <2>2. HData(cur[c], data[c], obj[c], "held", version, forgot)
    BY <1>1, DataFacts DEF HData
  <2>3. ClientData(c)'
    BY <1>1, <1>3, <2>1, <2>2, DataFacts DEF ClientData
  <2> QED BY <1>1, <1>3, <2>1, <2>3, LocalData
<1> QED BY <1>2, <1>3 DEF SyncLock

(* sync_lock that waited copies the data out. *)
LEMMA SyncLockWakeData ==
    ASSUME IInv, DInv, NEW c \in Clients, SyncLockWake(c)
    PROVE  DInv'
<1>1. /\ version' = version /\ forgot' = forgot /\ sdata' = sdata /\ scur' = scur
      /\ cur' = cur /\ data' = data /\ toClient' = toClient /\ pc[c] = "lockwait"
  BY DEF SyncLockWake, leaseVars, histVars
<1>0. want[c] \in {SHARED, EXCLUSIVE}
  BY <1>1, DataFacts DEF HandleInv, IInv, TypeOK
<1>2. CASE RequestAndWait(c, want[c]) /\ obj' = obj
  <2>1. /\ QData(toServer'[c], scur[c], version, forgot)
        /\ \A x \in Clients \ {c} : toServer'[x] = toServer[x] /\ pc'[x] = pc[x]
        /\ pc'[c] = "lockwait"
    BY <1>0, <1>2, RequestData
  <2>3. ClientData(c)'
    BY <1>1, <1>2, <2>1, DataFacts DEF ClientData
  <2> QED BY <1>1, <1>2, <2>1, <2>3, LocalData
<1>3. CASE /\ ~(cur[c] < want[c]) /\ pc' = [pc EXCEPT ![c] = "held"] /\ toServer' = toServer
           /\ obj' = [obj EXCEPT ![c] = IF data[c] # NoData THEN data[c] ELSE @]
  <2>1. /\ pc'[c] = "held" /\ obj'[c] = IF data[c] # NoData THEN data[c] ELSE obj[c]
        /\ \A x \in Clients \ {c} : pc'[x] = pc[x] /\ obj'[x] = obj[x]
    BY <1>3, DataFacts
  <2>2. HData(cur[c], data[c], obj'[c], "held", version, forgot)
    <3>1. /\ HData(cur[c], data[c], obj[c], pc[c], version, forgot)
          /\ data[c] \in Nat /\ obj[c] \in Nat /\ version \in Nat
      BY DataFacts
    <3>2. /\ FirstVersion <= obj'[c] /\ obj'[c] <= version
          /\ Current(data[c], version) => obj'[c] = version
      BY <2>1, <3>1 DEF HData, Current, NoData, FirstVersion
    <3> QED BY <3>1, <3>2 DEF HData
  <2>3. ClientData(c)'
    BY <1>1, <1>3, <2>1, <2>2, DataFacts DEF ClientData
  <2> QED BY <1>1, <1>3, <2>1, <2>3, LocalData
<1> QED BY <1>2, <1>3 DEF SyncLockWake

(* sync_unlock: a version is written by a process whose handle is          *)
(* EXCLUSIVE, so no other process has anything to lose.                    *)
LEMMA SyncUnlockData ==
    ASSUME IInv, DInv, NEW c \in Clients, SyncUnlock(c)
    PROVE  DInv'
<1>1. PICK write \in BOOLEAN, pass \in BOOLEAN :
        /\ pc[c] = "held"
        /\ write => want[c] = EXCLUSIVE /\ pass
        /\ version' = IF write THEN version + 1 ELSE version
        /\ forgot' = (forgot /\ ~write)
        /\ obj' = [obj EXCEPT ![c] = IF write THEN version + 1 ELSE @]
        /\ data' = [data EXCEPT ![c] = IF pass THEN obj'[c] ELSE @]
        /\ IF DowngradePending(c)
           THEN SyncDowngrade(c, sreq[c], data'[c])
           ELSE UNCHANGED <<toServer, cur, sreq>>
        /\ pc' = [pc EXCEPT ![c] = "idle"]
        /\ toClient' = toClient /\ sdata' = sdata /\ scur' = scur
  BY DEF SyncUnlock, leaseVars
<1>2. /\ phase[c] = "OPEN" /\ creq[c] = NONE /\ want[c] # NONE /\ want[c] <= cur[c]
      /\ cur[c] # INVALID /\ want[c] \in {SHARED, EXCLUSIVE}
  <2>1. /\ phase[c] = "OPEN" /\ creq[c] = NONE /\ want[c] # NONE /\ want[c] <= cur[c]
        /\ want[c] \in {NONE, SHARED, EXCLUSIVE} /\ cur[c] \in States
    BY <1>1, DataFacts DEF HandleInv, IInv, TypeOK
  <2> QED BY <2>1 DEF NONE, INVALID, SHARED, EXCLUSIVE
<1>3. /\ HData(cur[c], data[c], obj[c], "held", version, forgot)
      /\ data[c] \in Nat /\ obj[c] \in Nat /\ version \in Nat /\ forgot \in BOOLEAN
      /\ QData(toServer[c], scur[c], version, forgot) /\ RData(toClient[c], version, forgot)
  BY <1>1, DataFacts
<1>4. /\ obj'[c] = IF write THEN version + 1 ELSE obj[c]
      /\ data'[c] = IF pass THEN obj'[c] ELSE data[c]
      /\ pc'[c] = "idle"
      /\ \A x \in Clients \ {c} : obj'[x] = obj[x] /\ data'[x] = data[x] /\ pc'[x] = pc[x]
  BY <1>1, DataFacts
<1>5. /\ data'[c] \in Nat /\ version' \in Nat /\ version <= version' /\ data'[c] <= version'
      /\ FirstVersion <= obj'[c] /\ obj'[c] <= version'
      /\ forgot' = FALSE => obj'[c] = version' /\ Current(data'[c], version')
  <2>1. CASE write
    BY <1>1, <1>3, <1>4, <2>1 DEF HData, Current, FirstVersion
  <2>2. CASE ~write
    BY <1>1, <1>2, <1>3, <1>4, <2>2 DEF HData, Current, FirstVersion
  <2> QED BY <2>1, <2>2
<1>6. write => toServer[c] = <<>> /\ scur[c] = EXCLUSIVE /\ \A x \in Clients \ {c} : scur[x] = INVALID
  <2> SUFFICES ASSUME write
               PROVE  toServer[c] = <<>> /\ scur[c] = EXCLUSIVE
                      /\ \A x \in Clients \ {c} : scur[x] = INVALID
    OBVIOUS
  <2>1. cur[c] = EXCLUSIVE
    BY <1>1, <1>2, DataFacts DEF States, INVALID, SHARED, EXCLUSIVE
  <2>2. cur[c] <= scur[c] /\ scur[c] \in States
    BY ClientFacts DEF ClientOK, LeaseOK, Typed
  <2>3. scur[c] = EXCLUSIVE
    BY <2>1, <2>2 DEF States, INVALID, SHARED, EXCLUSIVE
  <2>4. \A x \in Clients \ {c} : scur[x] = INVALID
    BY <2>3 DEF IInv, LeaseExclusion
  <2>5. toServer[c] = <<>>
    <3> DEFINE q == toServer[c]
    <3> SUFFICES ASSUME q # <<>> PROVE FALSE
      OBVIOUS
    <3>1. /\ ClientOK(q, toClient[c], cur[c], NONE, "OPEN", scur[c], screq[c], ssreq[c], leases, c)
          /\ Typed(q, toClient[c], cur[c], NONE, scur[c], screq[c], ssreq[c])
      BY <1>2, ClientFacts
    <3>2. \A i \in Nat : ~Up(q, i) /\ ~Close(q, i)
      BY <3>1, NoRequest
    <3>3. 1 \in DOMAIN q /\ q[1] \in ServerMsgs
      BY <3>1 DEF Typed
    <3>4. Down(q, 1)
      BY <3>2, <3>3 DEF Up, Down, Close, Is, ServerMsgs
    <3>5. EXCLUSIVE <= q[1].state /\ q[1].state < EXCLUSIVE /\ q[1].state \in States
      BY <2>1, <2>3, <3>1, <3>3, <3>4 DEF ClientOK, RequestsOK, ServerMsgs
    <3> QED BY <3>5 DEF States, INVALID, SHARED, EXCLUSIVE
  <2> QED BY <2>3, <2>4, <2>5
<1>7. QData(toServer[c], scur[c], version', forgot')
  <2>1. CASE write
    BY <1>6, <2>1, QEmpty
  <2>2. CASE ~write
    BY <1>1, <1>3, <2>2
  <2> QED BY <2>1, <2>2
<1>8. /\ QData(toServer'[c], scur[c], version', forgot')
      /\ \A x \in Clients \ {c} : toServer'[x] = toServer[x] /\ cur'[x] = cur[x]
  <2>1. CASE DowngradePending(c)
    <3>1. sreq[c] \in States
      BY <2>1 DEF DowngradePending, IInv, TypeOK, States
    <3>2. forgot' = FALSE => Current(data'[c], version')
      BY <1>5
    <3>3. SyncDowngrade(c, sreq[c], data'[c])
      BY <1>1, <2>1
    <3>4. data'[c] \in Nat /\ version' \in Nat /\ data'[c] <= version'
      BY <1>5
    <3> QED BY <1>2, <1>7, <3>1, <3>2, <3>3, <3>4, DowngradeData
  <2>2. CASE ~DowngradePending(c)
    BY <1>1, <1>7, <2>2
  <2> QED BY <2>1, <2>2
<1>9. HData(cur'[c], data'[c], obj'[c], "idle", version', forgot')
  BY <1>5 DEF HData
<1>10. RData(toClient[c], version', forgot')
  <2>1. CASE write
    <3>0. toClient[c] \in Seq(ClientMsgs) /\ toServer[c] \in Seq(ServerMsgs)
      BY DataFacts
    <3>1. \A i \in DOMAIN toClient[c] : toClient[c][i].data \in Nat
      BY <3>0, MessageData
    <3>2. \A i \in Nat : ~Conf(toClient[c], i)
      BY <1>2, ClientFacts, NoRequest
    <3>3. \A i \in DOMAIN toClient[c] : i \in Nat /\ toClient[c][i].type # "CONFIRM_UPGRADE"
      BY <3>2, DataFacts DEF Conf, Is
    <3> QED BY <1>3, <1>5, <3>1, <3>3 DEF RData
  <2>2. CASE ~write
    BY <1>1, <1>3, <2>2
  <2> QED BY <2>1, <2>2
<1>11. CASE ~write
  <2>1. ClientData(c)'
    BY <1>1, <1>4, <1>8, <1>9, <1>10 DEF ClientData
  <2>2. version' = version /\ forgot' = forgot /\ sdata' = sdata /\ scur' = scur
    BY <1>1, <1>3, <1>11
  <2>3. \A x \in Clients \ {c} :
           /\ cur'[x] = cur[x] /\ data'[x] = data[x] /\ obj'[x] = obj[x] /\ pc'[x] = pc[x]
           /\ toServer'[x] = toServer[x] /\ toClient'[x] = toClient[x]
    BY <1>1, <1>4, <1>8
  <2> QED BY <2>1, <2>2, <2>3, LocalData
<1>12. CASE write
  <2>1. ASSUME NEW x \in Clients, x # c PROVE ClientData(x)'
    <3>1. /\ toServer'[x] = toServer[x] /\ cur'[x] = cur[x] /\ obj'[x] = obj[x]
          /\ data'[x] = data[x] /\ pc'[x] = pc[x] /\ toClient'[x] = toClient[x]
          /\ scur'[x] = INVALID /\ scur[x] = INVALID
      BY <1>1, <1>4, <1>6, <1>8, <1>12, <2>1
    <3>2. /\ HandleInv(x)
          /\ ClientOK(toServer[x], toClient[x], cur[x], creq[x], phase[x],
                      scur[x], screq[x], ssreq[x], leases, x)
          /\ Typed(toServer[x], toClient[x], cur[x], creq[x], scur[x], screq[x], ssreq[x])
      BY ClientFacts
    <3>3. cur[x] = INVALID
      BY <3>1, <3>2 DEF ClientOK, LeaseOK, Typed, States, INVALID, SHARED, EXCLUSIVE
    <3>4. \A i \in DOMAIN toClient[x] : toClient[x][i].type # "CONFIRM_UPGRADE"
      <4>1. ASSUME NEW i \in DOMAIN toClient[x], toClient[x][i].type = "CONFIRM_UPGRADE" PROVE FALSE
        <5>1. i \in Nat /\ Conf(toClient[x], i)
          BY <3>2, <4>1 DEF Conf, Is, Typed
        <5>2. creq[x] = INVALID
          BY <3>1, <3>2, <5>1 DEF ClientOK, AnswersOK
        <5> QED BY <3>2, <5>2 DEF Typed, INVALID, NONE, SHARED, EXCLUSIVE
      <4> QED BY <4>1
    <3>5. /\ \A i \in DOMAIN toClient[x] : toClient[x][i].data \in Nat
          /\ \A i \in DOMAIN toServer[x] : toServer[x][i].data \in Nat
          /\ data[x] \in Nat /\ obj[x] \in Nat
      <4>1. toClient[x] \in Seq(ClientMsgs) /\ toServer[x] \in Seq(ServerMsgs)
            /\ data[x] \in Nat /\ obj[x] \in Nat
        BY DataFacts
      <4> QED BY <4>1, MessageData
    <3>6. /\ QData(toServer[x], INVALID, version, forgot) /\ RData(toClient[x], version, forgot)
          /\ HData(INVALID, data[x], obj[x], pc[x], version, forgot)
      BY <3>1, <3>3, DataFacts
    <3>7. QData(toServer[x], INVALID, version', forgot')
      BY <1>3, <1>5, <3>5, <3>6 DEF QData, INVALID, EXCLUSIVE
    <3>8. RData(toClient[x], version', forgot')
      BY <1>3, <1>5, <3>4, <3>5, <3>6 DEF RData
    <3>9. HData(INVALID, data[x], obj[x], pc[x], version', forgot')
      BY <1>3, <1>5, <3>5, <3>6 DEF HData, FirstVersion
    <3> QED BY <3>1, <3>3, <3>7, <3>8, <3>9 DEF ClientData
  <2>2. ClientData(c)'
    BY <1>1, <1>4, <1>8, <1>9, <1>10 DEF ClientData
  <2>3. SData(scur, sdata, version, forgot)'
    <3>1. FirstVersion <= version /\ sdata <= version /\ sdata \in Nat
      BY DataFacts DEF DInv, SData
    <3>2. scur'[c] = EXCLUSIVE
      BY <1>1, <1>6, <1>12
    <3> QED BY <1>1, <1>3, <1>5, <3>1, <3>2 DEF SData, FirstVersion
  <2> QED BY <2>1, <2>2, <2>3 DEF DInv
<1> QED BY <1>11, <1>12

(* sync_destroy and shutdown_sync_client send the last version, if this    *)
(* process has it.                                                         *)
LEMMA BeginCloseData ==
    ASSUME IInv, DInv, NEW c \in Clients, pc[c] = "idle",
           NEW waitpc \in {"destroying", "stopsent"}, NEW endpc \in {"destroyed", "stopped"},
           BeginClose(c, waitpc, endpc)
    PROVE  DInv'
<1>1. /\ version' = version /\ forgot' = forgot /\ sdata' = sdata /\ scur' = scur
      /\ data' = data /\ obj' = obj /\ toClient' = toClient
  BY DEF BeginClose, leaseVars, histVars
<1>2. creq[c] = NONE
  BY DataFacts DEF HandleInv
<1>3. CASE phase[c] = "OPEN"
  <2> DEFINE q  == toServer[c]
             dd == IF cur[c] = EXCLUSIVE THEN data[c] ELSE NoData
             m  == Msg("REQUEST_CLOSE", cur[c], dd)
  <2>1. /\ toServer'[c] = Append(q, m) /\ cur'[c] = INVALID /\ pc'[c] = waitpc
        /\ \A x \in Clients \ {c} : toServer'[x] = toServer[x] /\ cur'[x] = cur[x] /\ pc'[x] = pc[x]
    BY <1>3, DataFacts DEF BeginClose
  <2>2. HData(cur[c], data[c], obj[c], pc[c], version, forgot) /\ data[c] \in Nat /\ version \in Nat
    BY DataFacts
  <2>3. dd \in Nat /\ dd <= version
    BY <2>2 DEF HData, NoData
  <2>4. cur[c] = IF q = <<>> THEN scur[c] ELSE q[Len(q)].state
    BY <1>2, <1>3, LastState
  <2>5. q = <<>> /\ forgot = FALSE /\ scur[c] = EXCLUSIVE => Current(dd, version)
    BY <2>2, <2>4 DEF HData, EXCLUSIVE, INVALID
  <2>6. m \in ServerMsgs /\ m.type = "REQUEST_CLOSE" /\ m.state = cur[c] /\ m.data = dd
    BY <2>3, DataFacts DEF Msg, ServerMsgs
  <2> HIDE DEF m, dd
  <2>7. QData(Append(q, m), scur[c], version, forgot)
    BY <2>3, <2>4, <2>5, <2>6, DataFacts, QAppend
  <2>8. HData(INVALID, data[c], obj[c], waitpc, version, forgot)
    BY <2>2 DEF HData
  <2>9. ClientData(c)'
    BY <1>1, <2>1, <2>7, <2>8, DataFacts DEF ClientData
  <2> QED BY <1>1, <2>1, <2>9, LocalData
<1>4. CASE phase[c] # "OPEN"
  <2>1. /\ toServer' = toServer /\ cur' = cur /\ pc'[c] = endpc
        /\ \A x \in Clients \ {c} : pc'[x] = pc[x]
    BY <1>4, DataFacts DEF BeginClose
  <2>2. HData(cur[c], data[c], obj[c], endpc, version, forgot)
    BY DataFacts DEF HData
  <2>3. ClientData(c)'
    BY <1>1, <2>1, <2>2, DataFacts DEF ClientData
  <2> QED BY <1>1, <2>1, <2>3, LocalData
<1> QED BY <1>3, <1>4

(* The thread moves on, or the process ends. *)
LEMMA MoveData ==
    ASSUME IInv, DInv, NEW c \in Clients,
           ShutdownWait(c) \/ CloseWake(c) \/ ProcessExit(c) \/ Kill(c)
    PROVE  DInv'
<1>1. /\ version' = version /\ forgot' = forgot /\ sdata' = sdata /\ scur' = scur
      /\ cur' = cur /\ data' = data /\ obj' = obj /\ toClient' = toClient /\ toServer' = toServer
  BY DEF ShutdownWait, CloseWake, ProcessExit, Kill, handleVars, leaseVars, histVars
<1>2. /\ pc'[c] \notin {"idle", "held"}
      /\ \A x \in Clients \ {c} : pc'[x] = pc[x]
  BY DataFacts DEF ShutdownWait, CloseWake, ProcessExit, Kill
<1>3. HData(cur[c], data[c], obj[c], pc'[c], version, forgot)
  BY <1>2, DataFacts DEF HData
<1>4. ClientData(c)'
  BY <1>1, <1>3, DataFacts DEF ClientData
<1> QED BY <1>1, <1>2, <1>4, LocalData

-----------------------------------------------------------------------------
(* Steps of the IPC worker of a process *)

(* A downgrade is put aside, answered or ignored. *)
LEMMA DoRequestDowngradeData ==
    ASSUME IInv, DInv, NEW c \in Clients, DoRequestDowngrade(c)
    PROVE  DInv'
<1> DEFINE st == Head(toClient[c]).state
<1>1. /\ version' = version /\ forgot' = forgot /\ sdata' = sdata /\ scur' = scur
      /\ data' = data /\ obj' = obj /\ pc' = pc
  BY DEF DoRequestDowngrade, leaseVars, histVars, threadVars
<1>2. toClient[c] # <<>> /\ toClient' = [toClient EXCEPT ![c] = Tail(@)]
  BY DEF DoRequestDowngrade, ClientReceive, HasMsg
<1>3. /\ toClient'[c] = Tail(toClient[c]) /\ \A x \in Clients \ {c} : toClient'[x] = toClient[x]
      /\ toClient[c] \in Seq(ClientMsgs)
  BY <1>2, DataFacts
<1>4. RData(toClient'[c], version, forgot)
  BY <1>2, <1>3, DataFacts, RTail
<1>5. CASE SyncDowngrade(c, st, data[c]) /\ HeedsDowngrade(c, st) /\ ~used[c]
  <2>1. phase[c] = "OPEN" /\ creq[c] = NONE
    BY <1>5, DataFacts DEF HandleInv, HeedsDowngrade
  <2>2. Head(toClient[c]) \in ClientMsgs
    BY <1>2, <1>3
  <2>3. st \in States
    BY <2>2 DEF ClientMsgs
  <2>4. HData(cur[c], data[c], obj[c], pc[c], version, forgot) /\ data[c] \in Nat /\ version \in Nat
    BY DataFacts
  <2>5. data[c] <= version /\ (forgot = FALSE /\ cur[c] # INVALID => Current(data[c], version))
    BY <2>4 DEF HData
  <2> HIDE DEF st
  <2>6. QData(toServer[c], scur[c], version, forgot)
    BY DataFacts
  <2>7. /\ QData(toServer'[c], scur[c], version, forgot)
        /\ cur'[c] = st
        /\ \A x \in Clients \ {c} : toServer'[x] = toServer[x] /\ cur'[x] = cur[x]
    BY <1>5, <2>1, <2>3, <2>4, <2>5, <2>6, DowngradeData
  <2>8. HData(st, data[c], obj[c], pc[c], version, forgot)
    <3>1. cur[c] # INVALID
      BY <1>5, <2>3, DataFacts DEF HeedsDowngrade, States, INVALID, SHARED, EXCLUSIVE
    <3> QED BY <2>4, <3>1 DEF HData
  <2>9. ClientData(c)'
    BY <1>1, <1>4, <2>7, <2>8 DEF ClientData
  <2> QED BY <1>1, <1>3, <2>7, <2>9, LocalData
<1>6. CASE toServer' = toServer /\ cur' = cur
  <2>1. ClientData(c)'
    BY <1>1, <1>4, <1>6, DataFacts DEF ClientData
  <2> QED BY <1>1, <1>3, <1>6, <2>1, LocalData
<1> QED BY <1>5, <1>6 DEF DoRequestDowngrade

(* A confirmation brings the last version. *)
LEMMA DoConfirmUpgradeData ==
    ASSUME IInv, DInv, NEW c \in Clients, DoConfirmUpgrade(c)
    PROVE  DInv'
<1> DEFINE m == Head(toClient[c])
<1>1. /\ version' = version /\ forgot' = forgot /\ sdata' = sdata /\ scur' = scur
      /\ obj' = obj /\ pc' = pc /\ toServer' = toServer
  BY DEF DoConfirmUpgrade, leaseVars, histVars, threadVars
<1>2. /\ toClient[c] # <<>> /\ m.type = "CONFIRM_UPGRADE"
      /\ toClient' = [toClient EXCEPT ![c] = Tail(@)]
  BY DEF DoConfirmUpgrade, ClientReceive, HasMsg
<1>3. /\ toClient'[c] = Tail(toClient[c]) /\ \A x \in Clients \ {c} : toClient'[x] = toClient[x]
      /\ toClient[c] \in Seq(ClientMsgs) /\ m \in ClientMsgs
  BY <1>2, DataFacts
<1>4. /\ RData(toClient'[c], version, forgot) /\ m.data <= version
      /\ forgot = FALSE => Current(m.data, version)
  BY <1>2, <1>3, DataFacts, RTail
<1>5. m.data \in Nat /\ m.state \in States
  BY <1>3 DEF ClientMsgs
<1>6. IF phase[c] = "OPEN" /\ cur[c] < m.state
      THEN cur' = [cur EXCEPT ![c] = m.state] ELSE cur' = cur
  BY DEF DoConfirmUpgrade
<1>7. data' = [data EXCEPT ![c] = IF m.data # NoData THEN m.data ELSE @]
  BY DEF DoConfirmUpgrade
<1> HIDE DEF m
<1>8. /\ data'[c] = IF m.data # NoData THEN m.data ELSE data[c]
      /\ \A x \in Clients \ {c} : data'[x] = data[x] /\ cur'[x] = cur[x]
  BY <1>6, <1>7, DataFacts
<1>9. pc[c] \notin {"idle", "held"}
  <2>1. Conf(toClient[c], 1) /\ toClient[c][1] \in ClientMsgs
    BY <1>2, <1>3 DEF Conf, Is, m
  <2>2. /\ ClientOK(toServer[c], toClient[c], cur[c], creq[c], phase[c],
                    scur[c], screq[c], ssreq[c], leases, c)
    BY ClientFacts
  <2>3. creq[c] = toClient[c][1].state
    BY <2>1, <2>2 DEF ClientOK, AnswersOK
  <2>4. creq[c] # NONE
    BY <2>1, <2>3 DEF ClientMsgs, States, NONE, INVALID, SHARED, EXCLUSIVE
  <2> QED BY <2>4, DataFacts DEF HandleInv
<1>10. HData(cur'[c], data'[c], obj[c], pc[c], version, forgot)
  <2>1. /\ HData(cur[c], data[c], obj[c], pc[c], version, forgot)
        /\ data[c] \in Nat /\ version \in Nat
    BY DataFacts
  <2>2. /\ data'[c] <= version
        /\ forgot = FALSE => Current(data'[c], version)
    BY <1>4, <1>5, <1>8, <2>1 DEF HData, Current, NoData, FirstVersion
  <2> QED BY <1>9, <2>1, <2>2 DEF HData
<1>11. ClientData(c)'
  BY <1>1, <1>4, <1>10, DataFacts DEF ClientData
<1> QED BY <1>1, <1>3, <1>8, <1>11, LocalData

(* A client gets the confirmation of its close. *)
LEMMA DoConfirmCloseData ==
    ASSUME IInv, DInv, NEW c \in Clients, DoConfirmClose(c)
    PROVE  DInv'
<1>1. /\ version' = version /\ forgot' = forgot /\ sdata' = sdata /\ scur' = scur
      /\ data' = data /\ obj' = obj /\ pc' = pc /\ toServer' = toServer /\ cur' = cur
  BY DEF DoConfirmClose, leaseVars, histVars, threadVars
<1>2. toClient[c] # <<>> /\ toClient' = [toClient EXCEPT ![c] = Tail(@)]
  BY DEF DoConfirmClose, ClientReceive, HasMsg
<1>3. /\ toClient'[c] = Tail(toClient[c]) /\ \A x \in Clients \ {c} : toClient'[x] = toClient[x]
      /\ toClient[c] \in Seq(ClientMsgs)
  BY <1>2, DataFacts
<1>4. RData(toClient'[c], version, forgot)
  BY <1>2, <1>3, DataFacts, RTail
<1>5. ClientData(c)'
  BY <1>1, <1>4, DataFacts DEF ClientData
<1> QED BY <1>1, <1>3, <1>5, LocalData

-----------------------------------------------------------------------------
(* Steps of the server *)

(* process_handle hands out the server's data, and only while no lease is  *)
(* EXCLUSIVE.                                                              *)
LEMMA HandlerData ==
    ASSUME IInv, IInv', NEW ls, NEW sc, NEW rq, NEW dn, NEW d, NEW out,
           ProcessHandle(ls, sc, rq, dn, d, out),
           sc \in [Clients -> States], d \in Nat, out \in [Clients -> Seq(ClientMsgs)],
           SData(sc, d, version', forgot'),
           \A x \in Clients : /\ QData(toServer'[x], sc[x], version', forgot')
                              /\ RData(out[x], version', forgot')
                              /\ HData(cur[x], data[x], obj[x], pc[x], version', forgot'),
           UNCHANGED <<handleVars, threadVars>>
    PROVE  DInv'
<1> DEFINE eg  == ExclusiveGrants(sc, rq, ls)
           sg  == SharedGrants(sc, rq, ls)
           sc2 == [c \in Clients |-> IF c \in eg THEN EXCLUSIVE
                                     ELSE IF c \in sg THEN SHARED ELSE sc[c]]
           rq2 == [c \in Clients |-> IF c \in eg \cup sg THEN NONE ELSE rq[c]]
           ask == DowngradesToAsk(sc2, rq2, dn)
           mid(c) == IF c \in eg \cup sg
                     THEN Append(out[c], Msg("CONFIRM_UPGRADE", sc2[c], d))
                     ELSE out[c]
<1>1. /\ scur' = sc2 /\ sdata' = d
      /\ toClient' = [c \in Clients |->
                          IF ask[c] # NONE
                          THEN Append(mid(c), Msg("REQUEST_DOWNGRADE", ask[c], NoData))
                          ELSE mid(c)]
  BY DEF ProcessHandle
<1>2. eg \cup sg # {} => \A x \in Clients : sc[x] # EXCLUSIVE
  BY DEF ExclusiveGrants, SharedGrants, In
<1>3. \A x \in Clients : ask[x] \in {NONE, INVALID, SHARED}
  BY DEF DowngradesToAsk
<1>4. sc2 \in [Clients -> States]
  BY DEF States
<1>5. /\ cur' = cur /\ data' = data /\ obj' = obj /\ pc' = pc
      /\ version' \in Nat /\ toServer' \in [Clients -> Seq(ServerMsgs)]
  BY DEF handleVars, threadVars, IInv, TypeOK
<1> HIDE DEF ask, eg, sg
<1>6. \A x \in Clients : sc2[x] = IF x \in eg THEN EXCLUSIVE ELSE IF x \in sg THEN SHARED ELSE sc[x]
  OBVIOUS
<1>7. SData(scur, sdata, version, forgot)'
  <2>1. (\A x \in Clients : sc2[x] # EXCLUSIVE) => \A x \in Clients : sc[x] # EXCLUSIVE
    BY <1>2, <1>6 DEF SHARED, EXCLUSIVE
  <2> HIDE DEF sc2
  <2> QED BY <1>1, <2>1 DEF SData
<1> HIDE DEF sc2
<1>8. ASSUME NEW x \in Clients PROVE ClientData(x)'
  <2> DEFINE m == Msg("CONFIRM_UPGRADE", sc2[x], d)
             n == Msg("REQUEST_DOWNGRADE", ask[x], NoData)
  <2>1. d <= version' /\ (x \in eg \cup sg /\ forgot' = FALSE => Current(d, version'))
    BY <1>2 DEF SData
  <2>2. m \in ClientMsgs /\ m.data = d /\ m.type = "CONFIRM_UPGRADE"
    BY <1>4 DEF Msg, ClientMsgs
  <2>3. ask[x] # NONE => /\ n \in ClientMsgs /\ n.data = NoData
                         /\ n.type = "REQUEST_DOWNGRADE"
    BY <1>3 DEF Msg, ClientMsgs, States, NoData
  <2> HIDE DEF m, n
  <2>4. out[x] \in Seq(ClientMsgs) /\ RData(out[x], version', forgot')
    OBVIOUS
  <2>5. mid(x) \in Seq(ClientMsgs) /\ RData(mid(x), version', forgot')
    <3>1. CASE x \in eg \cup sg
      <4>1. m.data <= version' /\ (forgot' = FALSE => Current(m.data, version'))
        BY <2>1, <2>2, <3>1
      <4>2. RData(Append(out[x], m), version', forgot')
        BY <2>2, <2>4, <4>1, RAppend
      <4>3. Append(out[x], m) \in Seq(ClientMsgs)
        BY <2>2, <2>4, AppendFacts
      <4> QED BY <3>1, <4>2, <4>3 DEF m
    <3>2. CASE x \notin eg \cup sg
      BY <2>4, <3>2
    <3> QED BY <3>1, <3>2
  <2> HIDE DEF mid
  <2>6. NoData <= version'
    BY <1>5 DEF NoData
  <2>7. RData(toClient'[x], version', forgot')
    <3>1. CASE ask[x] # NONE
      <4>1. RData(Append(mid(x), n), version', forgot')
        BY <2>3, <2>5, <2>6, <3>1, RAppend
      <4> QED BY <1>1, <3>1, <4>1 DEF n
    <3>2. CASE ask[x] = NONE
      BY <1>1, <2>5, <3>2
    <3> QED BY <3>1, <3>2
  <2>8. x \in eg \cup sg => toServer'[x] = <<>>
    <3> SUFFICES ASSUME x \in eg \cup sg PROVE toServer'[x] = <<>>
      OBVIOUS
    <3> DEFINE k == Len(out[x]) + 1
    <3>1. /\ mid(x) = Append(out[x], m)
      BY DEF mid, m
    <3>2. k \in Nat /\ k \in DOMAIN mid(x) /\ mid(x)[k] = m
      BY <2>2, <2>4, <3>1, AppendFacts
    <3> HIDE DEF k
    <3>3. k \in DOMAIN toClient'[x] /\ toClient'[x][k] = m
      <4>1. CASE ask[x] # NONE
        <5>1. toClient'[x] = Append(mid(x), n)
          BY <1>1, <4>1 DEF n
        <5>2. /\ DOMAIN Append(mid(x), n) = 1..(Len(mid(x)) + 1)
              /\ \A i \in DOMAIN mid(x) : Append(mid(x), n)[i] = mid(x)[i]
              /\ DOMAIN mid(x) = 1..Len(mid(x)) /\ Len(mid(x)) \in Nat
          BY <2>3, <2>5, <4>1, AppendFacts
        <5> QED BY <3>2, <5>1, <5>2
      <4>2. CASE ask[x] = NONE
        BY <1>1, <3>2, <4>2
      <4> QED BY <4>1, <4>2
    <3>4. Conf(toClient'[x], k)
      BY <2>2, <3>3 DEF Conf, Is
    <3>5. ClientOK(toServer'[x], toClient'[x], cur'[x], creq'[x], phase'[x],
                   scur'[x], screq'[x], ssreq'[x], leases', x)
      BY DEF IInv, ClientInv
    <3> QED BY <3>2, <3>4, <3>5 DEF ClientOK, AnswersOK
  <2>9. QData(toServer'[x], scur'[x], version', forgot')
    <3>1. CASE x \in eg \cup sg
      BY <2>8, <3>1, QEmpty
    <3>2. CASE x \notin eg \cup sg
      BY <1>1, <1>6, <3>2
    <3> QED BY <3>1, <3>2
  <2> QED BY <1>5, <2>7, <2>9 DEF ClientData
<1> QED BY <1>7, <1>8 DEF DInv

(* The server gets a request for a higher state. *)
LEMMA DoRequestUpgradeData ==
    ASSUME IInv, IInv', DInv, NEW c \in Clients, DoRequestUpgrade(c)
    PROVE  DInv'
<1> DEFINE ls == Append(Without(leases, c), c)
           rq == [screq EXCEPT ![c] = Head(toServer[c]).state]
<1>1. /\ ProcessHandle(ls, scur, rq, ssreq, sdata, toClient)
      /\ toServer[c] # <<>> /\ Head(toServer[c]).type = "REQUEST_UPGRADE"
      /\ toServer' = [toServer EXCEPT ![c] = Tail(@)]
      /\ UNCHANGED <<handleVars, threadVars>> /\ version' = version /\ forgot' = forgot
  BY DEF DoRequestUpgrade, ServerReceive, HasMsg, histVars
<1> HIDE DEF ls, rq
<1>2. /\ toServer'[c] = Tail(toServer[c]) /\ \A x \in Clients \ {c} : toServer'[x] = toServer[x]
      /\ toServer[c] \in Seq(ServerMsgs)
  BY <1>1, DataFacts
<1>3. toServer'[c] = <<>>
  <2>1. Up(toServer[c], 1)
    BY <1>1, <1>2 DEF Up, Is
  <2>2. RequestsOK(toServer[c], cur[c], creq[c], phase[c], scur[c], screq[c])
    BY ClientFacts DEF ClientOK
  <2>3. Len(toServer[c]) = 1
    BY <2>1, <2>2 DEF RequestsOK
  <2> QED BY <1>1, <1>2, <2>3, TailIs
<1>4. ASSUME NEW x \in Clients
      PROVE  /\ QData(toServer'[x], scur[x], version', forgot')
             /\ RData(toClient[x], version', forgot')
             /\ HData(cur[x], data[x], obj[x], pc[x], version', forgot')
  <2>1. CASE x = c
    BY <1>1, <1>3, <2>1, QEmpty, DataFacts
  <2>2. CASE x # c
    BY <1>1, <1>2, <2>2, DataFacts
  <2> QED BY <2>1, <2>2
<1>5. SData(scur, sdata, version', forgot')
  BY <1>1 DEF DInv
<1>6. scur \in [Clients -> States] /\ sdata \in Nat /\ toClient \in [Clients -> Seq(ClientMsgs)]
  BY DataFacts
<1> QED BY <1>1, <1>4, <1>5, <1>6, HandlerData

(* A downgrade from EXCLUSIVE brings the last version back. *)
LEMMA DoConfirmDowngradeData ==
    ASSUME IInv, IInv', DInv, NEW c \in Clients, DoConfirmDowngrade(c)
    PROVE  DInv'
<1> DEFINE m  == Head(toServer[c])
           ls == IF HasLease(c) THEN leases ELSE Append(leases, c)
           sc == [scur EXCEPT ![c] = m.state]
           dn == [ssreq EXCEPT ![c] = IF m.state <= @ THEN NONE ELSE @]
           d  == IF scur[c] = EXCLUSIVE THEN m.data ELSE sdata
<1>1. /\ ProcessHandle(ls, sc, screq, dn, d, toClient)
      /\ toServer[c] # <<>> /\ m.type = "CONFIRM_DOWNGRADE"
      /\ toServer' = [toServer EXCEPT ![c] = Tail(@)]
      /\ UNCHANGED <<handleVars, threadVars>> /\ version' = version /\ forgot' = forgot
  BY DEF DoConfirmDowngrade, ServerReceive, HasMsg, histVars
<1> HIDE DEF ls, dn
<1>2. /\ toServer'[c] = Tail(toServer[c]) /\ \A x \in Clients \ {c} : toServer'[x] = toServer[x]
      /\ toServer[c] \in Seq(ServerMsgs)
  BY <1>1, DataFacts
<1>3. m.state \in States /\ m.data \in Nat /\ m.state < scur[c]
  BY <1>1, ClientFacts, ServeDown
<1>4. m = toServer[c][1] /\ 1 \in DOMAIN toServer[c]
  BY <1>1, <1>2, TailFacts
<1>5. scur[c] \in States /\ m.state # EXCLUSIVE /\ scur[c] # INVALID
  BY <1>3, DataFacts DEF States, INVALID, SHARED, EXCLUSIVE
<1> HIDE DEF m
<1>6. /\ sc \in [Clients -> States] /\ sc[c] = m.state
      /\ \A x \in Clients \ {c} : sc[x] = scur[x]
  BY <1>3, DataFacts
<1> HIDE DEF sc
<1>7. /\ m.data <= version
      /\ forgot = FALSE /\ scur[c] = EXCLUSIVE => Current(m.data, version)
  BY <1>1, <1>4, DataFacts DEF QData
<1>8. d \in Nat /\ d <= version
  BY <1>3, <1>7, DataFacts DEF DInv, SData
<1>9. SData(sc, d, version', forgot')
  <2>1. SData(scur, sdata, version, forgot)
    BY DEF DInv
  <2>2. ASSUME scur[c] # EXCLUSIVE, NEW x \in Clients, scur[x] = EXCLUSIVE PROVE FALSE
    BY <1>5, <2>2 DEF IInv, LeaseExclusion
  <2>3. forgot = FALSE => Current(d, version)
    BY <1>7, <2>1, <2>2 DEF SData
  <2> QED BY <1>1, <1>8, <2>1, <2>3 DEF SData
<1>10. ASSUME NEW x \in Clients
       PROVE  /\ QData(toServer'[x], sc[x], version', forgot')
              /\ RData(toClient[x], version', forgot')
              /\ HData(cur[x], data[x], obj[x], pc[x], version', forgot')
  <2>1. CASE x = c
    <3>1. QData(Tail(toServer[c]), m.state, version, forgot)
      BY <1>1, <1>2, <1>5, DataFacts, QTail DEF m
    <3> QED BY <1>1, <1>2, <1>6, <2>1, <3>1, DataFacts
  <2>2. CASE x # c
    BY <1>1, <1>2, <1>6, <2>2, DataFacts
  <2> QED BY <2>1, <2>2
<1>11. toClient \in [Clients -> Seq(ClientMsgs)]
  BY DataFacts
<1> HIDE DEF d
<1> QED BY <1>1, <1>6, <1>8, <1>9, <1>10, <1>11, HandlerData

(* The last lease of a handle holds no user of it. *)
LEMMA LastLease ==
    ASSUME IInv, NEW c \in Clients, phase[c] = "CLOSING", Without(leases, c) = <<>>
    PROVE  \A x \in Clients : pc[x] # "held" /\ (x # c => scur[x] = INVALID /\ cur[x] = INVALID)
<1> SUFFICES ASSUME NEW x \in Clients
             PROVE  pc[x] # "held" /\ (x # c => scur[x] = INVALID /\ cur[x] = INVALID)
  OBVIOUS
<1>1. /\ HandleInv(x)
      /\ ClientOK(toServer[x], toClient[x], cur[x], creq[x], phase[x],
                  scur[x], screq[x], ssreq[x], leases, x)
      /\ Typed(toServer[x], toClient[x], cur[x], creq[x], scur[x], screq[x], ssreq[x])
  BY ClientFacts
<1>2. x # c => ~InList(leases, x)
  <2>1. ~InList(<<>>, x)
    BY DEF InList
  <2> QED BY <2>1, WithoutFacts DEF IInv, TypeOK
<1>3. x # c => scur[x] = INVALID
  BY <1>1, <1>2 DEF ClientOK, MemberOK
<1>4. x # c => cur[x] = INVALID
  BY <1>1, <1>3 DEF ClientOK, LeaseOK, Typed, States, INVALID, SHARED, EXCLUSIVE
<1>5. x = c => pc[x] # "held"
  BY <1>1 DEF HandleInv
<1>6. cur[x] = INVALID => pc[x] # "held"
  <2>1. want[x] \in {NONE, SHARED, EXCLUSIVE}
    BY DEF IInv, TypeOK
  <2> QED BY <1>1, <2>1 DEF HandleInv, NONE, INVALID, SHARED, EXCLUSIVE
<1> QED BY <1>3, <1>4, <1>5, <1>6

(* What the server finds when it takes a REQUEST_CLOSE. *)
LEMMA CloseFacts ==
    ASSUME IInv, DInv, NEW c \in Clients, DoRequestClose(c)
    PROVE  /\ toServer[c] # <<>> /\ Head(toServer[c]).type = "REQUEST_CLOSE"
           /\ toServer' = [toServer EXCEPT ![c] = Tail(@)]
           /\ Head(toServer[c]) = toServer[c][1] /\ 1 \in DOMAIN toServer[c]
           /\ Tail(toServer[c]) = <<>>
           /\ phase[c] = "CLOSING"
           /\ Head(toServer[c]).state = scur[c] /\ Head(toServer[c]).data \in Nat
<1>1. /\ toServer[c] # <<>> /\ Head(toServer[c]).type = "REQUEST_CLOSE"
      /\ toServer' = [toServer EXCEPT ![c] = Tail(@)]
  BY DEF DoRequestClose, ServerReceive, HasMsg
<1>2. toServer[c] \in Seq(ServerMsgs)
  BY DataFacts
<1>3. Head(toServer[c]) = toServer[c][1] /\ 1 \in DOMAIN toServer[c] /\ Head(toServer[c]) \in ServerMsgs
  BY <1>1, <1>2, TailFacts
<1>4. RequestsOK(toServer[c], cur[c], creq[c], phase[c], scur[c], screq[c])
  BY ClientFacts DEF ClientOK
<1>5. Close(toServer[c], 1)
  BY <1>1, <1>3 DEF Close, Is
<1>6. Len(toServer[c]) = 1 /\ phase[c] = "CLOSING"
  BY <1>4, <1>5 DEF RequestsOK
<1>7. Tail(toServer[c]) = <<>>
  BY <1>1, <1>2, <1>6, TailIs
<1>8. Head(toServer[c]).state = scur[c]
  BY <1>1, <1>3, DataFacts DEF QData
<1>9. Head(toServer[c]).data \in Nat
  BY <1>3 DEF ServerMsgs
<1> QED BY <1>1, <1>3, <1>6, <1>7, <1>8, <1>9

(* A close from EXCLUSIVE brings the last version back; with the last      *)
(* lease the server drops what it has.                                     *)
LEMMA DoRequestCloseData ==
    ASSUME IInv, IInv', DInv, NEW c \in Clients, DoRequestClose(c)
    PROVE  DInv'
<1> DEFINE m   == Head(toServer[c])
           ls  == Without(leases, c)
           sc  == [scur EXCEPT ![c] = INVALID]
           rq  == [screq EXCEPT ![c] = NONE]
           dn  == [ssreq EXCEPT ![c] = NONE]
           d   == IF ls = <<>> THEN NoData
                  ELSE IF m.state = EXCLUSIVE THEN m.data ELSE sdata
           n   == Msg("CONFIRM_CLOSE", INVALID, NoData)
           out == [toClient EXCEPT ![c] = Append(@, n)]
<1>1. /\ ProcessHandle(ls, sc, rq, dn, d, out)
      /\ forgot' = (forgot \/ (ls = <<>> /\ version # FirstVersion))
      /\ UNCHANGED <<handleVars, threadVars>> /\ version' = version
  BY DEF DoRequestClose
<1> HIDE DEF ls, rq, dn
<1>2. /\ toServer'[c] = <<>> /\ \A x \in Clients \ {c} : toServer'[x] = toServer[x]
      /\ m.state = scur[c] /\ m.data \in Nat
  BY CloseFacts, DataFacts
<1>3. /\ m.data <= version
      /\ forgot = FALSE /\ scur[c] = EXCLUSIVE => Current(m.data, version)
  <2>1. /\ m = toServer[c][1] /\ 1 \in DOMAIN toServer[c]
        /\ toServer[c] # <<>> /\ m.type = "REQUEST_CLOSE"
    BY CloseFacts
  <2>2. QData(toServer[c], scur[c], version, forgot)
    BY DataFacts
  <2>3. m.type # "REQUEST_UPGRADE"
    BY <2>1
  <2> HIDE DEF m
  <2> QED BY <2>1, <2>2, <2>3 DEF QData
<1> HIDE DEF m
<1>4. /\ sc \in [Clients -> States] /\ sc[c] = INVALID
      /\ \A x \in Clients \ {c} : sc[x] = scur[x]
  BY DataFacts DEF States
<1> HIDE DEF sc
<1>5. n \in ClientMsgs /\ n.data = NoData /\ n.type = "CONFIRM_CLOSE"
  BY DEF Msg, ClientMsgs, States, NoData
<1> HIDE DEF n
<1>6. /\ out[c] = Append(toClient[c], n) /\ \A x \in Clients \ {c} : out[x] = toClient[x]
      /\ out \in [Clients -> Seq(ClientMsgs)]
  BY <1>5, DataFacts, AppendFacts
<1> HIDE DEF out
<1>7. SData(scur, sdata, version, forgot) /\ version \in Nat /\ sdata \in Nat /\ forgot \in BOOLEAN
  BY DataFacts DEF DInv
<1>8. d \in Nat /\ d <= version
  BY <1>2, <1>3, <1>7 DEF SData, NoData
<1>9. forgot' = FALSE => forgot = FALSE /\ (ls = <<>> => version = FirstVersion)
  BY <1>1, <1>7
<1>10. SData(sc, d, version', forgot')
  <2>1. ASSUME forgot' = FALSE, \A x \in Clients : sc[x] # EXCLUSIVE PROVE Current(d, version)
    <3>1. CASE ls = <<>>
      BY <1>9, <2>1, <3>1 DEF Current
    <3>2. CASE ls # <<>> /\ m.state = EXCLUSIVE
      BY <1>2, <1>3, <1>9, <2>1, <3>2
    <3>3. CASE ls # <<>> /\ m.state # EXCLUSIVE
      BY <1>2, <1>4, <1>7, <1>9, <2>1, <3>3 DEF SData
    <3> QED BY <3>1, <3>2, <3>3
  <2> HIDE DEF d
  <2> QED BY <1>1, <1>7, <1>8, <2>1 DEF SData
<1> HIDE DEF d
<1>11. ASSUME NEW x \in Clients
       PROVE  /\ QData(toServer'[x], sc[x], version', forgot')
              /\ RData(out[x], version', forgot')
              /\ HData(cur[x], data[x], obj[x], pc[x], version', forgot')
  <2>1. /\ QData(toServer[x], scur[x], version, forgot) /\ RData(toClient[x], version, forgot)
        /\ HData(cur[x], data[x], obj[x], pc[x], version, forgot)
        /\ toClient[x] \in Seq(ClientMsgs)
    BY DataFacts
  <2>2. /\ QData(toServer[x], scur[x], version', forgot') /\ RData(toClient[x], version', forgot')
        /\ HData(cur[x], data[x], obj[x], pc[x], version', forgot')
    BY <1>1, <1>9, <2>1 DEF QData, RData, HData
  <2>3. CASE x = c
    <3>1. NoData <= version'
      BY <1>1, <1>7 DEF NoData
    <3>2. RData(out[c], version', forgot')
      BY <1>5, <1>6, <2>1, <2>2, <2>3, <3>1, RAppend
    <3> QED BY <1>2, <2>2, <2>3, <3>2, QEmpty
  <2>4. CASE x # c
    BY <1>2, <1>4, <1>6, <2>2, <2>4
  <2> QED BY <2>3, <2>4
<1> QED BY <1>1, <1>4, <1>6, <1>8, <1>10, <1>11, HandlerData

(* Every step keeps track of the last version of the data. *)
LEMMA NextData == IInv /\ IInv' /\ DInv /\ [Next]_vars => DInv'
<1> SUFFICES ASSUME IInv, IInv', DInv, [Next]_vars PROVE DInv'
  OBVIOUS
<1>1. CASE UNCHANGED vars \/ \E c \in Clients : ServerDisconnect(c)
  <2>1. /\ version' = version /\ forgot' = forgot /\ sdata' = sdata /\ scur' = scur
        /\ cur' = cur /\ data' = data /\ obj' = obj /\ pc' = pc
        /\ toClient' = toClient /\ toServer' = toServer
    BY <1>1 DEF vars, ServerDisconnect, handleVars, threadVars, leaseVars, histVars
  <2> QED BY <2>1 DEF DInv, ClientData
<1>2. ASSUME NEW c \in Clients, UserStep(c) \/ Kill(c) PROVE DInv'
  <2>1. ASSUME NEW st \in {SHARED, EXCLUSIVE}, SyncLock(c, st) PROVE DInv'
    BY <2>1, SyncLockData
  <2>2. CASE SyncDestroy(c)
    BY <2>2, BeginCloseData DEF SyncDestroy
  <2>3. CASE ShutdownSyncClient(c)
    BY <2>3, BeginCloseData DEF ShutdownSyncClient
  <2> QED BY <1>2, <2>1, <2>2, <2>3, SyncLockWakeData, SyncUnlockData, MoveData DEF UserStep
<1>3. ASSUME NEW c \in Clients, WorkerStep(c) PROVE DInv'
  BY <1>3, DoRequestDowngradeData, DoConfirmUpgradeData, DoConfirmCloseData DEF WorkerStep
<1>4. ASSUME NEW c \in Clients, ServerStep(c) PROVE DInv'
  BY <1>1, <1>4, DoRequestUpgradeData, DoConfirmDowngradeData, DoRequestCloseData DEF ServerStep
<1> QED BY <1>1, <1>2, <1>3, <1>4 DEF Next

(* The last version of the data is always where the invariant says. *)
LEMMA DataInvariance == Spec => []DInv
  BY InitData, NextData, Invariance, PTL DEF Spec
-----------------------------------------------------------------------------
(* The promise *)

(* Who holds the handle: at most one process for writing, and with it      *)
(* nobody for reading; whoever holds it sees a version that was written,   *)
(* and the last one unless that was dropped.                               *)
Holders ==
    \A c \in Clients : pc[c] = "held" =>
       /\ want[c] \in {SHARED, EXCLUSIVE}
       /\ obj[c] \in 1..version
       /\ forgot = FALSE => obj[c] = version
       /\ want[c] = EXCLUSIVE => \A x \in Clients \ {c} : pc[x] # "held"

(* Those who may use the handle have the last version. *)
LEMMA HoldersOK == IInv /\ DInv => Holders
<1> SUFFICES ASSUME IInv, DInv, NEW c \in Clients, pc[c] = "held"
             PROVE  /\ want[c] \in {SHARED, EXCLUSIVE}
                    /\ obj[c] \in 1..version
                    /\ forgot = FALSE => obj[c] = version
                    /\ want[c] = EXCLUSIVE => \A x \in Clients \ {c} : pc[x] # "held"
  BY DEF Holders
<1>1. ASSUME NEW x \in Clients, pc[x] = "held"
      PROVE  want[x] \in {SHARED, EXCLUSIVE} /\ want[x] <= cur[x] /\ cur[x] # INVALID /\ cur[x] \in States
  <2>1. /\ want[x] # NONE /\ want[x] <= cur[x]
        /\ want[x] \in {NONE, SHARED, EXCLUSIVE} /\ cur[x] \in States
    BY <1>1, DataFacts DEF HandleInv, IInv, TypeOK
  <2> QED BY <2>1 DEF NONE, INVALID, SHARED, EXCLUSIVE
<1>2. /\ HData(cur[c], data[c], obj[c], pc[c], version, forgot)
      /\ obj[c] \in Nat /\ version \in Nat /\ forgot \in BOOLEAN
  BY DataFacts
<1>3. obj[c] \in 1..version /\ (forgot = FALSE => obj[c] = version)
  BY <1>1, <1>2 DEF HData, FirstVersion
<1>4. ASSUME want[c] = EXCLUSIVE, NEW x \in Clients \ {c} PROVE pc[x] # "held"
  <2>1. cur[c] = EXCLUSIVE
    BY <1>1, <1>4 DEF States, INVALID, SHARED, EXCLUSIVE
  <2>2. cur[x] = INVALID
    <3>1. /\ cur[c] <= scur[c] /\ cur[x] <= scur[x]
          /\ scur[c] \in States /\ scur[x] \in States /\ cur[x] \in States
      BY ClientFacts DEF ClientOK, LeaseOK, Typed
    <3>2. scur[c] = EXCLUSIVE
      BY <2>1, <3>1 DEF States, INVALID, SHARED, EXCLUSIVE
    <3>3. scur[x] = INVALID
      BY <3>2 DEF IInv, LeaseExclusion
    <3> QED BY <3>1, <3>3 DEF States, INVALID, SHARED, EXCLUSIVE
  <2> QED BY <1>1, <2>2
<1> QED BY <1>1, <1>3, <1>4

(* A thread that holds the handle in any mode sees the last version any    *)
(* process wrote, unless the server dropped it with the last lease.        *)
THEOREM CoherentHolds == Spec => []Coherent
<1>1. Holders /\ forgot \in BOOLEAN => Coherent
  BY DEF Holders, Coherent
<1>2. IInv => forgot \in BOOLEAN
  BY DEF IInv, TypeOK
<1> QED BY <1>1, <1>2, HoldersOK, DataInvariance, Invariance, PTL

(* The variables of SharedObject *)
Held == [c \in Clients |-> IF pc[c] = "held" THEN Mode(want[c]) ELSE "free"]
Seen == [c \in Clients |-> IF pc[c] = "held" THEN obj[c] ELSE 0]

(* A step that lets nobody in or out. *)
LEMMA Stutter ==
    ASSUME version' = version, forgot' = forgot,
           \A x \in Clients : /\ pc'[x] = "held" <=> pc[x] = "held"
                              /\ pc[x] = "held" => want'[x] = want[x] /\ obj'[x] = obj[x]
    PROVE  UNCHANGED Promise!vars
<1>1. Held' = Held /\ Seen' = Seen
  BY DEF Held, Seen, Mode
<1> QED BY <1>1 DEF Promise!vars, Held, Seen

(* sync_lock returns: Acquire. *)
LEMMA TakeIsAcquire ==
    ASSUME Holders', NEW c \in Clients, pc[c] # "held", pc'[c] = "held",
           version' = version, forgot' = forgot, forgot \in BOOLEAN,
           \A x \in Clients \ {c} : pc'[x] = pc[x] /\ want'[x] = want[x] /\ obj'[x] = obj[x]
    PROVE  Promise!Next
<1>1. PICK mode \in {"shared", "exclusive"} : mode = Mode(want'[c])
  BY DEF Mode
<1>2. /\ Held[c] = "free" /\ Held' = [Held EXCEPT ![c] = mode]
      /\ Seen' = [Seen EXCEPT ![c] = obj'[c]]
  BY <1>1 DEF Held, Seen
<1>3. \A d \in Clients \ {c} : Held[d] = "free" \/ (Held[d] = "shared" /\ mode = "shared")
  BY <1>1 DEF Held, Holders, Mode
<1>4. obj'[c] \in IF forgot THEN 1..version ELSE {version}
  BY DEF Holders
<1>5. Promise!Acquire(c, mode)
  BY <1>2, <1>3, <1>4 DEF Promise!Acquire, Promise!Compatible, Held, Seen
<1> QED BY <1>5 DEF Promise!Next

(* The holder leaves without a new version: Release. *)
LEMMA LeaveIsRelease ==
    ASSUME NEW c \in Clients, pc[c] = "held", pc'[c] # "held",
           version' = version, forgot' = forgot,
           \A x \in Clients \ {c} : pc'[x] = pc[x] /\ want'[x] = want[x] /\ obj'[x] = obj[x]
    PROVE  Promise!Next
<1>1. Held[c] # "free" /\ Held' = [Held EXCEPT ![c] = "free"] /\ Seen' = [Seen EXCEPT ![c] = 0]
  BY DEF Held, Seen, Mode
<1>2. Promise!Release(c)
  BY <1>1 DEF Promise!Release, Promise!NotSeen, Held, Seen
<1> QED BY <1>2 DEF Promise!Next

(* sync_unlock with a new version: ReleaseWritten. *)
LEMMA WriteIsReleaseWritten ==
    ASSUME NEW c \in Clients, pc[c] = "held", pc'[c] # "held", want[c] = EXCLUSIVE,
           version' = version + 1, forgot' = FALSE,
           \A x \in Clients \ {c} : pc'[x] = pc[x] /\ want'[x] = want[x] /\ obj'[x] = obj[x]
    PROVE  Promise!Next
<1>1. /\ Held[c] = "exclusive" /\ Held' = [Held EXCEPT ![c] = "free"]
      /\ Seen' = [Seen EXCEPT ![c] = 0]
  BY DEF Held, Seen, Mode
<1>2. Promise!ReleaseWritten(c)
  BY <1>1 DEF Promise!ReleaseWritten, Promise!NotSeen, Held, Seen
<1> QED BY <1>2 DEF Promise!Next

(* The server drops the data with the last lease: Lose, or nothing if it   *)
(* had already been dropped or never been written.                         *)
LEMMA CloseIsLose ==
    ASSUME IInv, DInv, NEW c \in Clients, DoRequestClose(c)
    PROVE  [Promise!Next]_(Promise!vars)
<1>1. /\ version' = version /\ pc' = pc /\ want' = want /\ obj' = obj
      /\ forgot' = (forgot \/ (Without(leases, c) = <<>> /\ version # FirstVersion))
      /\ phase[c] = "CLOSING" /\ forgot \in BOOLEAN
  BY CloseFacts, DataFacts DEF DoRequestClose, threadVars
<1>2. CASE forgot' = forgot
  BY <1>1, <1>2, Stutter
<1>3. CASE forgot' # forgot
  <2>1. forgot' = TRUE /\ Without(leases, c) = <<>>
    BY <1>1, <1>3
  <2>2. \A x \in Clients : pc[x] # "held"
    BY <1>1, <2>1, LastLease
  <2>3. Held' = Held /\ Seen' = Seen /\ \A x \in Clients : Held[x] = "free"
    BY <1>1, <2>2 DEF Held, Seen
  <2>4. Promise!Lose
    BY <1>1, <2>1, <2>3 DEF Promise!Lose, Held, Seen
  <2> QED BY <2>4 DEF Promise!Next
<1> QED BY <1>2, <1>3

(* Every step of the engine is a step of the promise or none. *)
LEMMA StepKeepsPromise ==
    IInv /\ DInv /\ Holders' /\ [Next]_vars => [Promise!Next]_(Promise!vars)
<1> SUFFICES ASSUME IInv, DInv, Holders', [Next]_vars
             PROVE  [Promise!Next]_(Promise!vars)
  OBVIOUS
<1>0. forgot \in BOOLEAN /\ DOMAIN pc = Clients /\ DOMAIN want = Clients /\ DOMAIN obj = Clients
  BY DEF IInv, TypeOK
<1>1. CASE UNCHANGED vars
  BY <1>1, Stutter DEF vars, threadVars, histVars
<1>2. ASSUME NEW c \in Clients, NEW st \in {SHARED, EXCLUSIVE}, SyncLock(c, st)
      PROVE  [Promise!Next]_(Promise!vars)
  <2>1. /\ version' = version /\ forgot' = forgot /\ pc[c] = "idle" /\ obj' = obj
        /\ \A x \in Clients \ {c} : pc'[x] = pc[x] /\ want'[x] = want[x]
        /\ pc'[c] \in {"lockwait", "held"}
    BY <1>0, <1>2 DEF SyncLock, RequestAndWait, histVars
  <2> QED BY <1>0, <2>1, TakeIsAcquire, Stutter
<1>3. ASSUME NEW c \in Clients, SyncLockWake(c)
      PROVE  [Promise!Next]_(Promise!vars)
  <2>1. /\ version' = version /\ forgot' = forgot /\ pc[c] = "lockwait"
        /\ \A x \in Clients \ {c} : pc'[x] = pc[x] /\ want'[x] = want[x] /\ obj'[x] = obj[x]
        /\ pc'[c] \in {"lockwait", "held"}
    BY <1>0, <1>3 DEF SyncLockWake, RequestAndWait, histVars
  <2> QED BY <1>0, <2>1, TakeIsAcquire, Stutter
<1>4. ASSUME NEW c \in Clients, SyncUnlock(c)
      PROVE  [Promise!Next]_(Promise!vars)
  <2>1. PICK write \in BOOLEAN :
           /\ pc[c] = "held" /\ pc' = [pc EXCEPT ![c] = "idle"] /\ want' = want
           /\ write => want[c] = EXCLUSIVE
           /\ version' = IF write THEN version + 1 ELSE version
           /\ forgot' = (forgot /\ ~write)
           /\ obj' = [obj EXCEPT ![c] = IF write THEN version + 1 ELSE @]
    BY <1>4 DEF SyncUnlock
  <2>2. /\ pc'[c] = "idle"
        /\ \A x \in Clients \ {c} : pc'[x] = pc[x] /\ want'[x] = want[x] /\ obj'[x] = obj[x]
    BY <1>0, <2>1
  <2>3. CASE write
    <3>1. forgot' = FALSE /\ version' = version + 1
      BY <2>1, <2>3
    <3> QED BY <2>1, <2>2, <2>3, <3>1, WriteIsReleaseWritten
  <2>4. CASE ~write
    <3>1. forgot' = forgot /\ version' = version
      BY <1>0, <2>1, <2>4
    <3> QED BY <2>1, <2>2, <3>1, LeaveIsRelease
  <2> QED BY <2>3, <2>4
<1>5. ASSUME NEW c \in Clients, Kill(c)
      PROVE  [Promise!Next]_(Promise!vars)
  <2>1. /\ version' = version /\ forgot' = forgot /\ want' = want /\ obj' = obj
        /\ pc'[c] = "killed" /\ \A x \in Clients \ {c} : pc'[x] = pc[x]
    BY <1>0, <1>5 DEF Kill, histVars
  <2> QED BY <2>1, LeaveIsRelease, Stutter
<1>6. ASSUME NEW c \in Clients,
             SyncDestroy(c) \/ ShutdownSyncClient(c) \/ ShutdownWait(c) \/ CloseWake(c) \/ ProcessExit(c)
      PROVE  [Promise!Next]_(Promise!vars)
  <2>1. /\ version' = version /\ forgot' = forgot /\ want' = want /\ obj' = obj
        /\ pc[c] # "held" /\ pc'[c] # "held" /\ \A x \in Clients \ {c} : pc'[x] = pc[x]
    BY <1>0, <1>6 DEF SyncDestroy, ShutdownSyncClient, BeginClose, ShutdownWait, CloseWake,
                      ProcessExit, histVars
  <2> QED BY <2>1, Stutter
<1>7. ASSUME NEW c \in Clients,
             WorkerStep(c) \/ DoRequestUpgrade(c) \/ DoConfirmDowngrade(c) \/ ServerDisconnect(c)
      PROVE  [Promise!Next]_(Promise!vars)
  <2>1. version' = version /\ forgot' = forgot /\ want' = want /\ obj' = obj /\ pc' = pc
    BY <1>7 DEF WorkerStep, DoRequestDowngrade, DoConfirmUpgrade, DoConfirmClose, DoRequestUpgrade,
                DoConfirmDowngrade, ServerDisconnect, histVars, threadVars
  <2> QED BY <2>1, Stutter
<1>8. ASSUME NEW c \in Clients, DoRequestClose(c)
      PROVE  [Promise!Next]_(Promise!vars)
  BY <1>8, CloseIsLose
<1> QED BY <1>1, <1>2, <1>3, <1>4, <1>5, <1>6, <1>7, <1>8 DEF Next, UserStep, ServerStep

(* The initial states are initial states of the promise. *)
LEMMA InitKeepsPromise == Init => Promise!Init
<1> SUFFICES ASSUME Init PROVE Promise!Init
  OBVIOUS
<1>1. version = 1 /\ forgot = FALSE /\ pc = [c \in Clients |-> "idle"]
  BY DEF Init, FirstVersion
<1>2. Held = [c \in Clients |-> "free"] /\ Seen = [c \in Clients |-> 0]
  BY <1>1 DEF Held, Seen
<1> QED BY <1>1, <1>2 DEF Promise!Init, Promise!NotSeen, Held, Seen

(* Whatever processes, messages and server do, the users of the handle see *)
(* an object with shared holders or one exclusive holder who all see the   *)
(* last version written, for every set of processes.                       *)
THEOREM KeepsPromiseHolds == Spec => KeepsPromise
<1>1. Spec => []Holders
  BY HoldersOK, DataInvariance, Invariance, PTL
<1> QED BY <1>1, InitKeepsPromise, StepKeepsPromise, DataInvariance, Invariance, PTL
        DEF Spec, KeepsPromise, Promise!Spec
=============================================================================
