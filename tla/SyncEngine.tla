----------------------------- MODULE SyncEngine -----------------------------
(***************************************************************************)
(* The sync engine of the library OS: one synchronized resource (one       *)
(* handle id) shared by several Gramine processes.  Every process runs the *)
(* client code (libos/src/sync/libos_sync_client.c); the process leader    *)
(* also runs the server (libos/src/sync/libos_sync_server.c).  Messages    *)
(* travel over one ordered IPC stream per direction and client, and are    *)
(* handled one at a time by the IPC worker of the receiving process.       *)
(*                                                                         *)
(* Every critical section of handle->prop_lock (client) and g_server_lock  *)
(* (server) is one action.  handle->use_lock serializes the threads of a   *)
(* process, so pc[c] is the program counter of the one thread that owns    *)
(* it, or of the thread that closes the handle.                            *)
(***************************************************************************)
EXTENDS Leases

CONSTANTS
    Modes,       \* Modes[c]: the states in which process c calls sync_lock
    Closers,     \* the processes that destroy the handle or exit
    Killable,    \* the processes the host may kill
    MaxVersion   \* bound on the number of data versions ever written

ASSUME ModesAssumption   == Modes \in [Clients -> SUBSET {SHARED, EXCLUSIVE}]
ASSUME VersionAssumption == MaxVersion \in Nat

(* A data version; NoData stands for data_size = 0.  The object protected  *)
(* by the handle starts as version 1 in every process (a child inherits    *)
(* the copy of its parent).                                                *)
NoData       == 0
FirstVersion == 1

VARIABLES
    \* struct sync_handle, one per process
    phase,      \* SYNC_PHASE_*
    cur,        \* cur_state
    creq,       \* client_req_state
    sreq,       \* server_req_state
    used,       \* used
    data,       \* data (NoData: data_size = 0)
    event,      \* handle->event is set
    \* the thread that owns use_lock, and the object it protects
    pc, want, obj,
    \* struct server_handle and its list of struct server_lease
    leases,     \* handle->leases, in list order (empty: no handle)
    scur,       \* lease->cur_state         (INVALID when there is no lease)
    screq,      \* lease->client_req_state  (NONE when there is no lease)
    ssreq,      \* lease->server_req_state  (NONE when there is no lease)
    sdata,      \* handle->data
    serverUp,   \* FALSE once the server process ended itself
    \* IPC streams
    toServer, toClient,
    \* history: last version written, whether the server dropped it, and
    \* whether an assert or a FATAL that no crash explains was reached
    version, forgot, fatal

handleVars == <<phase, cur, creq, sreq, used, data, event>>
threadVars == <<pc, want, obj>>
leaseVars  == <<leases, scur, screq, ssreq, sdata>>
histVars   == <<version, forgot>>
vars == <<handleVars, threadVars, leaseVars, serverUp, toServer, toClient,
          histVars, fatal>>

-----------------------------------------------------------------------------
(* Messages (struct libos_ipc_sync) *)

Msg(type, st, d) == [type |-> type, state |-> st, data |-> d]

ServerMsgs == [type : {"REQUEST_UPGRADE", "CONFIRM_DOWNGRADE", "REQUEST_CLOSE"},
               state : States, data : Nat]
ClientMsgs == [type : {"CONFIRM_UPGRADE", "REQUEST_DOWNGRADE", "CONFIRM_CLOSE"},
               state : States, data : Nat]

HasMsg(queue, c, type) == queue[c] # <<>> /\ Head(queue[c]).type = type

Running(c) == pc[c] \notin {"exited", "killed"}

Waiting(c) == pc[c] \in {"lockwait", "destroying", "stopping"}

-----------------------------------------------------------------------------
(* sync_init: every process has created (or restored from its parent's     *)
(* checkpoint) its handle; the server knows nothing of it yet.             *)
Init ==
    /\ phase = [c \in Clients |-> "NEW"]
    /\ cur   = [c \in Clients |-> INVALID]
    /\ creq  = [c \in Clients |-> NONE]
    /\ sreq  = [c \in Clients |-> NONE]
    /\ used  = [c \in Clients |-> FALSE]
    /\ data  = [c \in Clients |-> NoData]
    /\ event = [c \in Clients |-> FALSE]
    /\ pc    = [c \in Clients |-> "idle"]
    /\ want  = [c \in Clients |-> NONE]
    /\ obj   = [c \in Clients |-> FirstVersion]
    /\ leases = <<>>
    /\ scur  = [c \in Clients |-> INVALID]
    /\ screq = [c \in Clients |-> NONE]
    /\ ssreq = [c \in Clients |-> NONE]
    /\ sdata = NoData
    /\ serverUp = TRUE
    /\ toServer = [c \in Clients |-> <<>>]
    /\ toClient = [c \in Clients |-> <<>>]
    /\ version = FirstVersion
    /\ forgot = FALSE
    /\ fatal = FALSE

-----------------------------------------------------------------------------
(* Client: the calling thread *)

(* One turn of the loop in sync_lock: ask for the state unless it is       *)
(* already asked for, then sync_wait_without_lock.                         *)
RequestAndWait(c, st) ==
    /\ IF creq[c] < st
       THEN /\ toServer' = [toServer EXCEPT ![c] =
                              Append(@, Msg("REQUEST_UPGRADE", st, NoData))]
            /\ creq' = [creq EXCEPT ![c] = st]
            /\ phase' = [phase EXCEPT ![c] = "OPEN"]
       ELSE UNCHANGED <<toServer, creq, phase>>
    /\ pc' = [pc EXCEPT ![c] = "lockwait"]

SyncLock(c, st) ==
    /\ pc[c] = "idle"
    /\ st \in Modes[c]
    /\ used' = [used EXCEPT ![c] = TRUE]
    /\ want' = [want EXCEPT ![c] = st]
    /\ fatal' = (fatal \/ used[c])
    /\ IF cur[c] < st
       THEN RequestAndWait(c, st)
       ELSE /\ pc' = [pc EXCEPT ![c] = "held"]
            /\ UNCHANGED <<toServer, creq, phase>>
    /\ UNCHANGED <<cur, sreq, data, event, obj, leaseVars, serverUp, toClient, histVars>>

(* The wait in sync_lock ends: the last waiter clears the event.  Either   *)
(* the state is high enough and the data is copied out, or the loop turns. *)
SyncLockWake(c) ==
    /\ pc[c] = "lockwait"
    /\ event[c]
    /\ event' = [event EXCEPT ![c] = FALSE]
    /\ IF cur[c] < want[c]
       THEN /\ RequestAndWait(c, want[c])
            /\ fatal' = (fatal \/ phase[c] \in {"CLOSING", "CLOSED"})
            /\ UNCHANGED obj
       ELSE /\ pc' = [pc EXCEPT ![c] = "held"]
            /\ obj' = [obj EXCEPT ![c] = IF data[c] # NoData THEN data[c] ELSE @]
            /\ UNCHANGED <<toServer, creq, phase, fatal>>
    /\ UNCHANGED <<cur, sreq, used, data, want, leaseVars, serverUp, toClient, histVars>>

(* Mutants of sync_downgrade: the data is not sent; cur_state is kept. *)
SyncDowngradeWithoutData(c, st, d) ==
    /\ toServer' = [toServer EXCEPT ![c] = Append(@, Msg("CONFIRM_DOWNGRADE", st, NoData))]
    /\ cur' = [cur EXCEPT ![c] = st]
    /\ sreq' = [sreq EXCEPT ![c] = NONE]

SyncDowngradeKeepsState(c, st, d) ==
    /\ toServer' = [toServer EXCEPT ![c] =
                      Append(@, Msg("CONFIRM_DOWNGRADE", st,
                                    IF cur[c] = EXCLUSIVE THEN d ELSE NoData))]
    /\ sreq' = [sreq EXCEPT ![c] = NONE]
    /\ UNCHANGED cur

(* sync_downgrade: send CONFIRM_DOWNGRADE to the state st the server asked *)
(* for, with the handle's data d if the handle was EXCLUSIVE.              *)
SyncDowngrade(c, st, d) ==
    /\ toServer' = [toServer EXCEPT ![c] =
                      Append(@, Msg("CONFIRM_DOWNGRADE", st,
                                    IF cur[c] = EXCLUSIVE THEN d ELSE NoData))]
    /\ cur' = [cur EXCEPT ![c] = st]
    /\ sreq' = [sreq EXCEPT ![c] = NONE]

(* sync_unlock answers a downgrade that came while the handle was used.    *)
(* (Mutant: without the test for NONE, which is below every state.)        *)
DowngradePendingOrNone(c) == phase[c] = "OPEN" /\ sreq[c] < cur[c]

DowngradePending(c) == phase[c] = "OPEN" /\ sreq[c] < cur[c] /\ sreq[c] # NONE

(* sync_unlock.  A thread that locked EXCLUSIVE may have changed the       *)
(* object, and then passes the new version; otherwise it may pass the      *)
(* unchanged object or no data at all.                                     *)
SyncUnlock(c) == \E write, pass \in BOOLEAN :
    /\ pc[c] = "held"
    /\ write => want[c] = EXCLUSIVE /\ version < MaxVersion /\ pass
    /\ version' = IF write THEN version + 1 ELSE version
    /\ forgot' = (forgot /\ ~write)
    /\ obj' = [obj EXCEPT ![c] = IF write THEN version + 1 ELSE @]
    /\ data' = [data EXCEPT ![c] = IF pass THEN obj'[c] ELSE @]
    /\ used' = [used EXCEPT ![c] = FALSE]
    /\ fatal' = (fatal \/ ~used[c])
    /\ IF DowngradePending(c)
       THEN SyncDowngrade(c, sreq[c], data'[c])
       ELSE UNCHANGED <<toServer, cur, sreq>>
    /\ pc' = [pc EXCEPT ![c] = "idle"]
    /\ UNCHANGED <<phase, creq, event, want, leaseVars, serverUp, toClient>>

(* Mutant: the caller does not wait for CONFIRM_CLOSE. *)
BeginCloseWithoutWaiting(c, waitpc, endpc) ==
    /\ IF phase[c] = "OPEN"
       THEN /\ toServer' = [toServer EXCEPT ![c] =
                  Append(@, Msg("REQUEST_CLOSE", cur[c],
                                IF cur[c] = EXCLUSIVE THEN data[c] ELSE NoData))]
            /\ phase' = [phase EXCEPT ![c] = "CLOSING"]
            /\ cur' = [cur EXCEPT ![c] = INVALID]
       ELSE UNCHANGED <<toServer, phase, cur>>
    /\ pc' = [pc EXCEPT ![c] = endpc]
    /\ UNCHANGED <<creq, sreq, used, data, event, want, obj, leaseVars,
                   serverUp, toClient, histVars>>

(* The first part of sync_destroy and shutdown_sync_client: an OPEN handle *)
(* is closed with REQUEST_CLOSE, any other one needs no message.  waitpc   *)
(* and endpc are the caller's next places: to wait, and done.              *)
BeginClose(c, waitpc, endpc) ==
    /\ IF phase[c] = "OPEN"
       THEN /\ toServer' = [toServer EXCEPT ![c] =
                  Append(@, Msg("REQUEST_CLOSE", cur[c],
                                IF cur[c] = EXCLUSIVE THEN data[c] ELSE NoData))]
            /\ phase' = [phase EXCEPT ![c] = "CLOSING"]
            /\ cur' = [cur EXCEPT ![c] = INVALID]
            /\ pc' = [pc EXCEPT ![c] = waitpc]
       ELSE /\ pc' = [pc EXCEPT ![c] = endpc]
            /\ UNCHANGED <<toServer, phase, cur>>
    /\ UNCHANGED <<creq, sreq, used, data, event, want, obj, leaseVars,
                   serverUp, toClient, histVars>>

SyncDestroy(c) ==
    /\ c \in Closers
    /\ pc[c] = "idle"
    /\ fatal' = (fatal \/ used[c])
    /\ BeginClose(c, "destroying", "destroyed")

ShutdownSyncClient(c) ==
    /\ c \in Closers
    /\ pc[c] = "idle"
    /\ BeginClose(c, "stopsent", "stopped")
    /\ UNCHANGED fatal

(* Mutant: the second loop waits at least once, as sync_destroy does. *)
ShutdownWaitAlways(c) ==
    /\ pc[c] = "stopsent"
    /\ pc' = [pc EXCEPT ![c] = "stopping"]
    /\ UNCHANGED <<handleVars, want, obj, leaseVars, serverUp, toServer, toClient,
                   histVars, fatal>>

(* The second loop of shutdown_sync_client waits only if the confirmation  *)
(* did not arrive between the two loops.                                   *)
ShutdownWait(c) ==
    /\ pc[c] = "stopsent"
    /\ pc' = [pc EXCEPT ![c] = IF phase[c] = "CLOSED" THEN "stopped" ELSE "stopping"]
    /\ UNCHANGED <<handleVars, want, obj, leaseVars, serverUp, toServer, toClient,
                   histVars, fatal>>

(* The wait for CONFIRM_CLOSE ends.                                        *)
CloseWake(c) ==
    /\ pc[c] \in {"destroying", "stopping"}
    /\ event[c]
    /\ event' = [event EXCEPT ![c] = FALSE]
    /\ pc' = [pc EXCEPT ![c] =
                IF phase[c] # "CLOSED" THEN @
                ELSE IF @ = "destroying" THEN "destroyed" ELSE "stopped"]
    /\ UNCHANGED <<phase, cur, creq, sreq, used, data, want, obj, leaseVars,
                   serverUp, toServer, toClient, histVars, fatal>>

(* The process exits after shutdown_sync_client (which finds nothing to do *)
(* after a sync_destroy), or is killed by the host at any point.           *)
ProcessExit(c) ==
    /\ pc[c] \in {"destroyed", "stopped"}
    /\ pc' = [pc EXCEPT ![c] = "exited"]
    /\ UNCHANGED <<handleVars, want, obj, leaseVars, serverUp, toServer, toClient,
                   histVars, fatal>>

Kill(c) ==
    /\ c \in Killable
    /\ Running(c)
    /\ pc' = [pc EXCEPT ![c] = "killed"]
    /\ UNCHANGED <<handleVars, want, obj, leaseVars, serverUp, toServer, toClient,
                   histVars, fatal>>

-----------------------------------------------------------------------------
(* Client: the IPC worker *)

(* Take the next message of the given type.  find_handle ends the process  *)
(* when the handle is no longer in g_client_handles.                       *)
ClientReceive(c, type) ==
    /\ Running(c)
    /\ HasMsg(toClient, c, type)
    /\ toClient' = [toClient EXCEPT ![c] = Tail(@)]
    /\ fatal' = (fatal \/ pc[c] = "destroyed")

(* sync_notify: sets the event only if some thread waits for it.           *)
SyncNotify(c) == event' = [event EXCEPT ![c] = @ \/ Waiting(c)]

(* do_request_downgrade ignores a request for a state the client already   *)
(* left or was already asked to leave.                                     *)
HeedsDowngrade(c, st) == /\ phase[c] = "OPEN"
                         /\ cur[c] > st
                         /\ sreq[c] > st \/ sreq[c] = NONE

DoRequestDowngrade(c) ==
    /\ ClientReceive(c, "REQUEST_DOWNGRADE")
    /\ LET st == Head(toClient[c]).state
       IN IF HeedsDowngrade(c, st)
          THEN IF used[c]
               THEN /\ sreq' = [sreq EXCEPT ![c] = st]
                    /\ UNCHANGED <<toServer, cur>>
               ELSE SyncDowngrade(c, st, data[c])
          ELSE UNCHANGED <<toServer, cur, sreq>>
    /\ UNCHANGED <<phase, creq, used, data, event, threadVars, leaseVars,
                   serverUp, histVars>>

DoConfirmUpgrade(c) ==
    /\ ClientReceive(c, "CONFIRM_UPGRADE")
    /\ LET m == Head(toClient[c])
       IN /\ IF phase[c] = "OPEN" /\ cur[c] < m.state
             THEN /\ cur' = [cur EXCEPT ![c] = m.state]
                  /\ creq' = [creq EXCEPT ![c] = NONE]
                  /\ SyncNotify(c)
             ELSE UNCHANGED <<cur, creq, event>>
          /\ data' = [data EXCEPT ![c] = IF m.data # NoData THEN m.data ELSE @]
    /\ UNCHANGED <<phase, sreq, used, threadVars, leaseVars, serverUp, toServer, histVars>>

DoConfirmClose(c) ==
    /\ ClientReceive(c, "CONFIRM_CLOSE")
    /\ IF phase[c] # "CLOSED"
       THEN /\ phase' = [phase EXCEPT ![c] = "CLOSED"]
            /\ SyncNotify(c)
       ELSE UNCHANGED <<phase, event>>
    /\ UNCHANGED <<cur, creq, sreq, used, data, threadVars, leaseVars, serverUp,
                   toServer, histVars>>

-----------------------------------------------------------------------------
(* Server *)

(* process_handle, after the caller changed the leases to ls, sc, rq, dn,  *)
(* the data to d and the outgoing messages to out.                         *)
ProcessHandle(ls, sc, rq, dn, d, out) ==
    LET eg  == ExclusiveGrants(sc, rq, ls)
        sg  == SharedGrants(sc, rq, ls)
        sc2 == [c \in Clients |-> IF c \in eg THEN EXCLUSIVE
                                  ELSE IF c \in sg THEN SHARED ELSE sc[c]]
        rq2 == [c \in Clients |-> IF c \in eg \cup sg THEN NONE ELSE rq[c]]
        ask == DowngradesToAsk(sc2, rq2, dn)
        Confirm(c) == IF c \in eg \cup sg
                      THEN Append(out[c], Msg("CONFIRM_UPGRADE", sc2[c], d))
                      ELSE out[c]
    IN /\ leases' = ls
       /\ scur' = sc2
       /\ screq' = rq2
       /\ ssreq' = [c \in Clients |-> IF ask[c] # NONE THEN ask[c] ELSE dn[c]]
       /\ sdata' = d
       /\ toClient' = [c \in Clients |->
                          IF ask[c] # NONE
                          THEN Append(Confirm(c), Msg("REQUEST_DOWNGRADE", ask[c], NoData))
                          ELSE Confirm(c)]

HasLease(c) == InList(leases, c)

ServerReceive(c, type) ==
    /\ serverUp
    /\ HasMsg(toServer, c, type)
    /\ toServer' = [toServer EXCEPT ![c] = Tail(@)]

(* do_request_upgrade: the lease, new or old, moves to the end of the list.*)
DoRequestUpgrade(c) ==
    /\ ServerReceive(c, "REQUEST_UPGRADE")
    /\ LET st == Head(toServer[c]).state
           ls == Append(Without(leases, c), c)
           rq == [screq EXCEPT ![c] = st]
       IN /\ ProcessHandle(ls, scur, rq, ssreq, sdata, toClient)
          /\ fatal' = (fatal \/ ~(scur[c] < st) \/ ~GrantsFromInvalid(scur, rq, ls))
    /\ UNCHANGED <<handleVars, threadVars, serverUp, histVars>>

DoConfirmDowngrade(c) ==
    /\ ServerReceive(c, "CONFIRM_DOWNGRADE")
    /\ LET m  == Head(toServer[c])
           ls == IF HasLease(c) THEN leases ELSE Append(leases, c)
           sc == [scur EXCEPT ![c] = m.state]
           dn == [ssreq EXCEPT ![c] = IF m.state <= @ THEN NONE ELSE @]
           d  == IF scur[c] = EXCLUSIVE THEN m.data ELSE sdata
       IN /\ ProcessHandle(ls, sc, screq, dn, d, toClient)
          /\ fatal' = (fatal \/ ~(scur[c] > m.state)
                             \/ (scur[c] # EXCLUSIVE /\ m.data # NoData)
                             \/ ~GrantsFromInvalid(sc, screq, ls))
    /\ UNCHANGED <<handleVars, threadVars, serverUp, histVars>>

(* do_request_close: the lease is deleted; with the last lease the handle  *)
(* and its data are deleted too.                                           *)
DoRequestClose(c) ==
    /\ ServerReceive(c, "REQUEST_CLOSE")
    /\ LET m   == Head(toServer[c])
           ls  == Without(leases, c)
           sc  == [scur EXCEPT ![c] = INVALID]
           rq  == [screq EXCEPT ![c] = NONE]
           dn  == [ssreq EXCEPT ![c] = NONE]
           d   == IF ls = <<>> THEN NoData
                  ELSE IF m.state = EXCLUSIVE THEN m.data ELSE sdata
           out == [toClient EXCEPT ![c] = Append(@, Msg("CONFIRM_CLOSE", INVALID, NoData))]
       IN /\ ProcessHandle(ls, sc, rq, dn, d, out)
          /\ forgot' = (forgot \/ (ls = <<>> /\ version # FirstVersion))
          /\ fatal' = (fatal \/ ~HasLease(c)
                             \/ (m.state # EXCLUSIVE /\ m.data # NoData)
                             \/ ~GrantsFromInvalid(sc, rq, ls))
    /\ UNCHANGED <<handleVars, threadVars, serverUp, version>>

(* sync_server_disconnect_callback: the stream of a process ended while it *)
(* still had a lease.  The server ends itself rather than hand out data    *)
(* that may be out of date; after a clean exit this must not happen.       *)
ServerDisconnect(c) ==
    /\ serverUp
    /\ ~Running(c)
    /\ toServer[c] = <<>>
    /\ HasLease(c)
    /\ serverUp' = FALSE
    /\ fatal' = (fatal \/ pc[c] # "killed")
    /\ UNCHANGED <<handleVars, threadVars, leaseVars, toServer, toClient, histVars>>

-----------------------------------------------------------------------------
UserStep(c) == (\E st \in {SHARED, EXCLUSIVE} : SyncLock(c, st)) \/ SyncLockWake(c)
               \/ SyncUnlock(c) \/ SyncDestroy(c) \/ ShutdownSyncClient(c)
               \/ ShutdownWait(c) \/ CloseWake(c) \/ ProcessExit(c)

WorkerStep(c) == DoRequestDowngrade(c) \/ DoConfirmUpgrade(c) \/ DoConfirmClose(c)

ServerStep(c) == DoRequestUpgrade(c) \/ DoConfirmDowngrade(c) \/ DoRequestClose(c)
                 \/ ServerDisconnect(c)

Next == \E c \in Clients : UserStep(c) \/ Kill(c) \/ WorkerStep(c) \/ ServerStep(c)

Spec == Init /\ [][Next]_vars

(* Threads that were woken run, a thread that holds the handle unlocks it, *)
(* and the IPC workers serve every stream that has a message.  The         *)
(* server's part is stated of the stream, which only ServerStep shortens.  *)
ThreadStep(c) == SyncLockWake(c) \/ SyncUnlock(c) \/ ShutdownWait(c) \/ CloseWake(c)

Serves(c) == /\ serverUp
             /\ toServer[c] # <<>>
             /\ toServer' = [toServer EXCEPT ![c] = Tail(@)]

Fairness == \A c \in Clients :
    /\ WF_vars(ThreadStep(c))
    /\ WF_vars(WorkerStep(c))
    /\ WF_toServer(Serves(c)) /\ WF_vars(ServerDisconnect(c))

FairSpec == Spec /\ Fairness

-----------------------------------------------------------------------------
(* Properties *)

TypeOK ==
    /\ phase \in [Clients -> {"NEW", "OPEN", "CLOSING", "CLOSED"}]
    /\ cur   \in [Clients -> States]
    /\ creq  \in [Clients -> {NONE, SHARED, EXCLUSIVE}]
    /\ sreq  \in [Clients -> {NONE, INVALID, SHARED}]
    /\ used  \in [Clients -> BOOLEAN]
    /\ data  \in [Clients -> Nat]
    /\ event \in [Clients -> BOOLEAN]
    /\ pc    \in [Clients -> {"idle", "lockwait", "held", "destroying", "destroyed",
                              "stopsent", "stopping", "stopped", "exited", "killed"}]
    /\ want  \in [Clients -> {NONE, SHARED, EXCLUSIVE}]
    /\ obj   \in [Clients -> Nat]
    /\ leases \in Seq(Clients)
    /\ scur  \in [Clients -> States]
    /\ screq \in [Clients -> {NONE, SHARED, EXCLUSIVE}]
    /\ ssreq \in [Clients -> {NONE, INVALID, SHARED}]
    /\ sdata \in Nat
    /\ serverUp \in BOOLEAN
    /\ toServer \in [Clients -> Seq(ServerMsgs)]
    /\ toClient \in [Clients -> Seq(ClientMsgs)]
    /\ version \in Nat
    /\ forgot \in BOOLEAN
    /\ fatal \in BOOLEAN

(* Whatever is in flight, and whoever was killed: while one process's      *)
(* handle is EXCLUSIVE, every other process's handle is INVALID (the       *)
(* guarantee of sync_lock in libos_sync.h).                                *)
Exclusion == \A c, d \in Clients :
    c # d /\ cur[c] = EXCLUSIVE => cur[d] = INVALID

(* No order of messages, unlocks, closes and exits reaches one of the      *)
(* asserts or FATAL exits of the two files, except the deliberate exit of  *)
(* the server after a process was killed.                                  *)
NoFatal == ~fatal

(* A thread that holds the handle in any mode sees the last version any    *)
(* process wrote, as long as the server has not dropped that version by    *)
(* deleting a handle whose last lease was closed.                          *)
Coherent == \A c \in Clients : pc[c] = "held" /\ ~forgot => obj[c] = version

(* What the comments in struct sync_handle and struct server_lease say of  *)
(* the state fields: a client's state is at most the one the server has    *)
(* for it, and on both sides a pending upgrade is above the current state  *)
(* and a pending downgrade below it.                                       *)
StatesOrdered == \A c \in Clients :
    /\ cur[c] <= scur[c]
    /\ creq[c]  = NONE \/ creq[c]  > cur[c]
    /\ sreq[c]  = NONE \/ sreq[c]  < cur[c]
    /\ screq[c] = NONE \/ screq[c] > scur[c]
    /\ ssreq[c] = NONE \/ ssreq[c] < scur[c]

(* The refinement: the engine implements the promise of SharedObject. *)
Mode(st) == IF st = EXCLUSIVE THEN "exclusive" ELSE "shared"

Promise == INSTANCE SharedObject WITH
    held <- [c \in Clients |-> IF pc[c] = "held" THEN Mode(want[c]) ELSE "free"],
    seen <- [c \in Clients |-> IF pc[c] = "held" THEN obj[c] ELSE 0],
    lost <- forgot

(* Every behaviour of clients, server and messages looks to the users of   *)
(* the handle like an object with shared and exclusive holders.            *)
KeepsPromise == Promise!Spec

(* Every sync_lock that waits is granted some day.                         *)
EventuallyGranted == \A c \in Clients : pc[c] = "lockwait" ~> pc[c] # "lockwait"

(* Every sync_destroy and shutdown_sync_client ends some day.              *)
EventuallyClosed == \A c \in Clients :
    pc[c] \in {"destroying", "stopsent", "stopping"} ~> pc[c] \in {"destroyed", "stopped", "exited"}
=============================================================================
