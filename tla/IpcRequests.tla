----------------------------- MODULE IpcRequests ----------------------------
(***************************************************************************)
(* Requests with an answer, as one process sees them (libos_ipc.c): its    *)
(* threads put a waiter in a tree, send the request and wait for an event; *)
(* its IPC worker hands answers to waiters by sequence number and, when    *)
(* the connection from a process ends, drops the connection to it and      *)
(* wakes whoever waits for it (libos_ipc_worker.c).  Connections are       *)
(* one-way: the answer comes on a connection that the other process makes. *)
(* The other processes are seen from outside: each answers its requests in *)
(* any order and may die at any time.  Their vmids are never used again.   *)
(*                                                                         *)
(* The host's calls on streams and events may fail while everybody lives;  *)
(* IpcFailures says which ones.  Left out: a failure that ends a request   *)
(* before its waiter is in the tree, and one that ends the whole process   *)
(* (want of memory of the worker, a failed poll).                          *)
(***************************************************************************)
EXTENDS Integers, Sequences, FiniteSets

CONSTANTS
    Callers,            \* threads that send requests
    Peers,              \* the other processes
    Connected,          \* those that connect to us before they are asked anything
    MaxRequests,        \* requests to send in all (a bound)
    IpcFailures         \* what may fail: <<c, d>> with c one of "connect", "send", "wait", "read",
                        \* for the messages to or from peer d

NoPeer == "nobody"

ASSUME IpcAssumption == /\ Connected \subseteq Peers /\ MaxRequests \in Nat
                        /\ NoPeer \notin Peers

VARIABLES
    peer,               \* "up" or "dead", per peer
    outgoing,           \* g_ipc_connections of libos_ipc.c, per peer: the connection to it, named
                        \* by the request that made it, or 0
    seenError,          \* the connections with seen_error set
    incoming,           \* those that have a connection to us
    arriving,           \* answers on each incoming connection, sequence numbers in order
    asked,              \* requests each peer has not answered
    seqCounter,         \* ipc_seq_counter
    waiters,            \* g_msg_waiters_tree: sequence number to waiter
    ipcPc,              \* where each caller is
    ipcSeq,             \* the request each caller is busy with, or 0
    ipcConn,            \* the connection each caller has found, or 0
    dropped,            \* the peer whose connection ended, while the worker cleans up
    ipcFatal,           \* the answer nobody waits for, on which the worker ended the process, or 0
    outcome,            \* history: what each caller's last request returned
    broken,             \* history: peers from which a connection failed while they lived
    abandoned           \* history: requests whose wait failed, or was ended by such a failure

ipcVars == <<peer, outgoing, seenError, incoming, arriving, asked, seqCounter, waiters, ipcPc,
             ipcSeq, ipcConn, dropped, ipcFatal, outcome, broken, abandoned>>

peerVars == <<peer, incoming, arriving, asked, broken>>

workerVars == <<dropped, ipcFatal>>

NoOutcome == [dest |-> NoPeer, ret |-> "none", resp |-> 0, seq |-> 0]

IpcInit ==
    /\ peer = [d \in Peers |-> "up"]
    /\ outgoing = [d \in Peers |-> 0]
    /\ seenError = {}
    /\ incoming = Connected
    /\ arriving = [d \in Peers |-> <<>>]
    /\ asked = [d \in Peers |-> {}]
    /\ seqCounter = 1
    /\ waiters = << >>
    /\ ipcPc = [t \in Callers |-> "idle"]
    /\ ipcSeq = [t \in Callers |-> 0]
    /\ ipcConn = [t \in Callers |-> 0]
    /\ dropped = NoPeer
    /\ ipcFatal = 0
    /\ outcome = [t \in Callers |-> NoOutcome]
    /\ broken = {} /\ abandoned = {}

WaiterOf(t) == waiters[ipcSeq[t]]

IpcGoto(t, from, to) == ipcPc[t] = from /\ ipcFatal = 0 /\ ipcPc' = [ipcPc EXCEPT ![t] = to]

-----------------------------------------------------------------------------
(* ipc_send_msg_and_get_response.  data is response_data, set the event.   *)

BeginRequest(t) == \E d \in Peers :
    /\ seqCounter <= MaxRequests
    /\ IpcGoto(t, "idle", "connect")
    /\ ipcSeq' = [ipcSeq EXCEPT ![t] = seqCounter]
    /\ seqCounter' = seqCounter + 1
    /\ waiters' = [s \in DOMAIN waiters \cup {seqCounter} |->
                     IF s = seqCounter THEN [dest |-> d, data |-> 0, set |-> FALSE]
                     ELSE waiters[s]]
    /\ UNCHANGED <<peerVars, workerVars, outgoing, seenError, ipcConn, outcome, abandoned>>

(* `out': the waiter leaves the tree. *)
EndRequest(t, from, ret, resp) ==
    /\ IpcGoto(t, from, "idle")
    /\ outcome' = [outcome EXCEPT ![t] = [dest |-> WaiterOf(t).dest, ret |-> ret, resp |-> resp,
                                          seq |-> ipcSeq[t]]]
    /\ waiters' = [s \in DOMAIN waiters \ {ipcSeq[t]} |-> waiters[s]]
    /\ ipcSeq' = [ipcSeq EXCEPT ![t] = 0]
    /\ ipcConn' = [ipcConn EXCEPT ![t] = 0]
    /\ UNCHANGED <<peerVars, workerVars, outgoing, seqCounter>>

(* ipc_connect: a connection from the tree or a new one, ... *)
IpcConnect(t) ==
    LET d == WaiterOf(t).dest
        c == IF outgoing[d] # 0 THEN outgoing[d] ELSE ipcSeq[t]
    IN /\ IpcGoto(t, "connect", "send")
       /\ outgoing[d] # 0 \/ peer[d] = "up"
       /\ outgoing' = [outgoing EXCEPT ![d] = c]
       /\ ipcConn' = [ipcConn EXCEPT ![t] = c]
       /\ UNCHANGED <<peerVars, workerVars, seenError, seqCounter, waiters, ipcSeq, outcome,
                      abandoned>>

(* ... or an error of the host, for a process that lives (a "fault") or    *)
(* one that does not.                                                      *)
IpcConnectFails(t) ==
    LET d == WaiterOf(t).dest
    IN /\ outgoing[d] = 0
       /\ \/ peer[d] = "dead" /\ EndRequest(t, "connect", "error", 0)
          \/ <<"connect", d>> \in IpcFailures /\ EndRequest(t, "connect", "fault", 0)
       /\ UNCHANGED <<seenError, abandoned>>

(* ipc_send_message_to_conn, with the connection found before, which may   *)
(* have been dropped since.                                                *)
SendRequest(t) ==
    /\ IpcGoto(t, "send", "wait")
    /\ peer[WaiterOf(t).dest] = "up" /\ ipcConn[t] \notin seenError
    /\ asked' = [asked EXCEPT ![WaiterOf(t).dest] = @ \cup {ipcSeq[t]}]
    /\ UNCHANGED <<peer, incoming, arriving, broken, workerVars, outgoing, seenError, seqCounter,
                   waiters, ipcSeq, ipcConn, outcome, abandoned>>

(* A failed write stays with the connection: seen_error is returned by     *)
(* every later one, until the connection is dropped.                       *)
SendFails(t) ==
    /\ \/ peer[WaiterOf(t).dest] = "dead" /\ EndRequest(t, "send", "error", 0)
       \/ /\ <<"send", WaiterOf(t).dest>> \in IpcFailures \/ ipcConn[t] \in seenError
          /\ EndRequest(t, "send", "fault", 0)
    /\ seenError' = seenError \cup {ipcConn[t]}
    /\ UNCHANGED abandoned

(* Mutant: an interrupted wait counts as an answer. *)
WaitInterrupted(t) ==
    /\ IpcGoto(t, "wait", "check")
    /\ UNCHANGED <<peerVars, workerVars, outgoing, seenError, seqCounter, waiters, ipcSeq, ipcConn,
                   outcome, abandoned>>

(* wait_for_response; an interrupted wait goes on. *)
WaitForResponse(t) ==
    /\ WaiterOf(t).set
    /\ IpcGoto(t, "wait", "check")
    /\ UNCHANGED <<peerVars, workerVars, outgoing, seenError, seqCounter, waiters, ipcSeq, ipcConn,
                   outcome, abandoned>>

(* Any other error of the wait ends the request, answered or not. *)
WaitFails(t) ==
    /\ <<"wait", WaiterOf(t).dest>> \in IpcFailures
    /\ EndRequest(t, "wait", "fault", 0)
    /\ abandoned' = abandoned \cup {ipcSeq[t]}
    /\ UNCHANGED seenError

(* response_data is read without the lock: first to see whether there is   *)
(* an answer, ...                                                          *)
CheckResponse(t) ==
    \/ /\ WaiterOf(t).data = 0
       /\ EndRequest(t, "check", "ESRCH", 0)
       /\ UNCHANGED <<seenError, abandoned>>
    \/ /\ WaiterOf(t).data # 0
       /\ IpcGoto(t, "check", "take")
       /\ UNCHANGED <<peerVars, workerVars, outgoing, seenError, seqCounter, waiters, ipcSeq,
                      ipcConn, outcome, abandoned>>

(* ... then to take it.  The build may read it once or twice. *)
TakeResponse(t) == \E resp \in {ipcSeq[t], WaiterOf(t).data} :
    /\ EndRequest(t, "take", "ok", resp)
    /\ UNCHANGED <<seenError, abandoned>>

-----------------------------------------------------------------------------
(* The IPC worker.                                                         *)

(* ipc_response_callback *)
ResponseCallback(d) ==
    /\ dropped = NoPeer /\ ipcFatal = 0
    /\ d \in incoming /\ arriving[d] # <<>>
    /\ LET s == Head(arriving[d])
       IN \/ /\ s \in DOMAIN waiters
             /\ waiters' = [waiters EXCEPT ![s].data = s, ![s].set = TRUE]
             /\ UNCHANGED ipcFatal
          \/ /\ s \notin DOMAIN waiters
             /\ ipcFatal' = s
             /\ UNCHANGED waiters
    /\ arriving' = [arriving EXCEPT ![d] = Tail(@)]
    /\ UNCHANGED <<peer, incoming, asked, broken, outgoing, seenError, seqCounter, ipcPc, ipcSeq,
                   ipcConn, dropped, outcome, abandoned>>

(* The worker reads no more from the connection of d: disconnect_callbacks *)
(* and del_ipc_connection.  remove_outgoing_ipc_connection first drops the *)
(* connection to d, ...                                                    *)
Disconnect(d) ==
    /\ dropped = NoPeer /\ ipcFatal = 0
    /\ d \in incoming
    /\ incoming' = incoming \ {d}
    /\ arriving' = [arriving EXCEPT ![d] = <<>>]
    /\ outgoing' = [outgoing EXCEPT ![d] = 0]
    /\ dropped' = d
    /\ UNCHANGED <<peer, asked, seenError, seqCounter, waiters, ipcPc, ipcSeq, ipcConn, ipcFatal,
                   outcome, abandoned>>

(* The end of the connection, after the death of d and its last message; *)
DisconnectCallbacks(d) ==
    /\ peer[d] = "dead" /\ arriving[d] = <<>>
    /\ Disconnect(d)
    /\ UNCHANGED broken

(* an error of it, or its end while d lives (the worker of d does the same *)
(* to its connection to us when it fails to read from us).                 *)
ReadFails(d) ==
    /\ <<"read", d>> \in IpcFailures
    /\ Disconnect(d)
    /\ broken' = IF peer[d] = "up" THEN broken \cup {d} ELSE broken

(* Mutant: everybody is woken. *)
WakeWaitersOfAll ==
    /\ dropped # NoPeer
    /\ waiters' = [s \in DOMAIN waiters |-> [waiters[s] EXCEPT !.data = 0, !.set = TRUE]]
    /\ abandoned' = IF dropped \in broken THEN abandoned \cup DOMAIN waiters ELSE abandoned
    /\ dropped' = NoPeer
    /\ UNCHANGED <<peerVars, outgoing, seenError, seqCounter, ipcPc, ipcSeq, ipcConn, ipcFatal,
                   outcome>>

(* Mutant: a waiter that has been answered before is left alone, and so,   *)
(* by the wrong test, is one that has not.                                 *)
WakeWaitersAnswered ==
    /\ dropped # NoPeer
    /\ waiters' = [s \in DOMAIN waiters |->
                     IF waiters[s].dest = dropped /\ waiters[s].set
                     THEN [waiters[s] EXCEPT !.data = 0] ELSE waiters[s]]
    /\ dropped' = NoPeer
    /\ UNCHANGED <<peerVars, outgoing, seenError, seqCounter, ipcPc, ipcSeq, ipcConn, ipcFatal,
                   outcome, abandoned>>

(* ... then every waiter for d is woken, answered or not. *)
WakeWaiters ==
    /\ dropped # NoPeer
    /\ waiters' = [s \in DOMAIN waiters |->
                     IF waiters[s].dest = dropped
                     THEN [dest |-> dropped, data |-> 0, set |-> TRUE] ELSE waiters[s]]
    /\ abandoned' = abandoned \cup {s \in DOMAIN waiters :
                                        waiters[s].dest = dropped /\ dropped \in broken}
    /\ dropped' = NoPeer
    /\ UNCHANGED <<peerVars, outgoing, seenError, seqCounter, ipcPc, ipcSeq, ipcConn, ipcFatal,
                   outcome>>

-----------------------------------------------------------------------------
(* The other processes.                                                    *)

(* The answer comes on the connection that d has to us, or on a new one.   *)
PeerAnswers(d) == \E s \in asked[d] :
    /\ peer[d] = "up"
    /\ asked' = [asked EXCEPT ![d] = @ \ {s}]
    /\ incoming' = incoming \cup {d}
    /\ arriving' = [arriving EXCEPT ![d] = Append(@, s)]
    /\ UNCHANGED <<peer, broken, workerVars, outgoing, seenError, seqCounter, waiters, ipcPc,
                   ipcSeq, ipcConn, outcome, abandoned>>

(* It is lost when the worker has given up the connection, or gives up the *)
(* new one because it cannot read the id of d.                             *)
AnswerLost(d) == \E s \in asked[d] :
    /\ peer[d] = "up"
    /\ d \in broken \/ (d \notin incoming /\ <<"read", d>> \in IpcFailures)
    /\ asked' = [asked EXCEPT ![d] = @ \ {s}]
    /\ broken' = broken \cup {d}
    /\ UNCHANGED <<peer, incoming, arriving, workerVars, outgoing, seenError, seqCounter, waiters,
                   ipcPc, ipcSeq, ipcConn, outcome, abandoned>>

PeerDies(d) ==
    /\ peer[d] = "up"
    /\ peer' = [peer EXCEPT ![d] = "dead"]
    /\ UNCHANGED <<incoming, arriving, asked, broken, workerVars, outgoing, seenError, seqCounter,
                   waiters, ipcPc, ipcSeq, ipcConn, outcome, abandoned>>

Continue(t) == \/ IpcConnect(t) \/ IpcConnectFails(t) \/ SendRequest(t) \/ SendFails(t)
               \/ WaitForResponse(t) \/ CheckResponse(t) \/ TakeResponse(t)

IpcWorkerStep == \/ \E d \in Peers : ResponseCallback(d) \/ DisconnectCallbacks(d)
                 \/ WakeWaiters

IpcNext == \/ \E t \in Callers : BeginRequest(t) \/ (ipcSeq[t] # 0 /\ (Continue(t) \/ WaitFails(t)))
           \/ IpcWorkerStep
           \/ \E d \in Peers : ReadFails(d) \/ PeerAnswers(d) \/ AnswerLost(d) \/ PeerDies(d)

IpcSpec == IpcInit /\ [][IpcNext]_ipcVars

(* Threads run, and so does the worker; a process that lives answers (a    *)
(* blocking file lock is the one request it may keep).  Nothing has to     *)
(* fail.                                                                   *)
IpcFairness == /\ \A t \in Callers : WF_ipcVars(ipcSeq[t] # 0 /\ Continue(t))
               /\ WF_ipcVars(IpcWorkerStep)
               /\ \A d \in Peers : WF_ipcVars(PeerAnswers(d))

-----------------------------------------------------------------------------
(* Properties.                                                             *)

(* An answer without a waiter makes ipc_response_callback fail, and the    *)
(* worker ends the process.  That happens only to an answer whose request  *)
(* was given up early: its wait failed, or was ended because a connection  *)
(* failed of a process that lives and answers after all.  Otherwise a      *)
(* waiter is in the tree before its request leaves and until its answer    *)
(* has come or no longer can.                                              *)
IpcNoStrayResponse == ipcFatal # 0 => ipcFatal \in abandoned

(* A request that neither got its answer nor ran into a failing call of    *)
(* its own was sent to a process that died, or whose connection to us      *)
(* failed: remove_outgoing_ipc_connection, after one process, does nothing *)
(* to a request to another, wherever that request is; and an answer is     *)
(* taken back (response_data = NULL after it was seen) only in such a case.*)
IpcFailureIsLocal == \A t \in Callers :
    LET o == outcome[t]
    IN o # NoOutcome /\ o.ret # "fault" /\ (o.ret # "ok" \/ o.resp # o.seq)
          => peer[o.dest] = "dead" \/ o.dest \in broken

(* A request to a process that is connected to us ends, whether that       *)
(* process answers or dies or its connection fails: whenever that happens, *)
(* a waiter that the clean-up does not find has not sent its request yet.  *)
(* (Once a connection has failed, an answer to a later request may be      *)
(* lost, and the request with it.)                                         *)
IpcRequestEnds == \A t \in Callers :
    ipcPc[t] = "wait" /\ WaiterOf(t).dest \in incoming \ broken ~> ipcPc[t] = "idle" \/ ipcFatal # 0
=============================================================================
