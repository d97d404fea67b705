---------------------------- MODULE MCProcesses -----------------------------
(***************************************************************************)
(* What processes owe each other: ids ("ids"), answers to IPC requests     *)
(* ("ipc"), and news of the death of a child ("wait").  The variable       *)
(* subject says which of them runs; the others keep their initial state.   *)
(***************************************************************************)
EXTENDS IdRanges, IpcRequests, ChildWait, TLC

CONSTANT Subjects

VARIABLE subject

vars == <<subject, idVars, ipcVars, cwVars>>

(* wait for any child; look at any child without waiting or reaping it *)
Calls == {[who |-> Kids, nohang |-> FALSE, nowait |-> FALSE],
          [who |-> Kids, nohang |-> TRUE, nowait |-> TRUE]}

WaitsOf == ("s" :> 2) @@ ("t" :> 1)

(* Reading fails from one process, the other calls fail for any. *)
FailingCalls == ({"connect", "send", "wait"} \X Peers) \cup {<<"read", "p">>}

Init == IdInit /\ IpcInit /\ CwInit /\ subject \in Subjects

Next == /\ UNCHANGED subject
        /\ \/ subject = "ids" /\ IdNext /\ UNCHANGED <<ipcVars, cwVars>>
           \/ subject = "ipc" /\ IpcNext /\ UNCHANGED <<idVars, cwVars>>
           \/ subject = "wait" /\ CwNext /\ UNCHANGED <<idVars, ipcVars>>

Spec == Init /\ [][Next]_vars /\ IpcFairness /\ CwFairness
=============================================================================
