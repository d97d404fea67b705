---------------------------- MODULE SharedObject ----------------------------
(***************************************************************************)
(* What the sync engine promises its users (the comments on sync_lock and  *)
(* on SYNC_STATE_* in libos/include/libos_sync.h): processes hold a shared *)
(* object for reading, or one of them for reading and writing; a holder    *)
(* sees the last version anybody wrote.                                    *)
(*                                                                         *)
(* The promise is stated with its one exception: when every process that   *)
(* opened the object has closed it, the last version is lost, and holders  *)
(* may see an older one until somebody writes again.                       *)
(***************************************************************************)
EXTENDS Naturals

CONSTANT Clients

VARIABLES
    held,      \* held[c]: "free", "shared" or "exclusive"
    seen,      \* seen[c]: the version process c sees while it holds the object
    version,   \* the number of the last version written
    lost       \* TRUE if that version was dropped

vars == <<held, seen, version, lost>>

NotSeen == 0

Init ==
    /\ held = [c \in Clients |-> "free"]
    /\ seen = [c \in Clients |-> NotSeen]
    /\ version = 1
    /\ lost = FALSE

Compatible(c, mode) == \A d \in Clients \ {c} :
    held[d] = "free" \/ (held[d] = "shared" /\ mode = "shared")

Acquire(c, mode) ==
    /\ held[c] = "free"
    /\ Compatible(c, mode)
    /\ held' = [held EXCEPT ![c] = mode]
    /\ \E v \in IF lost THEN 1..version ELSE {version} : seen' = [seen EXCEPT ![c] = v]
    /\ UNCHANGED <<version, lost>>

Release(c) ==
    /\ held[c] # "free"
    /\ held' = [held EXCEPT ![c] = "free"]
    /\ seen' = [seen EXCEPT ![c] = NotSeen]
    /\ UNCHANGED <<version, lost>>

(* Only an exclusive holder writes, and it writes on top of what it saw. *)
ReleaseWritten(c) ==
    /\ held[c] = "exclusive"
    /\ held' = [held EXCEPT ![c] = "free"]
    /\ seen' = [seen EXCEPT ![c] = NotSeen]
    /\ version' = version + 1
    /\ lost' = FALSE

(* The last process that had the object open closed it. *)
Lose ==
    /\ \A c \in Clients : held[c] = "free"
    /\ lost' = TRUE
    /\ UNCHANGED <<held, seen, version>>

Next ==
    \/ \E c \in Clients : \/ \E mode \in {"shared", "exclusive"} : Acquire(c, mode)
                          \/ Release(c)
                          \/ ReleaseWritten(c)
    \/ Lose

Spec == Init /\ [][Next]_vars
=============================================================================
