------------------------------- MODULE Leases -------------------------------
(***************************************************************************)
(* The lease list of the sync server, and the decisions process_handle     *)
(* takes on it (libos/src/sync/libos_sync_server.c): which upgrade         *)
(* requests to grant now, and which clients to ask for a downgrade.        *)
(*                                                                         *)
(* A lease list is a sequence ls of clients in list order, with functions  *)
(* sc (lease->cur_state), rq (lease->client_req_state) and dn              *)
(* (lease->server_req_state) that are INVALID, NONE and NONE for a client  *)
(* without a lease.                                                        *)
(***************************************************************************)
EXTENDS Integers, Sequences, SequencesExt

CONSTANT Clients     \* the processes that share the handle

(* enum SYNC_STATE_*: the code compares these values with <. *)
NONE      == 0
INVALID   == 1
SHARED    == 2
EXCLUSIVE == 3

States == {INVALID, SHARED, EXCLUSIVE}

-----------------------------------------------------------------------------
(* The list *)

InList(ls, c) == \E i \in DOMAIN ls : ls[i] = c

Position(ls, c) == CHOOSE i \in DOMAIN ls : ls[i] = c

(* LISTP_DEL of the lease of client c, if there is one. *)
Without(ls, c) == IF InList(ls, c) THEN RemoveAt(ls, Position(ls, c)) ELSE ls

FirstOf(ls, S) == CHOOSE c \in S : \A d \in S : Position(ls, c) <= Position(ls, d)

In(sc, st) == {c \in Clients : sc[c] = st}

-----------------------------------------------------------------------------
(* process_handle walks the list once, granting what is possible, and a    *)
(* second time to ask for downgrades.  The net effect of the first walk is *)
(* given by the two sets below (the walk itself is in MCAlgorithms, where  *)
(* TLC compares the two): nothing is granted while a lease is EXCLUSIVE;   *)
(* an EXCLUSIVE request is granted if the walk meets it before any grant   *)
(* and no other lease is SHARED, and then it is the only grant; otherwise  *)
(* every SHARED request is granted.                                        *)

(* Mutant: the last case of the walk without its test n_shared == 1. *)
ExclusiveGrantsBesideReaders(sc, rq, ls) ==
    IF In(sc, EXCLUSIVE) # {} THEN {} ELSE
    {c \in In(rq, EXCLUSIVE) : \A d \in In(rq, SHARED) : Position(ls, c) < Position(ls, d)}

ExclusiveGrants(sc, rq, ls) ==
    LET requesters == In(rq, SHARED) \cup In(rq, EXCLUSIVE)
    IN IF In(sc, EXCLUSIVE) # {}
       THEN {}
       ELSE IF In(sc, SHARED) = {}
            THEN IF requesters # {} /\ rq[FirstOf(ls, requesters)] = EXCLUSIVE
                 THEN {FirstOf(ls, requesters)}
                 ELSE {}
            ELSE {c \in In(rq, EXCLUSIVE) :
                     /\ In(sc, SHARED) = {c}
                     /\ \A d \in In(rq, SHARED) : Position(ls, c) < Position(ls, d)}

(* Mutant: the first case of the walk without its test n_exclusive == 0. *)
SharedGrantsBesideWriter(sc, rq, ls) ==
    IF ExclusiveGrants(sc, rq, ls) # {} THEN {} ELSE In(rq, SHARED)

SharedGrants(sc, rq, ls) ==
    IF In(sc, EXCLUSIVE) # {} \/ ExclusiveGrants(sc, rq, ls) # {}
    THEN {}
    ELSE In(rq, SHARED)

(* The assertion that a SHARED grant starts from INVALID. *)
GrantsFromInvalid(sc, rq, ls) == \A c \in SharedGrants(sc, rq, ls) : sc[c] = INVALID

(* The second walk: the state each client is asked to downgrade to (NONE:  *)
(* it is not asked), for the lease states sc and requests rq after the     *)
(* grants and the downgrades dn already asked for.                         *)
(* Mutants: a client that was asked once is never asked to go lower; only  *)
(* waiting writers make the server ask.                                    *)
DowngradesToAskOnce(sc, rq, dn) ==
    [c \in Clients |->
        IF dn[c] # NONE THEN NONE
        ELSE IF In(rq, EXCLUSIVE) # {} /\ sc[c] \in {SHARED, EXCLUSIVE} THEN INVALID
        ELSE IF In(rq, SHARED) # {} /\ sc[c] = EXCLUSIVE THEN SHARED
        ELSE NONE]

DowngradesToAskForWriters(sc, rq, dn) ==
    [c \in Clients |->
        IF In(rq, EXCLUSIVE) # {} /\ sc[c] \in {SHARED, EXCLUSIVE} /\ dn[c] # INVALID
        THEN INVALID ELSE NONE]

DowngradesToAsk(sc, rq, dn) ==
    [c \in Clients |->
        IF In(rq, EXCLUSIVE) # {}
        THEN IF sc[c] \in {SHARED, EXCLUSIVE} /\ dn[c] # INVALID THEN INVALID ELSE NONE
        ELSE IF /\ In(rq, SHARED) # {}
                /\ sc[c] = EXCLUSIVE
                /\ dn[c] \notin {SHARED, INVALID}
             THEN SHARED
             ELSE NONE]
=============================================================================
