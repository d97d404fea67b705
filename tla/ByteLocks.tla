----------------------------- MODULE ByteLocks ------------------------------
(***************************************************************************)
(* What file_lock_set promises for POSIX locks (libos_fs_lock.h), byte by  *)
(* byte: a lock replaces what the process held in its range and nothing    *)
(* else, and no two processes hold a byte unless both only read it.        *)
(***************************************************************************)
EXTENDS Integers

CONSTANTS Pids, FS_LOCK_EOF

VARIABLE held     \* held[p][b]: how process p holds byte b

Bytes == 0..FS_LOCK_EOF

Allowed(p, type, start, end) == \A q \in Pids \ {p} : \A b \in start..end :
    type = "UNLCK" \/ held[q][b] = "UNLCK" \/ (type = "RDLCK" /\ held[q][b] = "RDLCK")

SetRange(p, type, start, end) ==
    /\ Allowed(p, type, start, end)
    /\ held' = [held EXCEPT ![p] = [b \in Bytes |-> IF b \in start..end THEN type ELSE @[b]]]

(* Process p ends: it holds nothing any more. *)
ClearAll(p) == held' = [held EXCEPT ![p] = [b \in Bytes |-> "UNLCK"]]

Init == held = [p \in Pids |-> [b \in Bytes |-> "UNLCK"]]

Next == \E p \in Pids :
    \/ \E type \in {"RDLCK", "WRLCK", "UNLCK"} : \E start \in Bytes : \E end \in start..FS_LOCK_EOF :
          SetRange(p, type, start, end)
    \/ ClearAll(p)

Spec == Init /\ [][Next]_held
=============================================================================
