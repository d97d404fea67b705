---------------------------- MODULE MCSyncEngine ----------------------------
(* Finite instances of SyncEngine for TLC. *)
EXTENDS SyncEngine, TLC

CONSTANTS a, b, c

Pair   == {a, b}
Triple == {a, b, c}

None   == {}

BothModes == {SHARED, EXCLUSIVE}

PairModes == [x \in {a, b} |-> BothModes]

=============================================================================
