--------------------------- MODULE MCSyncScenarios --------------------------
(***************************************************************************)
(* The liveness of SyncEngine.  Two processes that hold SHARED and both    *)
(* lock EXCLUSIVE wait for each other for ever (run                        *)
(* sync_upgrade_deadlock), so the processes keep to one of two scenarios,  *)
(* chosen at the start, in which at most one of them can hold SHARED and   *)
(* lock EXCLUSIVE: what they lock, and who closes the handle.              *)
(***************************************************************************)
EXTENDS MCSyncEngine

VARIABLE scenario

Scenario(ma, mb, mc, closers) ==
    [modes |-> (a :> ma @@ b :> mb @@ c :> mc), closers |-> closers]

Scenarios == {Scenario({EXCLUSIVE}, {EXCLUSIVE}, {SHARED}, {c}),    \* two writers and a reader
              Scenario(BothModes, {SHARED}, None, Pair)}            \* an upgrader and a reader

AnyMode == [x \in Triple |-> BothModes]

(* The steps by which a thread begins to lock or to close. *)
Within(s) == \A x \in Clients :
    /\ pc[x] = "idle" /\ pc'[x] \in {"lockwait", "held"} => want'[x] \in s.modes[x]
    /\ pc[x] = "idle" /\ pc'[x] \notin {"idle", "lockwait", "held"} => x \in s.closers

ScenarioSpec == /\ Init /\ scenario \in Scenarios
                /\ [][Next /\ Within(scenario) /\ UNCHANGED scenario]_<<vars, scenario>>
                /\ Fairness
=============================================================================
