---------------------------- MODULE MCFileLocks -----------------------------
(* Instances of FileLocks for TLC. *)
EXTENDS FileLocks

IdentityOfThreads == [t \in Threads |-> t]

(* Every process opens the file itself: handle 10 * p. *)
OwnHandles == [p \in Pids |-> 10 * p]
OwnCreators == [h \in {10 * p : p \in Pids} |-> h \div 10]

(* Process 2 has the threads 2 and 4. *)
TwoThreads == (2 :> 2) @@ (3 :> 3) @@ (4 :> 2)

OneByte == {<<0, 0>>}
TwoRanges == {<<0, 0>>, <<0, 1>>}
BothTypes == {"RDLCK", "WRLCK"}

Each(threads, asks) == [t \in Threads |-> IF t \in threads THEN asks ELSE {}]

(* Safety: the leader and two remote processes use both kinds of locks,    *)
(* memory and events fail, one exits and one is killed; or three remote    *)
(* processes wait for ranges of two bytes; or two, whose lookups fail, for *)
(* one byte.                                                               *)
SafetyScenarios ==
    {Scenario(Each({1, 2, 3}, Asks({"POSIX", "FLOCK"}, BothTypes, OneByte, {TRUE})),
              {"alloc", "event"}, {2}, {3}),
     Scenario(Each({2, 3, 4}, Asks({"POSIX"}, BothTypes, TwoRanges, {TRUE})), {}, {2}, {}),
     Scenario(Each({2, 3}, Asks({"POSIX"}, BothTypes, OneByte, {TRUE})), {"lookup"}, {2}, {})}

(* Liveness: three threads of two processes ask for one byte, with and     *)
(* without waiting.                                                        *)
LivenessScenarios ==
    {Scenario(Each(Threads, Asks({"POSIX"}, {"WRLCK"}, OneByte, {TRUE, FALSE})),
              {}, {2, 3}, {})}

(* A thread of the leader and one of another process wait for one byte. *)
NotifyScenarios == {Scenario(Each(Threads, Asks({"POSIX"}, BothTypes, OneByte, {TRUE})), {}, {}, {})}
=============================================================================
