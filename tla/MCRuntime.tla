----------------------------- MODULE MCRuntime ------------------------------
(***************************************************************************)
(* What one process keeps for its threads: the async worker with its       *)
(* alarms, descriptors and clean-ups ("async"), and the bookkeeping of its *)
(* memory ("memory").  The variable subject says which of them runs; the   *)
(* other one keeps its initial state.                                      *)
(***************************************************************************)
EXTENDS AsyncWorker, Vma

CONSTANT Subjects

VARIABLE subject

vars == <<subject, asVars, asFails, vmVars>>

(* What three threads do: alarms, interval timers and FIOASYNC beside      *)
(* threads that exit; an exit of all of them; and calls that fail.         *)
CallScripts ==
    {Script(<< <<"alarm", "exit">>, <<"exit">>, <<>> >>, {}),
     Script(<< <<"alarm">>, <<"exit">>, <<"alarm_off">> >>, {}),
     Script(<< <<"itimer", "itimer_off">>, <<"exit">>, <<>> >>, {}),
     Script(<< <<"fioasync">>, <<"exit">>, <<>> >>, {}),
     Script(<< <<"alarm">>, <<"fioasync">>, <<>> >>, {"create"}),
     Script(<< <<"exit">>, <<"exit">>, <<>> >>, {"create"}),
     Script(<< <<"itimer">>, <<"exit">>, <<>> >>, {"malloc"}),
     Script(<< <<"exit">>, <<"exit">>, <<"exit">> >>, {})}

AlarmAndExit == {Script(<< <<"alarm">>, <<"exit">>, <<>> >>, {})}

(* What two threads do: parts of areas unmapped, protected and mapped over *)
(* beside maps of the other thread, allocations of the LibOS and the PAL,  *)
(* and a heap that grows and shrinks.                                      *)
MemoryScripts ==
    {<< <<"mmap", "noreplace", "munmap">>, <<"slab", "slab_free">> >>,
     << <<"mmap", "mprotect", "munmap">>, <<"mmap", "munmap">> >>,
     << <<"mmap", "fixed", "munmap">>, <<"noreplace", "slab">> >>,
     << <<"slab", "slab_free", "slab", "pal_free">>, <<"mmap", "munmap">> >>,
     << <<"brk", "brk", "brk">>, <<"mmap", "munmap">> >>}

Some(S) == CHOOSE x \in S : TRUE

Init == /\ AsInit /\ VmInit /\ subject \in Subjects
        /\ subject # "async" => asTodo = Some(AsScripts).calls /\ asFails = Some(AsScripts).fails
        /\ subject # "memory" => vmTodo = Some(VmScripts)

Next == /\ UNCHANGED subject
        /\ \/ subject = "async" /\ AsNext /\ UNCHANGED vmVars
           \/ subject = "memory" /\ VmNext /\ UNCHANGED <<asVars, asFails>>

Spec == Init /\ [][Next]_vars /\ AsFairness
=============================================================================
