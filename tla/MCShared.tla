------------------------------ MODULE MCShared ------------------------------
(***************************************************************************)
(* Shared data behind one lock, for TLC, one at a time: ThreadSafeQueue    *)
(* with the threads that call it, and the kernel module of KernelLab with  *)
(* the tasks that read and write its /proc entry.                          *)
(***************************************************************************)
EXTENDS ThreadSafeQueue, KernelLab, TLC

VARIABLE part   \* "queue" or "kernel"

SharedInit ==
  /\ part \in {"queue", "kernel"}
  /\ Init
  /\ KernelInit
  /\ part # "kernel" => greeting = CHOOSE g \in Greetings : TRUE

SharedNext ==
  \/ part = "queue" /\ Next /\ UNCHANGED <<part, kernelVars>>
  \/ part = "kernel" /\ KernelNext /\ UNCHANGED <<part, vars>>

SharedSpec == SharedInit /\ [][SharedNext]_<<part, vars, kernelVars>>

\* Texts shorter than, as long as and longer than the buffer, with blanks at either end.
MCUserTexts == {<<" ", "b", " ">>, <<"c", "c", "c", "c">>, <<" ">>}
MCGreetings == {<<"g">>, <<"h", " ">>}

\* Threads, values and tasks can be exchanged.
Symmetry == Permutations(Threads) \cup Permutations(Values) \cup Permutations(Tasks)
=============================================================================
