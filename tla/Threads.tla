------------------------------ MODULE Threads ------------------------------
(***************************************************************************)
(* What the models of the small demo programs have in common: the place in *)
(* the code where each thread, coroutine or process is, and one record     *)
(* with the variables of the program.  An action changes the fields of     *)
(* mem that the code assigns and leaves the others as they are.            *)
(***************************************************************************)
VARIABLES pc, mem

vars == <<pc, mem>>

\* Thread t goes from one place to another.
Step(t, from, to) == pc[t] = from /\ pc' = [pc EXCEPT ![t] = to]

\* Thread t, which has not begun or has ended, begins at l; who creates it
\* goes from one place to another.
Create(t, from, to, new, l) == pc[t] = from /\ pc' = [pc EXCEPT ![t] = to, ![new] = l]

Ended(t) == pc[t] = "exited"
=============================================================================
