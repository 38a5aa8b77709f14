------------------------------ MODULE TaskPool ------------------------------
(***************************************************************************)
(* What dlib's thread_pool promises to its users                           *)
(* (src/dlib/threads/thread_pool_extension_abstract.h:205-403): a job that *)
(* is added runs once, on a thread of the pool that was free or inside the *)
(* call of a thread of the pool, and a thread that waits goes on only when *)
(* the jobs it waits for are done.  Nothing is said about slots, locks or  *)
(* signals.                                                                *)
(***************************************************************************)
EXTENDS Naturals, FiniteSets

CONSTANTS
  Threads,  \* the threads that use the pool
  Workers,  \* those that belong to it
  Jobs,     \* the calls of add_task
  Nobody

VARIABLES
  status,  \* how far each job is
  runner,  \* the thread that runs it
  adder,   \* the thread that has added it
  waits    \* the jobs each thread waits for

vars == <<status, runner, adder, waits>>

Init ==
  /\ status = [j \in Jobs |-> "new"]
  /\ runner = [j \in Jobs |-> Nobody]
  /\ adder = [j \in Jobs |-> Nobody]
  /\ waits = [th \in Threads |-> {}]

is_task_thread(th) == th \in Workers \/ Workers = {}
Idle(w) == \A j \in Jobs : runner[j] # w

\* More workers are idle than jobs are kept for one.
FreeThread == Cardinality({j \in Jobs : status[j] = "added"})
                < Cardinality({w \in Workers : Idle(w)})

Moves(j, from, to, th) ==
  /\ status[j] = from
  /\ status' = [status EXCEPT ![j] = to]
  /\ runner' = [runner EXCEPT ![j] = th]

\* The job is kept for a free thread, or the caller runs it at once.
Add(th, j) ==
  /\ waits[th] = {}
  /\ \/ FreeThread /\ Moves(j, "new", "added", Nobody)
     \/ is_task_thread(th) /\ Moves(j, "new", "running", th)
  /\ adder' = [adder EXCEPT ![j] = th]
  /\ UNCHANGED waits

Start(w, j) ==
  /\ Idle(w)
  /\ Moves(j, "added", "running", w)
  /\ UNCHANGED <<adder, waits>>

\* A job that waits does not end.
Finish(j) ==
  /\ \A th \in Threads : runner[j] = th => waits[th] = {}
  /\ Moves(j, "running", "done", Nobody)
  /\ UNCHANGED <<adder, waits>>

\* For one job or for all that the thread has added, but for those it is in.
Wait(th) ==
  LET added == {j \in Jobs : adder[j] = th /\ runner[j] # th}
  IN  /\ waits[th] = {}
      /\ added # {}
      /\ \E S \in {{j} : j \in added} \cup {added} :
           waits' = [waits EXCEPT ![th] = S]
      /\ UNCHANGED <<status, runner, adder>>

Return(th) ==
  /\ waits[th] # {}
  /\ \A j \in waits[th] : status[j] = "done"
  /\ waits' = [waits EXCEPT ![th] = {}]
  /\ UNCHANGED <<status, runner, adder>>

Next ==
  \/ \E th \in Threads, j \in Jobs : Add(th, j)
  \/ \E w \in Workers, j \in Jobs : Start(w, j)
  \/ \E j \in Jobs : Finish(j)
  \/ \E th \in Threads : Wait(th) \/ Return(th)

Spec == Init /\ [][Next]_vars
=============================================================================
