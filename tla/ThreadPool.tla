----------------------------- MODULE ThreadPool -----------------------------
(***************************************************************************)
(* dlib's thread pool (src/dlib/threads/thread_pool_extension.cpp), which  *)
(* runs the separation oracle of every training session: as many slots as  *)
(* workers, one mutex m, and two conditions, task_ready_signaler for the   *)
(* workers and task_done_signaler for everybody who waits.                 *)
(*                                                                         *)
(* A step is what a thread does while it holds m, up to the release of m   *)
(* or to a wait, or a call made without it.  Users of the pool are client  *)
(* threads and the jobs themselves, which may add jobs and wait for them;  *)
(* a job waits for all jobs it has added before it ends, as parallel_for   *)
(* does.                                                                   *)
(***************************************************************************)
EXTENDS Integers, Sequences, FiniteSets, SequencesExt, FiniteSetsExt,
        Functions

CONSTANTS
  Workers,   \* the threads of the pool
  Clients,   \* other threads
  Owner,     \* the client that destroys the pool
  MaxJobs,   \* bound on the calls of add_task
  Nobody

Threads == Workers \cup Clients
Jobs == 1..MaxJobs
NumSlots == Cardinality(Workers)
Slots == 0..(NumSlots - 1)

ASSUME PoolAssumption ==
  /\ IsFiniteSet(Workers) /\ IsFiniteSet(Clients)
  /\ Workers \cap Clients = {}
  /\ Owner \in Clients
  /\ MaxJobs \in Nat
  /\ Nobody \notin Threads /\ Nobody \notin Jobs

VARIABLES
  pc,      \* what each thread does next
  stack,   \* the jobs each thread is inside of, the innermost last
  arg,     \* the argument of the call each thread is in
  idx,     \* the slot each worker has taken its job from
  tasks,   \* the slots
  ready_signaler, done_signaler, \* the threads asleep on each condition
  we_are_destructing,
  caller,  \* who has called add_task for a job: the thread and its job
  id,      \* what add_task has returned for a job, 0 before
  unwaited, \* jobs that were added and that nobody has waited for
  runs     \* how often each job was started

usage == <<caller, id, unwaited>>
signalers == <<ready_signaler, done_signaler>>
vars == <<pc, stack, arg, idx, tasks, signalers, we_are_destructing, usage,
          runs>>

NewSlot == [task_id |-> 0, thread_id |-> Nobody, job |-> Nobody,
            is_being_processed |-> FALSE, next_task_id |-> 2]

Init ==
  /\ pc = [th \in Threads |-> IF th \in Workers THEN "start" ELSE "run"]
  /\ stack = [th \in Threads |-> <<>>]
  /\ arg = [th \in Threads |-> Nobody]
  /\ idx = [w \in Workers |-> 0]
  /\ tasks = [s \in Slots |-> NewSlot]
  /\ ready_signaler = {} /\ done_signaler = {}
  /\ we_are_destructing = FALSE
  /\ caller = [j \in Jobs |-> <<Nobody, Nobody>>]
  /\ id = [j \in Jobs |-> 0]
  /\ unwaited = {}
  /\ runs = [j \in Jobs |-> 0]

is_empty(s) == tasks[s].task_id = 0
is_ready(s) == ~tasks[s].is_being_processed /\ ~is_empty(s)
EmptySlots == {s \in Slots : is_empty(s)}
ReadySlots == {s \in Slots : is_ready(s)}
NothingPendingInSlots == ReadySlots = {}
NothingPending == EmptySlots = Slots

\* Without workers every thread counts as one.
is_worker_threadNever(th) == th \notin Threads
is_worker_thread(th) == \/ th \in Workers /\ pc[th] # "start"
                        \/ Workers = {}

make_next_task_id(s) == tasks[s].next_task_id * NumSlots + s
task_id_to_index(task_id) == task_id % NumSlots

Awake(th) == th \notin ready_signaler /\ th \notin done_signaler
At(th, place) == pc[th] = place /\ Awake(th)
Goto(th, place) == pc' = [pc EXCEPT ![th] = place]
OnlyGoto(th, place) ==
  /\ Goto(th, place)
  /\ UNCHANGED <<stack, arg, idx, tasks, signalers, we_are_destructing, usage,
                 runs>>

\* The job a thread is in, and the jobs it has added there and not waited for.
Frame(th) == <<th, IF stack[th] = <<>> THEN Nobody ELSE Last(stack[th])>>
Open(th) == {j \in unwaited : caller[j] = Frame(th)}
-----------------------------------------------------------------------------
(* Calls of the users, from client code or from inside a job. *)

CallAddTask(th) ==
  /\ At(th, "run")
  /\ LET fresh == {j \in Jobs : caller[j][1] = Nobody}
     IN  /\ fresh # {}
         /\ arg' = [arg EXCEPT ![th] = Min(fresh)]
         /\ caller' = [caller EXCEPT ![Min(fresh)] = Frame(th)]
  /\ Goto(th, "add_task")
  /\ UNCHANGED <<stack, idx, tasks, signalers, we_are_destructing, id, unwaited,
                 runs>>

CallWaitForTask(th) ==
  /\ At(th, "run")
  /\ \E j \in Open(th) : arg' = [arg EXCEPT ![th] = j]
  /\ Goto(th, "wait_for_task")
  /\ UNCHANGED <<stack, idx, tasks, signalers, we_are_destructing, usage, runs>>

CallWaitForAllTasks(th) ==
  /\ At(th, "run")
  /\ Open(th) # {}
  /\ OnlyGoto(th, "wait_for_all_tasks")

(* A job ends.  A job run inside add_task returns to the caller, one that a
   worker has taken from a slot goes back to the worker's loop. *)
EndJob(th) ==
  /\ At(th, "run")
  /\ stack[th] # <<>>
  /\ Open(th) = {}
  /\ stack' = [stack EXCEPT ![th] = Front(@)]
  /\ Goto(th, IF th \in Workers /\ Len(stack[th]) = 1 THEN "clear" ELSE "run")
  /\ UNCHANGED <<arg, idx, tasks, signalers, we_are_destructing, usage, runs>>
-----------------------------------------------------------------------------
(* add_task *)

Added(th, j) == /\ unwaited' = unwaited \cup {j}
                /\ arg' = [arg EXCEPT ![th] = Nobody]

(* Into the first empty slot, and one sleeping worker is woken. *)
SignalReadyNobody == UNCHANGED ready_signaler
SignalReady ==
  \/ ready_signaler = {} /\ UNCHANGED ready_signaler
  \/ \E w \in ready_signaler : ready_signaler' = ready_signaler \ {w}

FillSlot(th) ==
  /\ At(th, "add_task")
  /\ EmptySlots # {}
  /\ LET s == Min(EmptySlots)
     IN  /\ tasks' = [tasks EXCEPT ![s] =
                        [task_id |-> make_next_task_id(s), thread_id |-> th,
                         job |-> arg[th], is_being_processed |-> FALSE,
                         next_task_id |-> @.next_task_id + 1]]
         /\ id' = [id EXCEPT ![arg[th]] = make_next_task_id(s)]
  /\ SignalReady
  /\ Added(th, arg[th])
  /\ Goto(th, "run")
  /\ UNCHANGED <<stack, idx, done_signaler, we_are_destructing, caller, runs>>

(* A worker that finds no empty slot runs the job itself; its id is never that
   of a slot. *)
RunHere(th) ==
  /\ At(th, "add_task")
  /\ EmptySlots = {}
  /\ is_worker_thread(th)
  /\ stack' = [stack EXCEPT ![th] = Append(@, arg[th])]
  /\ runs' = [runs EXCEPT ![arg[th]] = @ + 1]
  /\ id' = [id EXCEPT ![arg[th]] = 1]
  /\ Added(th, arg[th])
  /\ Goto(th, "run")
  /\ UNCHANGED <<idx, tasks, signalers, we_are_destructing, caller>>

SleepUntilDone(th) ==
  /\ done_signaler' = done_signaler \cup {th}
  /\ UNCHANGED <<pc, stack, arg, idx, tasks, ready_signaler,
                 we_are_destructing, usage, runs>>

WaitForSlot(th) ==
  /\ At(th, "add_task")
  /\ EmptySlots = {}
  /\ ~is_worker_thread(th)
  /\ SleepUntilDone(th)
-----------------------------------------------------------------------------
(* wait_for_task, wait_for_all_tasks *)

IsPendingOnceTaken(j) ==
  LET slot == tasks[task_id_to_index(id[j])]
  IN  slot.task_id = id[j] /\ slot.is_being_processed
IsPending(j) ==
  NumSlots # 0 /\ tasks[task_id_to_index(id[j])].task_id = id[j]
HasPending(th) == \E s \in Slots : ~is_empty(s) /\ tasks[s].thread_id = th

StayForTask(th) ==
  /\ At(th, "wait_for_task")
  /\ IsPending(arg[th])
  /\ SleepUntilDone(th)

ReturnFromTask(th) ==
  /\ At(th, "wait_for_task")
  /\ ~IsPending(arg[th])
  /\ unwaited' = unwaited \ {arg[th]}
  /\ arg' = [arg EXCEPT ![th] = Nobody]
  /\ Goto(th, "run")
  /\ UNCHANGED <<stack, idx, tasks, signalers, we_are_destructing, caller, id,
                 runs>>

StayForAll(th) ==
  /\ At(th, "wait_for_all_tasks")
  /\ HasPending(th)
  /\ SleepUntilDone(th)

ReturnFromAll(th) ==
  /\ At(th, "wait_for_all_tasks")
  /\ ~HasPending(th)
  /\ unwaited' = {j \in unwaited : caller[j][1] # th}
  /\ Goto(th, "run")
  /\ UNCHANGED <<stack, arg, idx, tasks, signalers, we_are_destructing, caller,
                 id, runs>>
-----------------------------------------------------------------------------
(* thread(), the loop of a worker *)

UnchangedUse == UNCHANGED <<stack, arg, usage, runs>>

Register(w) ==
  /\ At(w, "start")
  /\ OnlyGoto(w, "check")

\* The condition of the loop, read without the mutex.
CheckDestructing(w) ==
  /\ At(w, "check")
  /\ OnlyGoto(w, IF we_are_destructing THEN "exit" ELSE "find")

SleepUntilReady(w) ==
  /\ At(w, "find")
  /\ ReadySlots = {}
  /\ ~we_are_destructing
  /\ ready_signaler' = ready_signaler \cup {w}
  /\ UnchangedUse
  /\ UNCHANGED <<pc, idx, tasks, done_signaler, we_are_destructing>>

Leave(w) ==
  /\ At(w, "find")
  /\ we_are_destructing
  /\ OnlyGoto(w, "exit")

TakeJob(w) ==
  /\ At(w, "find")
  /\ ReadySlots # {}
  /\ ~we_are_destructing
  /\ LET s == Min(ReadySlots)
     IN  /\ tasks' = [tasks EXCEPT ![s].is_being_processed = TRUE]
         /\ idx' = [idx EXCEPT ![w] = s]
         /\ stack' = [stack EXCEPT ![w] = <<tasks[s].job>>]
         /\ runs' = [runs EXCEPT ![tasks[s].job] = @ + 1]
  /\ Goto(w, "run")
  /\ UNCHANGED <<arg, signalers, we_are_destructing, usage>>

(* The slot is cleared and everybody who waits for a job or for a slot is
   woken. *)
BroadcastDoneToOne ==
  \/ done_signaler = {} /\ UNCHANGED done_signaler
  \/ \E th \in done_signaler : done_signaler' = done_signaler \ {th}
BroadcastDone == done_signaler' = {}

ClearSlot(w) ==
  /\ At(w, "clear")
  /\ tasks' = [tasks EXCEPT ![idx[w]] = [@ EXCEPT !.task_id = 0, !.job = Nobody,
                                         !.is_being_processed = FALSE]]
  /\ BroadcastDone
  /\ Goto(w, "check")
  /\ UnchangedUse /\ UNCHANGED <<idx, ready_signaler, we_are_destructing>>
-----------------------------------------------------------------------------
(* The end of the clients, and shutdown_pool. *)

EndClient(c) ==
  /\ c # Owner
  /\ At(c, "run") /\ stack[c] = <<>>
  /\ OnlyGoto(c, "ended")

CallShutdown(c) ==
  /\ c = Owner
  /\ At(c, "run") /\ stack[c] = <<>>
  /\ \A other \in Clients \ {Owner} : pc[other] = "ended"
  /\ OnlyGoto(c, "shutdown")

StayForPending(c) ==
  /\ At(c, "shutdown")
  /\ ~NothingPending
  /\ SleepUntilDone(c)

Destruct(c) ==
  /\ At(c, "shutdown")
  /\ NothingPending
  /\ we_are_destructing' = TRUE
  /\ ready_signaler' = {}
  /\ Goto(c, "join")
  /\ UnchangedUse /\ UNCHANGED <<idx, tasks, done_signaler>>

Join(c) ==
  /\ At(c, "join")
  /\ \A w \in Workers : pc[w] = "exit"
  /\ OnlyGoto(c, "ended")

\* The operating system may wake a sleeping thread without a signal.
SpuriousWakeup(th) ==
  /\ ~Awake(th)
  /\ ready_signaler' = ready_signaler \ {th}
  /\ done_signaler' = done_signaler \ {th}
  /\ UnchangedUse /\ UNCHANGED <<pc, idx, tasks, we_are_destructing>>
-----------------------------------------------------------------------------
Use(th) ==
  \/ CallAddTask(th) \/ CallWaitForTask(th) \/ CallWaitForAllTasks(th)
  \/ EndJob(th)
  \/ FillSlot(th) \/ RunHere(th) \/ WaitForSlot(th)
  \/ StayForTask(th) \/ ReturnFromTask(th)
  \/ StayForAll(th) \/ ReturnFromAll(th)

Loop(w) ==
  \/ Register(w) \/ CheckDestructing(w) \/ SleepUntilReady(w) \/ Leave(w)
  \/ TakeJob(w) \/ ClearSlot(w)

Close(c) ==
  \/ EndClient(c) \/ CallShutdown(c) \/ StayForPending(c) \/ Destruct(c)
  \/ Join(c)

Step(th) ==
  \/ Use(th)
  \/ th \in Workers /\ Loop(th)
  \/ th \in Clients /\ Close(th)

Next == \E th \in Threads : Step(th) \/ SpuriousWakeup(th)

\* The scheduler lets every thread run that is not asleep.
Spec == Init /\ [][Next]_vars
FairSpec == Spec /\ \A th \in Threads : WF_vars(Step(th))
-----------------------------------------------------------------------------
Places == {"start", "check", "find", "run", "add_task", "wait_for_task",
           "wait_for_all_tasks", "clear", "exit", "shutdown", "join", "ended"}

Slot == [task_id : Nat, thread_id : Threads \cup {Nobody},
         job : Jobs \cup {Nobody}, is_being_processed : BOOLEAN,
         next_task_id : Nat]

(* Slots, signalers and calls keep their types; only workers ever sleep on
   task_ready_signaler. *)
TypeOK ==
  /\ pc \in [Threads -> Places]
  /\ stack \in [Threads -> Seq(Jobs)]
  /\ arg \in [Threads -> Jobs \cup {Nobody}]
  /\ idx \in [Workers -> Nat]
  /\ tasks \in [Slots -> Slot]
  /\ ready_signaler \subseteq Workers /\ done_signaler \subseteq Threads
  /\ we_are_destructing \in BOOLEAN
  /\ caller \in [Jobs -> (Threads \cup {Nobody}) \X (Jobs \cup {Nobody})]
  /\ id \in [Jobs -> Nat]
  /\ unwaited \subseteq Jobs
  /\ runs \in [Jobs -> Nat]

InJob(th, j) == j \in Range(stack[th])
InLoop(w) == stack[w] # <<>> \/ pc[w] = "clear"

(* A slot that is being processed has one worker that will clear it, and no two
   workers have the same slot: none is cleared twice or under another job. *)
SlotsOwned ==
  /\ \A w \in Workers : InLoop(w) => /\ idx[w] \in Slots
                                     /\ tasks[idx[w]].is_being_processed
  /\ \A v, w \in Workers : InLoop(v) /\ InLoop(w) /\ idx[v] = idx[w] => v = w
  /\ \A s \in Slots : tasks[s].is_being_processed =>
                         \E w \in Workers : InLoop(w) /\ idx[w] = s

(* One signal for each job is enough: as many workers are awake and looking for
   a job as there are jobs that nobody has taken, so that none is left lying
   (add_task_internal signals, it does not broadcast). *)
EnoughAwake ==
  Cardinality(ReadySlots) <=
    Cardinality({w \in Workers : /\ pc[w] \in {"start", "check", "find"}
                                 /\ Awake(w)})

(* Nobody sleeps on task_done_signaler when what he waits for has happened:
   every change that could end a wait wakes everybody. *)
SleepersWaitRightly ==
  \A th \in done_signaler :
    \/ pc[th] = "add_task" /\ EmptySlots = {}
    \/ pc[th] = "wait_for_task" /\ IsPending(arg[th])
    \/ pc[th] = "wait_for_all_tasks" /\ HasPending(th)
    \/ pc[th] = "shutdown" /\ ~NothingPending

(* The destructor "blocks until all tasks in the pool have finished"
   (thread_pool_extension_abstract.h:251), those that tasks have added
   included: nothing runs or waits once the workers are told to end. *)
DestroyedIdle ==
  we_are_destructing =>
    \A j \in Jobs : caller[j][1] # Nobody =>
      runs[j] = 1 /\ \A th \in Threads : ~InJob(th, j)

(* The pool as its users know it. *)
Status(j) ==
  IF \E th \in Threads : InJob(th, j) THEN "running"
  ELSE IF runs[j] > 0 THEN "done"
  ELSE IF j \in {tasks[s].job : s \in Slots} THEN "added"
  ELSE "new"
Runner(j) == IF Status(j) = "running" THEN CHOOSE th \in Threads : InJob(th, j)
                                      ELSE Nobody
Adder(j) == IF Status(j) = "new" THEN Nobody ELSE caller[j][1]
Waits(th) ==
  CASE pc[th] = "wait_for_task" -> {arg[th]}
    [] pc[th] = "wait_for_all_tasks" ->
         {j \in Jobs : Adder(j) = th /\ ~InJob(th, j)}
    [] OTHER -> {}

Pool == INSTANCE TaskPool WITH status <- [j \in Jobs |-> Status(j)],
                               runner <- [j \in Jobs |-> Runner(j)],
                               adder <- [j \in Jobs |-> Adder(j)],
                               waits <- [th \in Threads |-> Waits(th)]

(* The slots keep the promise of thread_pool_extension_abstract.h: each job runs
   once, on a free worker or inside its caller, and who waits for it returns
   when it is done. *)
IsTaskPool == Pool!Spec

(* Everybody gets through: no job, no waiting thread, no worker and not the
   destructor hangs, although jobs wait for jobs on the same few workers. *)
AllEnd == <>(\A th \in Threads : pc[th] \in {"exit", "ended"})
=============================================================================
