---------------------------- MODULE ParallelRisk ----------------------------
(***************************************************************************)
(* One round of structural_svm_problem_threaded                            *)
(* (dlib/svm/structural_svm_problem_threaded.h): parallel_for_blocked cuts *)
(* the samples into blocks and gives them to the thread pool, the workers  *)
(* ask the oracle for their samples and add what it says to the subgradient*)
(* under accum_mutex, and the caller waits for all of them.                *)
(*                                                                         *)
(* The pool is the one that TaskPool promises and ThreadPool implements; a *)
(* job is a block.  What a sample adds is the sample: the sum says how     *)
(* often each one is in it.                                                *)
(***************************************************************************)
EXTENDS Integers, FiniteSets, FiniteSetsExt

CONSTANTS
  Workers, Caller, Nobody,
  MaxSamples,        \* bound on get_num_samples()
  ChunksPerThread    \* chunks_per_thread, 8 in the code

ASSUME ParallelAssumption ==
  /\ IsFiniteSet(Workers) /\ Workers # {}
  /\ Caller \notin Workers /\ Nobody \notin Workers \cup {Caller}
  /\ MaxSamples \in Nat \ {0} /\ ChunksPerThread \in Nat \ {0}

Threads == Workers \cup {Caller}
Blocks == 1..MaxSamples
Samples == 0..(MaxSamples - 1)

VARIABLES
  status, runner, adder, waits,  \* the pool
  num,          \* get_num_samples()
  buffer,       \* buffer_subgradients_locally
  call,         \* what the caller of parallel_for_blocked does
  step, at,     \* what each worker does, and with which sample
  faccum,       \* what it has to add
  seen,         \* the subgradient as it has read it
  sum,          \* the subgradient
  accum_mutex

pool == <<status, runner, adder, waits>>
work == <<step, at, faccum, seen, sum, accum_mutex>>
vars == <<pool, num, buffer, call, work>>

Pool == INSTANCE TaskPool WITH Jobs <- Blocks

None == [s \in Samples |-> 0]
Just(s) == [None EXCEPT ![s] = 1]
Sum(f, g) == [s \in Samples |-> f[s] + g[s]]

\* Blocks of parallel_for_blocked: from begin to before end.
block_size == Max({1, num \div (Cardinality(Workers) * ChunksPerThread)})
Begin(b) == (b - 1) * block_size
LastOverlapping(b) == Min({b * block_size + 1, num})
End(b) == Min({b * block_size, num})
BlocksNeeded == {b \in Blocks : Begin(b) < num}

Init ==
  /\ Pool!Init
  /\ num \in 1..MaxSamples
  /\ buffer \in BOOLEAN
  /\ call = "add"
  /\ step = [th \in Workers |-> "idle"] /\ at = [th \in Workers |-> 0]
  /\ faccum = [th \in Workers |-> None] /\ seen = [th \in Workers |-> None]
  /\ sum = None
  /\ accum_mutex = Nobody

(* parallel_for_blocked *)
AddTask ==
  /\ call = "add"
  /\ \E b \in BlocksNeeded :
       /\ \A c \in 1..(b - 1) : status[c] # "new"
       /\ Pool!Add(Caller, b)
       /\ call' = IF b = Max(BlocksNeeded) THEN "wait_for_all_tasks" ELSE "add"
  /\ UNCHANGED <<num, buffer, work>>

WaitForAllTasks ==
  /\ call = "wait_for_all_tasks" /\ waits[Caller] = {}
  /\ Pool!Wait(Caller) /\ waits'[Caller] = BlocksNeeded
  /\ UNCHANGED <<num, buffer, call, work>>

Return ==
  /\ call = "wait_for_all_tasks"
  /\ Pool!Return(Caller)
  /\ call' = "done"
  /\ UNCHANGED <<num, buffer, work>>

(* call_oracle, with one sum for the block or one for each sample. *)
Block(th) == CHOOSE b \in Blocks : runner[b] = th
Buffered(b) == End(b) - Begin(b) > 1 /\ buffer

Start(th) ==
  /\ step[th] = "idle"
  /\ \E b \in BlocksNeeded :
       Pool!Start(th, b) /\ at' = [at EXCEPT ![th] = Begin(b)]
  /\ faccum' = [faccum EXCEPT ![th] = None]
  /\ step' = [step EXCEPT ![th] = "oracle"]
  /\ UNCHANGED <<num, buffer, call, seen, sum, accum_mutex>>

\* separation_oracle_cached has found its labelling.
OracleReturns(th) ==
  /\ step[th] = "oracle"
  /\ IF Buffered(Block(th))
       THEN /\ faccum' = [faccum EXCEPT ![th] = Sum(@, Just(at[th]))]
            /\ at' = [at EXCEPT ![th] = @ + 1]
            /\ step' = [step EXCEPT ![th] =
                          IF at[th] + 1 < End(Block(th)) THEN "oracle" ELSE "lock"]
       ELSE /\ faccum' = [faccum EXCEPT ![th] = Just(at[th])]
            /\ at' = [at EXCEPT ![th] = @ + 1]
            /\ step' = [step EXCEPT ![th] = "lock"]
  /\ UNCHANGED <<pool, num, buffer, call, seen, sum, accum_mutex>>

FreeForAll == TRUE
Free == accum_mutex = Nobody

Lock(th) ==
  /\ step[th] = "lock"
  /\ Free
  /\ accum_mutex' = th
  /\ seen' = [seen EXCEPT ![th] = sum]
  /\ step' = [step EXCEPT ![th] = "add"]
  /\ UNCHANGED <<pool, num, buffer, call, at, faccum, sum>>

AddToAndKeepLock(th) ==
  /\ step[th] = "add"
  /\ sum' = Sum(seen[th], faccum[th])
  /\ step' = [step EXCEPT ![th] =
                IF at[th] < End(Block(th)) THEN "oracle" ELSE "end"]
  /\ UNCHANGED <<pool, num, buffer, call, at, faccum, seen, accum_mutex>>
AddTo(th) ==
  /\ step[th] = "add"
  /\ sum' = Sum(seen[th], faccum[th])
  /\ accum_mutex' = Nobody
  /\ step' = [step EXCEPT ![th] =
                IF at[th] < End(Block(th)) THEN "oracle" ELSE "end"]
  /\ UNCHANGED <<pool, num, buffer, call, at, faccum, seen>>

Finish(th) ==
  /\ step[th] = "end"
  /\ Pool!Finish(Block(th))
  /\ step' = [step EXCEPT ![th] = "idle"]
  /\ UNCHANGED <<num, buffer, call, at, faccum, seen, sum, accum_mutex>>

Work(th) ==
  Start(th) \/ OracleReturns(th) \/ Lock(th) \/ AddTo(th) \/ Finish(th)

Next == AddTask \/ WaitForAllTasks \/ Return \/ \E th \in Workers : Work(th)

\* The scheduler lets every thread run; the mutex need not be a fair one.
FairSpec ==
  /\ Init /\ [][Next]_vars
  /\ WF_vars(AddTask) /\ WF_vars(WaitForAllTasks) /\ WF_vars(Return)
  /\ \A th \in Workers : WF_vars(Work(th))
-----------------------------------------------------------------------------
(* No two threads are inside the oracle cache of one sample, which has no lock
   of its own (`mutable' members that a const call writes), and none asks for
   a sample that is not there. *)
OneCallerPerSample ==
  \A th \in Workers : step[th] = "oracle" =>
    /\ at[th] < num
    /\ \A other \in Workers \ {th} : step[other] = "oracle" => at[other] # at[th]

(* When the call returns, every sample is in the subgradient and in the loss
   exactly once, and nobody adds to them any more: the round is the one step
   get_risk that CuttingPlanes takes it for. *)
EverySampleOnce ==
  call = "done" =>
    /\ sum = [s \in Samples |-> IF s < num THEN 1 ELSE 0]
    /\ \A th \in Workers : step[th] = "idle"

(* The call returns. *)
RoundEnds == <>(call = "done")
=============================================================================
