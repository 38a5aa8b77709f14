-------------------------- MODULE ThreadPool_proofs --------------------------
(***************************************************************************)
(* The thread pool with any number of workers, clients and jobs: its types *)
(* (TypeOK), the ownership of its slots (SlotsOwned), that nobody sleeps   *)
(* on when what he waits for has happened (SleepersWaitRightly), and that  *)
(* its destructor finds every job done (DestroyedIdle).                    *)
(*                                                                         *)
(* The second part shows that it keeps what its header promises: every     *)
(* step of the slots, signals and stacks is one of TaskPool or changes     *)
(* nothing that its users see (IsTaskPool); and one signal for each job    *)
(* leaves none lying (EnoughAwake).                                        *)
(***************************************************************************)
EXTENDS ThreadPool, FiniteSetTheorems, SequenceTheorems, WellFoundedInduction, TLAPS

-----------------------------------------------------------------------------
(* Numbers: the first of some jobs or slots, and task ids. *)
LEMMA SmallestNat ==
  ASSUME NEW T, T \subseteq Nat, T # {}
  PROVE  Min(T) \in T
<1>1. PICK x \in T : \A y \in T : ~(<<y, x>> \in OpToRel(<, Nat))
  BY NatLessThanWellFounded, WFMin
<1>2. ASSUME NEW y \in T PROVE x <= y
  <2>1. ~(y < x)
    BY <1>1, <1>2 DEF OpToRel
  <2> QED BY <2>1
<1> QED BY <1>2 DEF Min

LEMMA SlotNumbers ==
  /\ NumSlots \in Nat /\ Slots \subseteq Nat
  /\ Slots # {} => NumSlots \in Nat \ {0}
<1>1. NumSlots \in Nat
  BY PoolAssumption, FS_CardinalityType DEF NumSlots
<1> QED BY <1>1 DEF Slots

LEMMA TaskIds ==
  ASSUME NEW s \in Slots, NEW n \in Nat, n >= 2
  PROVE  n * NumSlots + s \in Nat /\ n * NumSlots + s # 0
<1> DEFINE k == NumSlots
<1>1. k \in Nat \ {0} /\ s \in Nat
  BY SlotNumbers
<1> HIDE DEF k
<1>2. n * k \in Nat /\ n * k > 0
  BY <1>1, SMTT(30)
<1>3. n * k + s \in Nat /\ n * k + s # 0
  BY <1>1, <1>2
<1> QED BY <1>3 DEF k

(* Stacks of jobs. *)
LEMMA Stacks ==
  ASSUME NEW st \in Seq(Jobs)
  PROVE  /\ \A j \in Jobs : Append(st, j) \in Seq(Jobs) /\ Append(st, j) # <<>>
         /\ st # <<>> => /\ Front(st) \in Seq(Jobs)
                         /\ Last(st) \in Jobs
                         /\ Front(st) = <<>> <=> Len(st) = 1
<1>1. \A j \in Jobs : Append(st, j) \in Seq(Jobs) /\ Append(st, j) # <<>>
  BY AppendProperties
<1>2. ASSUME st # <<>> PROVE Front(st) \in Seq(Jobs) /\ Last(st) \in Jobs
                             /\ Len(Front(st)) = Len(st) - 1
  <2>1. Len(st) \in Nat /\ Len(st) >= 1 /\ \A k \in 1..Len(st) : st[k] \in Jobs
    BY <1>2, EmptySeq, LenProperties, ElementOfSeq
  <2>2. /\ SubSeq(st, 1, Len(st) - 1) \in Seq(Jobs)
        /\ Len(SubSeq(st, 1, Len(st) - 1)) =
             IF 1 <= Len(st) - 1 THEN (Len(st) - 1) - 1 + 1 ELSE 0
    BY <2>1, SubSeqProperties
  <2>3. Len(Front(st)) = Len(st) - 1
    <3> DEFINE n == Len(st)
    <3>1. /\ n \in Nat /\ n >= 1
          /\ Len(Front(st)) = IF 1 <= n - 1 THEN (n - 1) - 1 + 1 ELSE 0
      BY <2>1, <2>2 DEF Front
    <3> HIDE DEF n
    <3>2. Len(Front(st)) = n - 1
      BY <3>1
    <3> QED BY <3>2 DEF n
  <2>4. Last(st) \in Jobs
    BY <2>1 DEF Last
  <2> QED BY <2>2, <2>3, <2>4 DEF Front
<1>3. ASSUME st # <<>> PROVE Front(st) = <<>> <=> Len(st) = 1
  <2>1. Front(st) \in Seq(Jobs) /\ Len(Front(st)) = Len(st) - 1
    BY <1>2, <1>3
  <2>2. Front(st) = <<>> <=> Len(Front(st)) = 0
    <3>1. \A u \in Seq(Jobs) : u = <<>> <=> Len(u) = 0
      BY EmptySeq
    <3> QED BY <2>1, <3>1
  <2> DEFINE n == Len(st)
             m == Len(Front(st))
  <2>3. n \in Nat /\ m = n - 1
    BY <2>1, LenProperties
  <2> HIDE DEF n, m
  <2>4. m = 0 <=> n = 1
    BY <2>3
  <2> QED BY <2>2, <2>4 DEF n, m
<1> QED BY <1>1, <1>2, <1>3

LEMMA Frames ==
  ASSUME NEW th \in Threads, stack[th] \in Seq(Jobs)
  PROVE  /\ Frame(th) \in (Threads \cup {Nobody}) \X (Jobs \cup {Nobody})
         /\ Frame(th)[1] = th
BY Stacks DEF Frame
-----------------------------------------------------------------------------
InLoopPlaces == {"start", "check", "find", "clear", "exit"}
UserPlaces == {"run", "add_task", "wait_for_task", "wait_for_all_tasks"}
ClosedPlaces == {"shutdown", "join", "ended"}

(* A worker is in its loop when it is inside no job; a client that closes is. *)
Control ==
  /\ \A w \in Workers : /\ pc[w] \in InLoopPlaces \cup UserPlaces
                        /\ pc[w] \in InLoopPlaces <=> stack[w] = <<>>
  /\ \A c \in Clients : /\ pc[c] \in UserPlaces \cup ClosedPlaces
                        /\ pc[c] \in ClosedPlaces => stack[c] = <<>>

(* A job on its way into add_task is its caller's alone and has no id; one that
   was added has an id. *)
Calls ==
  /\ \A th \in Threads : pc[th] = "add_task" =>
       /\ arg[th] \in Jobs /\ caller[arg[th]][1] = th
       /\ id[arg[th]] = 0 /\ runs[arg[th]] = 0
  /\ \A th \in Threads : pc[th] = "wait_for_task" =>
       arg[th] \in Jobs /\ id[arg[th]] # 0
  /\ \A j \in unwaited : id[j] # 0
  /\ \A j \in Jobs : caller[j][1] = Nobody => id[j] = 0 /\ runs[j] = 0

SlotsFilled ==
  \A s \in Slots :
    /\ tasks[s].is_being_processed => ~is_empty(s)
    /\ ~is_empty(s) => tasks[s].job \in Jobs /\ id[tasks[s].job] # 0
    /\ tasks[s].next_task_id >= 2

(* The owner closes last, and the workers are told to end when the slots are
   empty. *)
Closing ==
  /\ \A c \in Clients \ {Owner} : pc[c] \notin {"shutdown", "join"}
  /\ pc[Owner] \in ClosedPlaces => \A c \in Clients \ {Owner} : pc[c] = "ended"
  /\ we_are_destructing =>
       (\A s \in Slots : is_empty(s)) /\ pc[Owner] \in {"join", "ended"}

(* A job that somebody has called add_task for was started once, or is still in
   that call or in a slot of its own. *)
Kept ==
  /\ \A s \in Slots : is_ready(s) => runs[tasks[s].job] = 0
  /\ \A s, t \in Slots : is_ready(s) /\ is_ready(t) /\ tasks[s].job = tasks[t].job => s = t
  /\ \A j \in Jobs : caller[j][1] # Nobody =>
       \/ runs[j] = 1
       \/ \E th \in Threads : pc[th] = "add_task" /\ arg[th] = j
       \/ \E s \in Slots : is_ready(s) /\ tasks[s].job = j

Core ==
  TypeOK /\ Control /\ Calls /\ SlotsFilled /\ SlotsOwned /\ Closing /\ Kept
IInv == Core /\ SleepersWaitRightly

(* Nobody is no thread and no slot; workers and clients are apart. *)
LEMMA Apart ==
  /\ Nobody \notin Threads /\ Nobody \notin Jobs /\ Owner \in Threads
  /\ \A w \in Workers : w \in Threads /\ w \notin Clients
  /\ \A c \in Clients : c \in Threads /\ c \notin Workers
  /\ Jobs \subseteq Nat
BY PoolAssumption DEF Threads, Jobs

LEMMA CoreInit == Init => IInv
<1> SUFFICES ASSUME Init PROVE IInv
  OBVIOUS
<1>1. TypeOK
  <2>1. pc \in [Threads -> Places] /\ arg \in [Threads -> Jobs \cup {Nobody}]
    BY DEF Init, Places
  <2>2. stack \in [Threads -> Seq(Jobs)]
    BY EmptySeq DEF Init
  <2>3. tasks \in [Slots -> Slot]
    BY DEF Init, Slot, NewSlot
  <2>4. caller \in [Jobs -> (Threads \cup {Nobody}) \X (Jobs \cup {Nobody})]
    BY DEF Init
  <2> QED BY <2>1, <2>2, <2>3, <2>4 DEF Init, TypeOK
<1>2. Control
  BY Apart DEF Init, Control, InLoopPlaces, UserPlaces, ClosedPlaces, Threads
<1>3. \A th \in Threads : pc[th] \in {"start", "run"}
  BY DEF Init
<1>4. Calls
  BY <1>3 DEF Init, Calls
<1>5. \A s \in Slots : is_empty(s) /\ ~tasks[s].is_being_processed
                       /\ tasks[s].next_task_id = 2
  BY DEF Init, NewSlot, is_empty
<1>6. SlotsFilled
  BY <1>5 DEF SlotsFilled
<1>7. SlotsOwned
  BY <1>3, <1>5, Apart DEF Init, SlotsOwned, InLoop, Threads
<1>8. Closing
  BY <1>3, Apart DEF Init, Closing, ClosedPlaces
<1>9. Kept
  BY <1>5 DEF Init, Kept, is_ready
<1>10. SleepersWaitRightly
  BY DEF Init, SleepersWaitRightly
<1> QED BY <1>1, <1>2, <1>4, <1>6, <1>7, <1>8, <1>9, <1>10 DEF IInv, Core

-----------------------------------------------------------------------------
(* A sleeper goes on waiting rightly as long as slots are only filled. *)
LEMMA SleepersStay ==
  ASSUME IInv, NEW th \in Threads, th \notin done_signaler,
         done_signaler' \subseteq done_signaler,
         \A v \in Threads \ {th} : pc'[v] = pc[v] /\ arg'[v] = arg[v],
         \A s \in Slots : ~is_empty(s) => /\ tasks'[s].task_id = tasks[s].task_id
                                          /\ tasks'[s].thread_id = tasks[s].thread_id,
         \A j \in Jobs : id[j] # 0 => id'[j] = id[j]
  PROVE  SleepersWaitRightly'
<1> USE DEF IInv, Core
<1> SUFFICES ASSUME NEW v \in done_signaler
             PROVE (\/ pc[v] = "add_task" /\ EmptySlots = {}
                    \/ pc[v] = "wait_for_task" /\ IsPending(arg[v])
                    \/ pc[v] = "wait_for_all_tasks" /\ HasPending(v)
                    \/ pc[v] = "shutdown" /\ ~NothingPending)'
  BY DEF SleepersWaitRightly
<1>1. v \in Threads /\ pc'[v] = pc[v] /\ arg'[v] = arg[v]
  BY DEF TypeOK
<1>2. \A s \in Slots : ~is_empty(s) => ~is_empty(s)'
  BY DEF is_empty
<1>3. CASE pc[v] = "add_task" /\ EmptySlots = {}
  BY <1>1, <1>2, <1>3 DEF EmptySlots
<1>4. CASE pc[v] = "wait_for_task" /\ IsPending(arg[v])
  <2>1. arg[v] \in Jobs /\ id[arg[v]] # 0 /\ id[arg[v]] \in Nat
    BY <1>1, <1>4 DEF Calls, TypeOK
  <2>2. NumSlots \in Nat \ {0}
    BY <1>4, SlotNumbers DEF IsPending
  <2>3. task_id_to_index(id[arg[v]]) \in Slots
    BY <2>1, <2>2 DEF task_id_to_index, Slots
  <2>4. ~is_empty(task_id_to_index(id[arg[v]]))
    BY <1>4, <2>1 DEF IsPending, is_empty
  <2>5. id'[arg'[v]] = id[arg[v]]
    BY <1>1, <2>1
  <2>6. task_id_to_index(id[arg[v]])' = task_id_to_index(id[arg[v]])
    BY <2>5 DEF task_id_to_index
  <2>7. tasks'[task_id_to_index(id[arg[v]])].task_id = id[arg[v]]
    BY <1>4, <2>3, <2>4 DEF IsPending
  <2>8. IsPending(arg[v])'
    BY <2>2, <2>5, <2>6, <2>7 DEF IsPending
  <2> QED BY <1>1, <1>4, <2>8
<1>5. CASE pc[v] = "wait_for_all_tasks" /\ HasPending(v)
  <2>1. HasPending(v)'
    BY <1>2, <1>5 DEF HasPending
  <2> QED BY <1>1, <1>5, <2>1
<1>6. CASE pc[v] = "shutdown" /\ ~NothingPending
  <2>1. ~NothingPending'
    BY <1>2, <1>6 DEF NothingPending, EmptySlots
  <2> QED BY <1>1, <1>6, <2>1
<1> QED BY <1>3, <1>4, <1>5, <1>6 DEF SleepersWaitRightly

(* A step that only puts threads to sleep or wakes them. *)
LEMMA SignalersOnly ==
  ASSUME Core, SleepersWaitRightly',
         ready_signaler' \subseteq Workers, done_signaler' \subseteq Threads,
         UNCHANGED <<pc, stack, arg, idx, tasks, we_are_destructing, usage, runs>>
  PROVE  IInv'
<1>1. UNCHANGED <<caller, id, unwaited>>
  BY DEF usage
<1>2. TypeOK' /\ Control' /\ Calls' /\ Closing'
  BY <1>1 DEF Core, TypeOK, Control, Calls, Closing, is_empty
<1>3. SlotsFilled' /\ Kept'
  BY <1>1 DEF Core, SlotsFilled, Kept, is_ready, is_empty
<1>4. SlotsOwned'
  BY DEF Core, SlotsOwned, InLoop
<1> QED BY <1>2, <1>3, <1>4 DEF IInv, Core

(* A step that only takes a thread from one place to another. *)
LEMMA PlaceOnly ==
  ASSUME IInv, NEW th \in Threads, NEW place \in Places, Awake(th),
         OnlyGoto(th, place),
         pc[th] # "add_task", place \notin {"add_task", "wait_for_task"},
         pc[th] = "clear" <=> place = "clear",
         th \in Workers => /\ place \in InLoopPlaces \cup UserPlaces
                           /\ place \in InLoopPlaces <=> stack[th] = <<>>,
         th \in Clients => /\ place \in UserPlaces \cup ClosedPlaces
                           /\ place \in ClosedPlaces => stack[th] = <<>>
                           /\ pc[th] = "ended" => place = "ended",
         th = Owner /\ place \in ClosedPlaces =>
           \A c \in Clients \ {Owner} : pc[c] = "ended",
         th \in Clients \ {Owner} => place \notin {"shutdown", "join"},
         th = Owner /\ we_are_destructing => place \in {"join", "ended"}
  PROVE  IInv'
<1> USE DEF IInv, Core
<1>1. /\ pc' = [pc EXCEPT ![th] = place]
      /\ UNCHANGED <<stack, arg, idx, tasks, ready_signaler, done_signaler,
                     we_are_destructing, caller, id, unwaited, runs>>
  BY DEF OnlyGoto, Goto, usage, signalers
<1>2. pc'[th] = place /\ \A v \in Threads \ {th} : pc'[v] = pc[v]
  BY <1>1 DEF TypeOK
<1>3. TypeOK'
  BY <1>1 DEF TypeOK
<1>4. Control'
  BY <1>1, <1>2, Apart DEF Control
<1>5. Calls'
  BY <1>1, <1>2 DEF Calls
<1>6. SlotsFilled'
  BY <1>1 DEF SlotsFilled, is_empty
<1>7. SlotsOwned'
  <2>1. \A w \in Workers : InLoop(w)' <=> InLoop(w)
    BY <1>1, <1>2, Apart DEF InLoop
  <2> QED BY <1>1, <2>1 DEF SlotsOwned
<1>8. Closing'
  BY <1>1, <1>2, Apart DEF Closing, Control, is_empty
<1>9. Kept'
  BY <1>1, <1>2 DEF Kept, is_ready, is_empty
<1>10. SleepersWaitRightly'
  BY <1>1, <1>2, SleepersStay DEF Awake
<1> QED BY <1>3, <1>4, <1>5, <1>6, <1>7, <1>8, <1>9, <1>10

LEMMA PlaceSteps ==
  ASSUME IInv, NEW th \in Threads,
         \/ CallWaitForAllTasks(th)
         \/ th \in Workers /\ (Register(th) \/ CheckDestructing(th) \/ Leave(th))
         \/ th \in Clients /\ (EndClient(th) \/ CallShutdown(th) \/ Join(th))
  PROVE  IInv'
<1>1. CASE CallWaitForAllTasks(th)
  <2>1. /\ Awake(th) /\ pc[th] = "run" /\ OnlyGoto(th, "wait_for_all_tasks")
        /\ th \in Workers => stack[th] # <<>>
    BY <1>1 DEF CallWaitForAllTasks, At, IInv, Core, Control, InLoopPlaces
  <2>2. th = Owner => ~we_are_destructing
    BY <2>1 DEF IInv, Core, Closing
  <2> QED BY <2>1, <2>2, PlaceOnly DEF Places, InLoopPlaces, UserPlaces, ClosedPlaces
<1>2. CASE th \in Workers /\ (Register(th) \/ CheckDestructing(th) \/ Leave(th))
  <2>1. PICK place \in {"check", "exit", "find"} : OnlyGoto(th, place)
    BY <1>2 DEF Register, CheckDestructing, Leave
  <2>2. Awake(th) /\ pc[th] \in {"start", "check", "find"}
    BY <1>2 DEF Register, CheckDestructing, Leave, At
  <2>3. stack[th] = <<>> /\ th \notin Clients /\ th # Owner
    BY <1>2, <2>2, Apart, PoolAssumption DEF IInv, Core, Control, InLoopPlaces
  <2> QED BY <1>2, <2>1, <2>2, <2>3, PlaceOnly
          DEF Places, InLoopPlaces, UserPlaces, ClosedPlaces
<1>3. CASE th \in Clients /\ (EndClient(th) \/ CallShutdown(th) \/ Join(th))
  <2>1. CASE EndClient(th)
    BY <1>3, <2>1, PlaceOnly, Apart
       DEF EndClient, At, Places, InLoopPlaces, UserPlaces, ClosedPlaces
  <2>2. CASE CallShutdown(th)
    <3>1. ~we_are_destructing
      BY <2>2 DEF CallShutdown, At, IInv, Core, Closing
    <3> QED BY <1>3, <2>2, <3>1, PlaceOnly, Apart
            DEF CallShutdown, At, Places, InLoopPlaces, UserPlaces, ClosedPlaces
  <2>3. CASE Join(th)
    <3>1. Awake(th) /\ pc[th] = "join" /\ OnlyGoto(th, "ended")
      BY <2>3 DEF Join, At
    <3>2. stack[th] = <<>>
      BY <1>3, <3>1 DEF IInv, Core, Control, ClosedPlaces
    <3>3. th = Owner => \A c \in Clients \ {Owner} : pc[c] = "ended"
      BY <3>1 DEF IInv, Core, Closing, ClosedPlaces
    <3> QED BY <1>3, <3>1, <3>2, <3>3, PlaceOnly, Apart
            DEF Places, InLoopPlaces, UserPlaces, ClosedPlaces
  <2> QED BY <1>3, <2>1, <2>2, <2>3
<1> QED BY <1>1, <1>2, <1>3

(* Falling asleep on a condition, for a reason, and waking up. *)
LEMMA SleepSteps ==
  ASSUME IInv, NEW th \in Threads,
         \/ WaitForSlot(th) \/ StayForTask(th) \/ StayForAll(th)
         \/ StayForPending(th) \/ SpuriousWakeup(th)
         \/ th \in Workers /\ SleepUntilReady(th)
  PROVE  IInv'
<1>1. CASE WaitForSlot(th) \/ StayForTask(th) \/ StayForAll(th) \/ StayForPending(th)
  <2>1. SleepUntilDone(th)
    BY <1>1 DEF WaitForSlot, StayForTask, StayForAll, StayForPending
  <2>2. \/ pc[th] = "add_task" /\ EmptySlots = {}
        \/ pc[th] = "wait_for_task" /\ IsPending(arg[th])
        \/ pc[th] = "wait_for_all_tasks" /\ HasPending(th)
        \/ pc[th] = "shutdown" /\ ~NothingPending
    BY <1>1 DEF WaitForSlot, StayForTask, StayForAll, StayForPending, At
  <2>3. UNCHANGED <<pc, stack, arg, idx, tasks, ready_signaler, we_are_destructing,
                    usage, runs>>
    BY <2>1 DEF SleepUntilDone
  <2>4. \A v \in done_signaler' : v \in done_signaler \/ v = th
    BY <2>1 DEF SleepUntilDone
  <2>5. SleepersWaitRightly'
    <3>1. /\ EmptySlots' = EmptySlots /\ (NothingPending' <=> NothingPending)
          /\ \A j \in Jobs \cup {Nobody} : IsPending(j)' <=> IsPending(j)
          /\ \A v \in Threads : HasPending(v)' <=> HasPending(v)
      BY <2>3 DEF EmptySlots, NothingPending, IsPending, HasPending, is_empty,
                  task_id_to_index, usage
    <3>2. \A v \in Threads : arg[v] \in Jobs \cup {Nobody} /\ arg'[v] = arg[v]
                             /\ pc'[v] = pc[v]
      BY <2>3 DEF IInv, Core, TypeOK
    <3>3. ASSUME NEW v \in done_signaler'
          PROVE (\/ pc[v] = "add_task" /\ EmptySlots = {}
                 \/ pc[v] = "wait_for_task" /\ IsPending(arg[v])
                 \/ pc[v] = "wait_for_all_tasks" /\ HasPending(v)
                 \/ pc[v] = "shutdown" /\ ~NothingPending)'
      <4>1. v \in Threads
        BY <2>4, <3>3 DEF IInv, Core, TypeOK
      <4>2. \/ pc[v] = "add_task" /\ EmptySlots = {}
            \/ pc[v] = "wait_for_task" /\ IsPending(arg[v])
            \/ pc[v] = "wait_for_all_tasks" /\ HasPending(v)
            \/ pc[v] = "shutdown" /\ ~NothingPending
        BY <2>2, <2>4, <3>3 DEF IInv, SleepersWaitRightly
      <4>3. IsPending(arg[v])' <=> IsPending(arg[v])
        BY <2>3 DEF IsPending, task_id_to_index, usage
      <4> QED BY <3>1, <3>2, <4>1, <4>2, <4>3
    <3> QED BY <3>3 DEF SleepersWaitRightly
  <2> QED BY <2>1, <2>3, <2>5, SignalersOnly DEF SleepUntilDone, IInv, Core, TypeOK
<1>2. CASE SpuriousWakeup(th)
  <2>1. /\ UNCHANGED <<pc, stack, arg, idx, tasks, we_are_destructing, usage, runs>>
        /\ ready_signaler' \subseteq ready_signaler
        /\ done_signaler' \subseteq done_signaler /\ th \notin done_signaler'
    BY <1>2 DEF SpuriousWakeup, UnchangedUse
  <2>2. SleepersWaitRightly'
    BY <2>1 DEF IInv, SleepersWaitRightly, EmptySlots, NothingPending, IsPending,
                HasPending, is_empty, task_id_to_index, usage
  <2> QED BY <2>1, <2>2, SignalersOnly DEF IInv, Core, TypeOK
<1>3. CASE th \in Workers /\ SleepUntilReady(th)
  <2>1. /\ UNCHANGED <<pc, stack, arg, idx, tasks, we_are_destructing, usage, runs>>
        /\ ready_signaler' = ready_signaler \cup {th}
        /\ done_signaler' = done_signaler /\ th \notin done_signaler
    BY <1>3 DEF SleepUntilReady, UnchangedUse, At, Awake
  <2>2. SleepersWaitRightly'
    BY <2>1 DEF IInv, SleepersWaitRightly, EmptySlots, NothingPending, IsPending,
                HasPending, is_empty, task_id_to_index, usage
  <2> QED BY <1>3, <2>1, <2>2, SignalersOnly DEF IInv, Core, TypeOK
<1> QED BY <1>1, <1>2, <1>3

(* Calls and returns. *)
LEMMA CallAddTaskStep ==
  ASSUME IInv, NEW th \in Threads, CallAddTask(th) PROVE IInv'
<1> USE DEF IInv, Core
<1> DEFINE fresh == {k \in Jobs : caller[k][1] = Nobody}
           j == Min(fresh)
<1>1. j \in fresh
  BY SmallestNat, Apart DEF CallAddTask
<1>2. j \in Jobs /\ caller[j][1] = Nobody /\ id[j] = 0 /\ runs[j] = 0
  BY <1>1 DEF Calls
<1>3. /\ Awake(th) /\ pc[th] = "run"
      /\ pc' = [pc EXCEPT ![th] = "add_task"]
      /\ arg' = [arg EXCEPT ![th] = j]
      /\ caller' = [caller EXCEPT ![j] = Frame(th)]
      /\ UNCHANGED <<stack, idx, tasks, ready_signaler, done_signaler,
                     we_are_destructing, id, unwaited, runs>>
  BY DEF CallAddTask, At, Goto, signalers
<1> HIDE DEF j, fresh
<1>4. /\ pc'[th] = "add_task" /\ arg'[th] = j
      /\ \A v \in Threads \ {th} : pc'[v] = pc[v] /\ arg'[v] = arg[v]
  BY <1>3 DEF TypeOK
<1>5. Frame(th) \in (Threads \cup {Nobody}) \X (Jobs \cup {Nobody}) /\ Frame(th)[1] = th
  BY Frames DEF TypeOK
<1>6. caller'[j][1] = th /\ \A k \in Jobs \ {j} : caller'[k] = caller[k]
  BY <1>2, <1>3, <1>5 DEF TypeOK
<1>7. TypeOK'
  BY <1>2, <1>3, <1>5 DEF TypeOK, Places
<1>8. Control'
  BY <1>3, <1>4, Apart DEF Control, InLoopPlaces, UserPlaces, ClosedPlaces
<1>9. Calls'
  BY <1>2, <1>3, <1>4, <1>6, Apart DEF Calls
<1>10. SlotsFilled'
  BY <1>3 DEF SlotsFilled, is_empty
<1>11. SlotsOwned'
  <2>1. \A w \in Workers : InLoop(w)' <=> InLoop(w)
    BY <1>3, <1>4, Apart DEF InLoop
  <2> QED BY <1>3, <2>1 DEF SlotsOwned
<1>12. Closing'
  BY <1>3, <1>4, Apart DEF Closing, ClosedPlaces, is_empty
<1>13. Kept'
  BY <1>3, <1>4, <1>6 DEF Kept, is_ready, is_empty
<1>14. SleepersWaitRightly'
  BY <1>3, <1>4, SleepersStay DEF Awake
<1> QED BY <1>7, <1>8, <1>9, <1>10, <1>11, <1>12, <1>13, <1>14

LEMMA CallWaitForTaskStep ==
  ASSUME IInv, NEW th \in Threads, CallWaitForTask(th) PROVE IInv'
<1> USE DEF IInv, Core
<1>1. PICK j \in Open(th) : arg' = [arg EXCEPT ![th] = j]
  BY DEF CallWaitForTask
<1>2. j \in Jobs /\ id[j] # 0
  BY <1>1 DEF Open, Calls, TypeOK
<1>3. /\ Awake(th) /\ pc[th] = "run"
      /\ pc' = [pc EXCEPT ![th] = "wait_for_task"]
      /\ UNCHANGED <<stack, idx, tasks, ready_signaler, done_signaler,
                     we_are_destructing, caller, id, unwaited, runs>>
  BY DEF CallWaitForTask, At, Goto, signalers, usage
<1>4. /\ pc'[th] = "wait_for_task" /\ arg'[th] = j
      /\ \A v \in Threads \ {th} : pc'[v] = pc[v] /\ arg'[v] = arg[v]
  BY <1>1, <1>3 DEF TypeOK
<1>7. TypeOK'
  BY <1>1, <1>2, <1>3 DEF TypeOK, Places
<1>8. Control'
  BY <1>3, <1>4, Apart DEF Control, InLoopPlaces, UserPlaces, ClosedPlaces
<1>9. Calls'
  BY <1>2, <1>3, <1>4 DEF Calls
<1>10. SlotsFilled'
  BY <1>3 DEF SlotsFilled, is_empty
<1>11. SlotsOwned'
  <2>1. \A w \in Workers : InLoop(w)' <=> InLoop(w)
    BY <1>3, <1>4, Apart DEF InLoop
  <2> QED BY <1>3, <2>1 DEF SlotsOwned
<1>12. Closing'
  BY <1>3, <1>4, Apart DEF Closing, ClosedPlaces, is_empty
<1>13. Kept'
  BY <1>3, <1>4 DEF Kept, is_ready, is_empty
<1>14. SleepersWaitRightly'
  BY <1>3, <1>4, SleepersStay DEF Awake
<1> QED BY <1>7, <1>8, <1>9, <1>10, <1>11, <1>12, <1>13, <1>14

LEMMA ReturnSteps ==
  ASSUME IInv, NEW th \in Threads, ReturnFromTask(th) \/ ReturnFromAll(th)
  PROVE  IInv'
<1> USE DEF IInv, Core
<1>1. /\ Awake(th) /\ pc[th] \in {"wait_for_task", "wait_for_all_tasks"}
      /\ pc' = [pc EXCEPT ![th] = "run"]
      /\ arg' \in {arg, [arg EXCEPT ![th] = Nobody]}
      /\ unwaited' \subseteq unwaited
      /\ UNCHANGED <<stack, idx, tasks, ready_signaler, done_signaler,
                     we_are_destructing, caller, id, runs>>
  BY DEF ReturnFromTask, ReturnFromAll, At, Goto, signalers
<1>2. /\ pc'[th] = "run"
      /\ \A v \in Threads \ {th} : pc'[v] = pc[v] /\ arg'[v] = arg[v]
  BY <1>1 DEF TypeOK
<1>7. TypeOK'
  BY <1>1 DEF TypeOK, Places
<1>8. Control'
  BY <1>1, <1>2, Apart DEF Control, InLoopPlaces, UserPlaces, ClosedPlaces
<1>9. Calls'
  BY <1>1, <1>2 DEF Calls
<1>10. SlotsFilled'
  BY <1>1 DEF SlotsFilled, is_empty
<1>11. SlotsOwned'
  <2>1. \A w \in Workers : InLoop(w)' <=> InLoop(w)
    BY <1>1, <1>2, Apart DEF InLoop
  <2> QED BY <1>1, <2>1 DEF SlotsOwned
<1>12. Closing'
  BY <1>1, <1>2, Apart DEF Closing, ClosedPlaces, is_empty
<1>13. Kept'
  BY <1>1, <1>2 DEF Kept, is_ready, is_empty
<1>14. SleepersWaitRightly'
  BY <1>1, <1>2, SleepersStay DEF Awake
<1> QED BY <1>7, <1>8, <1>9, <1>10, <1>11, <1>12, <1>13, <1>14

LEMMA EndJobStep ==
  ASSUME IInv, NEW th \in Threads, EndJob(th) PROVE IInv'
<1> USE DEF IInv, Core
<1> DEFINE place == IF th \in Workers /\ Len(stack[th]) = 1 THEN "clear" ELSE "run"
<1>1. /\ Awake(th) /\ pc[th] = "run" /\ stack[th] # <<>> /\ stack[th] \in Seq(Jobs)
      /\ pc' = [pc EXCEPT ![th] = place]
      /\ stack' = [stack EXCEPT ![th] = Front(stack[th])]
      /\ UNCHANGED <<arg, idx, tasks, ready_signaler, done_signaler,
                     we_are_destructing, caller, id, unwaited, runs>>
  BY DEF EndJob, At, Goto, signalers, usage, TypeOK
<1>2. /\ Front(stack[th]) \in Seq(Jobs)
      /\ place \in {"run", "clear"} /\ (place = "clear" => th \in Workers)
      /\ th \in Workers => (place = "clear" <=> Front(stack[th]) = <<>>)
  BY <1>1, Stacks
<1> HIDE DEF place
<1>3. /\ pc'[th] = place /\ stack'[th] = Front(stack[th])
      /\ \A v \in Threads \ {th} : pc'[v] = pc[v] /\ stack'[v] = stack[v]
  BY <1>1 DEF TypeOK
<1>4. TypeOK'
  BY <1>1, <1>2 DEF TypeOK, Places
<1>5. Control'
  BY <1>1, <1>2, <1>3, Apart DEF Control, InLoopPlaces, UserPlaces, ClosedPlaces
<1>6. Calls'
  BY <1>1, <1>2, <1>3 DEF Calls
<1>7. SlotsFilled'
  BY <1>1 DEF SlotsFilled, is_empty
<1>8. SlotsOwned'
  <2>1. \A w \in Workers : InLoop(w)' <=> InLoop(w)
    BY <1>1, <1>2, <1>3, Apart DEF InLoop
  <2> QED BY <1>1, <2>1 DEF SlotsOwned
<1>9. Closing'
  BY <1>1, <1>2, <1>3, Apart DEF Closing, ClosedPlaces, is_empty
<1>10. Kept'
  BY <1>1, <1>2, <1>3 DEF Kept, is_ready, is_empty
<1>11. SleepersWaitRightly'
  BY <1>1, <1>3, SleepersStay DEF Awake
<1> QED BY <1>4, <1>5, <1>6, <1>7, <1>8, <1>9, <1>10, <1>11

(* add_task: into a slot, or at once. *)
LEMMA FillSlotStep ==
  ASSUME IInv, NEW th \in Threads, FillSlot(th) PROVE IInv'
<1> USE DEF IInv, Core
<1>1. PICK s \in Slots : s = Min(EmptySlots) /\ is_empty(s)
  <2>1. EmptySlots \subseteq Nat /\ EmptySlots # {}
    BY SlotNumbers DEF FillSlot, EmptySlots
  <2> QED BY <2>1, SmallestNat DEF EmptySlots
<1>2. PICK n \in Nat \ {0} : n = make_next_task_id(s) /\ tasks[s].next_task_id \in Nat
  BY <1>1, TaskIds DEF SlotsFilled, make_next_task_id, TypeOK, Slot
<1>3. PICK j \in Jobs : /\ j = arg[th] /\ caller[j][1] = th /\ id[j] = 0 /\ runs[j] = 0
                        /\ pc[th] = "add_task"
  BY DEF Calls, FillSlot, At
<1>4. PICK filled \in Slot :
        filled = [task_id |-> n, thread_id |-> th, job |-> j,
                  is_being_processed |-> FALSE,
                  next_task_id |-> tasks[s].next_task_id + 1]
  <2>1. [task_id |-> n, thread_id |-> th, job |-> j, is_being_processed |-> FALSE,
         next_task_id |-> tasks[s].next_task_id + 1] \in Slot
    BY <1>2 DEF Slot
  <2> QED BY <2>1
<1>5. /\ filled.task_id = n /\ filled.job = j /\ ~filled.is_being_processed
      /\ filled.next_task_id = tasks[s].next_task_id + 1
  BY <1>4
<1>6. /\ Awake(th) /\ pc[th] = "add_task"
      /\ pc' = [pc EXCEPT ![th] = "run"]
      /\ arg' = [arg EXCEPT ![th] = Nobody]
      /\ tasks' = [tasks EXCEPT ![s] = filled]
      /\ id' = [id EXCEPT ![j] = n]
      /\ unwaited' = unwaited \cup {j}
      /\ ready_signaler' \subseteq ready_signaler
      /\ UNCHANGED <<stack, idx, done_signaler, we_are_destructing, caller, runs>>
  BY <1>1, <1>2, <1>3, <1>4 DEF FillSlot, At, Goto, Added, SignalReady
<1>7. /\ tasks'[s] = filled /\ \A t \in Slots \ {s} : tasks'[t] = tasks[t]
      /\ id'[j] = n /\ \A k \in Jobs \ {j} : id'[k] = id[k]
  BY <1>1, <1>6, <1>3 DEF TypeOK
<1>8. /\ pc'[th] = "run"
      /\ \A v \in Threads \ {th} : pc'[v] = pc[v] /\ arg'[v] = arg[v]
  BY <1>6 DEF TypeOK
<1>9. /\ ~is_empty(s)' /\ is_ready(s)'
      /\ \A t \in Slots \ {s} : (is_empty(t)' <=> is_empty(t)) /\ (is_ready(t)' <=> is_ready(t))
  BY <1>2, <1>5, <1>7 DEF is_empty, is_ready
<1>10. ~tasks[s].is_being_processed
  BY <1>1 DEF SlotsFilled
<1>11. TypeOK'
  BY <1>2, <1>6, <1>3, <1>4 DEF TypeOK, Places
<1>12. Control'
  BY <1>6, <1>8, Apart DEF Control, InLoopPlaces, UserPlaces, ClosedPlaces
<1>13. Calls'
  <2>1. ASSUME NEW v \in Threads, pc'[v] = "add_task"
        PROVE  v # th /\ arg[v] # j /\ arg[v] \in Jobs
    BY <1>3, <1>8, <2>1 DEF Calls
  <2>2. \A k \in Jobs : caller[k][1] = Nobody => k # j
    BY <1>3, Apart
  <2>3. \A v \in Threads : pc'[v] = "wait_for_task" => v # th
    BY <1>8
  <2> QED BY <1>2, <1>6, <1>7, <1>8, <2>1, <2>2, <2>3 DEF Calls
<1>14. SlotsFilled'
  <2>1. \A k \in Jobs : id[k] # 0 => id'[k] # 0
    BY <1>2, <1>7
  <2>2. tasks'[s].next_task_id >= 2
    BY <1>1, <1>2, <1>5, <1>7 DEF SlotsFilled
  <2> QED BY <1>2, <1>3, <1>5, <1>7, <1>9, <2>1, <2>2 DEF SlotsFilled
<1>15. SlotsOwned'
  <2>1. \A w \in Workers : InLoop(w)' <=> InLoop(w)
    BY <1>6, <1>8, Apart DEF InLoop
  <2>2. \A t \in Slots : tasks'[t].is_being_processed <=> tasks[t].is_being_processed
    BY <1>5, <1>7, <1>10
  <2> QED BY <1>6, <2>1, <2>2 DEF SlotsOwned
<1>16. Closing'
  <2>1. ~we_are_destructing
    <3>1. CASE th \in Workers
      <4>1. InLoop(th)
        BY <1>6, <3>1 DEF Control, InLoop, InLoopPlaces
      <4>2. idx[th] \in Slots /\ ~is_empty(idx[th])
        BY <3>1, <4>1 DEF SlotsOwned, SlotsFilled
      <4> QED BY <4>2 DEF Closing
    <3>2. CASE th \in Clients
      BY <1>6, <3>2 DEF Closing, ClosedPlaces
    <3> QED BY <3>1, <3>2 DEF Threads
  <2> QED BY <1>6, <1>8, <2>1, Apart DEF Closing, ClosedPlaces
<1>17. Kept'
  <2>1. \A t \in Slots \ {s} : is_ready(t) => tasks[t].job \in Jobs /\ tasks[t].job # j
    BY <1>3 DEF SlotsFilled, is_ready
  <2>2. ~is_ready(s)
    BY <1>1 DEF is_ready
  <2>3. \A t \in Slots : is_ready(t)' => runs'[tasks'[t].job] = 0
    BY <1>6, <1>3, <1>5, <1>7, <1>9 DEF Kept
  <2>4. \A t, u \in Slots : is_ready(t)' /\ is_ready(u)' /\ tasks'[t].job = tasks'[u].job
                              => t = u
    BY <1>5, <1>7, <1>9, <2>1 DEF Kept
  <2>5. ASSUME NEW k \in Jobs, caller'[k][1] # Nobody
        PROVE  \/ runs'[k] = 1
               \/ \E v \in Threads : pc'[v] = "add_task" /\ arg'[v] = k
               \/ \E t \in Slots : is_ready(t)' /\ tasks'[t].job = k
    <3>1. CASE k = j
      BY <1>1, <1>5, <1>7, <1>9, <3>1
    <3>2. CASE k # j
      BY <1>3, <1>6, <1>7, <1>8, <1>9, <2>2, <2>5, <3>2 DEF Kept
    <3> QED BY <3>1, <3>2
  <2> QED BY <2>3, <2>4, <2>5 DEF Kept
<1>18. SleepersWaitRightly'
  <2>1. \A t \in Slots : ~is_empty(t) => tasks'[t] = tasks[t]
    BY <1>1, <1>7
  <2>2. \A k \in Jobs : id[k] # 0 => id'[k] = id[k]
    BY <1>3, <1>7
  <2> QED BY <1>6, <1>8, <2>1, <2>2, SleepersStay DEF Awake
<1> QED BY <1>11, <1>12, <1>13, <1>14, <1>15, <1>16, <1>17, <1>18

LEMMA RunHereStep ==
  ASSUME IInv, NEW th \in Threads, RunHere(th) PROVE IInv'
<1> USE DEF IInv, Core
<1>1. PICK j \in Jobs : /\ j = arg[th] /\ caller[j][1] = th /\ id[j] = 0 /\ runs[j] = 0
                        /\ pc[th] = "add_task" /\ Awake(th)
  BY DEF Calls, RunHere, At
<1>2. PICK st \in Seq(Jobs) : st = Append(stack[th], j) /\ st # <<>>
  BY Stacks DEF TypeOK
<1>3. /\ pc' = [pc EXCEPT ![th] = "run"]
      /\ arg' = [arg EXCEPT ![th] = Nobody]
      /\ stack' = [stack EXCEPT ![th] = st]
      /\ runs' = [runs EXCEPT ![j] = 1]
      /\ id' = [id EXCEPT ![j] = 1]
      /\ unwaited' = unwaited \cup {j}
      /\ UNCHANGED <<idx, tasks, ready_signaler, done_signaler, we_are_destructing,
                     caller>>
  BY <1>1, <1>2 DEF RunHere, At, Goto, Added, signalers, TypeOK
<1>4. /\ pc'[th] = "run" /\ stack'[th] = st
      /\ \A v \in Threads \ {th} :
           pc'[v] = pc[v] /\ arg'[v] = arg[v] /\ stack'[v] = stack[v]
      /\ runs'[j] = 1 /\ id'[j] = 1
      /\ \A k \in Jobs \ {j} : runs'[k] = runs[k] /\ id'[k] = id[k]
  BY <1>3 DEF TypeOK
<1>5. TypeOK'
  BY <1>1, <1>2, <1>3 DEF TypeOK, Places
<1>6. Control'
  <2>1. th \in Workers => stack[th] # <<>>
    BY <1>1 DEF Control, InLoopPlaces
  <2> QED BY <1>1, <1>2, <1>3, <1>4, <2>1, Apart
          DEF Control, InLoopPlaces, UserPlaces, ClosedPlaces
<1>7. Calls'
  <2>1. ASSUME NEW v \in Threads, pc'[v] = "add_task"
        PROVE  v # th /\ arg[v] # j /\ arg[v] \in Jobs
    BY <1>1, <1>4, <2>1 DEF Calls
  <2>2. \A k \in Jobs : caller[k][1] = Nobody => k # j
    BY <1>1, Apart
  <2>3. \A v \in Threads : pc'[v] = "wait_for_task" => v # th
    BY <1>4
  <2> QED BY <1>1, <1>3, <1>4, <2>1, <2>2, <2>3 DEF Calls
<1>8. \A s \in Slots : ~is_empty(s) => tasks[s].job \in Jobs /\ tasks[s].job # j
  BY <1>1 DEF SlotsFilled
<1>9. SlotsFilled'
  BY <1>3, <1>4, <1>8 DEF SlotsFilled, is_empty
<1>10. SlotsOwned'
  <2>1. \A w \in Workers : InLoop(w)' <=> InLoop(w)
    BY <1>1, <1>2, <1>3, <1>4, Apart DEF InLoop, Control, InLoopPlaces
  <2> QED BY <1>3, <2>1 DEF SlotsOwned
<1>11. Closing'
  BY <1>1, <1>3, <1>4, Apart DEF Closing, ClosedPlaces, is_empty
<1>12. Kept'
  <2>1. \A s \in Slots : is_ready(s) => ~is_empty(s)
    BY DEF is_ready
  <2>2. \A s \in Slots : is_ready(s)' => is_ready(s) /\ runs'[tasks'[s].job] = 0
    BY <1>3, <1>4, <1>8, <2>1 DEF Kept, is_ready, is_empty
  <2>3. ASSUME NEW k \in Jobs, caller'[k][1] # Nobody
        PROVE  \/ runs'[k] = 1
               \/ \E v \in Threads : pc'[v] = "add_task" /\ arg'[v] = k
               \/ \E s \in Slots : is_ready(s)' /\ tasks'[s].job = k
    <3>1. CASE k = j
      BY <1>4, <3>1
    <3>2. CASE k # j
      BY <1>1, <1>3, <1>4, <2>3, <3>2 DEF Kept, is_ready, is_empty
    <3> QED BY <3>1, <3>2
  <2> QED BY <1>3, <2>2, <2>3 DEF Kept
<1>13. SleepersWaitRightly'
  <2>1. \A k \in Jobs : id[k] # 0 => id'[k] = id[k]
    BY <1>1, <1>4
  <2> QED BY <1>1, <1>3, <1>4, <2>1, SleepersStay DEF Awake
<1> QED BY <1>5, <1>6, <1>7, <1>9, <1>10, <1>11, <1>12, <1>13

(* The worker's loop takes a job from its slot ... *)
LEMMA TakeJobStep ==
  ASSUME IInv, NEW w \in Workers, TakeJob(w) PROVE IInv'
<1> USE DEF IInv, Core
<1>1. PICK s \in Slots : s = Min(ReadySlots) /\ is_ready(s)
  <2>1. ReadySlots \subseteq Nat /\ ReadySlots # {}
    BY SlotNumbers DEF TakeJob, ReadySlots
  <2> QED BY <2>1, SmallestNat DEF ReadySlots
<1>2. PICK j \in Jobs : j = tasks[s].job /\ id[j] # 0 /\ runs[j] = 0
  BY <1>1 DEF SlotsFilled, is_ready, Kept
<1>3. /\ Awake(w) /\ pc[w] = "find" /\ ~we_are_destructing
      /\ pc' = [pc EXCEPT ![w] = "run"]
      /\ tasks' = [tasks EXCEPT ![s].is_being_processed = TRUE]
      /\ idx' = [idx EXCEPT ![w] = s]
      /\ stack' = [stack EXCEPT ![w] = <<j>>]
      /\ runs' = [runs EXCEPT ![j] = 1]
      /\ UNCHANGED <<arg, ready_signaler, done_signaler, we_are_destructing, caller, id,
                     unwaited>>
  BY <1>1, <1>2 DEF TakeJob, At, Goto, signalers, usage, TypeOK
<1>4. /\ w \in Threads /\ pc'[w] = "run" /\ stack'[w] = <<j>> /\ idx'[w] = s
      /\ \A v \in Threads \ {w} : pc'[v] = pc[v] /\ stack'[v] = stack[v]
      /\ \A v \in Workers \ {w} : idx'[v] = idx[v]
      /\ runs'[j] = 1 /\ \A k \in Jobs \ {j} : runs'[k] = runs[k]
  BY <1>3, Apart DEF TypeOK
<1>5. /\ tasks'[s].is_being_processed /\ tasks'[s].job = tasks[s].job
      /\ tasks'[s].task_id = tasks[s].task_id
      /\ tasks'[s].thread_id = tasks[s].thread_id
      /\ tasks'[s].next_task_id = tasks[s].next_task_id
      /\ \A t \in Slots \ {s} : tasks'[t] = tasks[t]
      /\ tasks' \in [Slots -> Slot]
  BY <1>3 DEF TypeOK, Slot
<1>6. /\ \A t \in Slots : is_empty(t)' <=> is_empty(t)
      /\ ~is_ready(s)' /\ \A t \in Slots \ {s} : is_ready(t)' <=> is_ready(t)
  BY <1>5 DEF is_empty, is_ready
<1>7. TypeOK'
  <2>1. <<j>> \in Seq(Jobs)
    BY <1>2
  <2>2. pc' \in [Threads -> Places]
    BY <1>3 DEF TypeOK, Places
  <2>3. stack' \in [Threads -> Seq(Jobs)]
    BY <1>3, <2>1 DEF TypeOK
  <2>4. idx' \in [Workers -> Nat]
    BY <1>1, <1>3, SlotNumbers DEF TypeOK
  <2>5. runs' \in [Jobs -> Nat]
    BY <1>3 DEF TypeOK
  <2>6. /\ arg' \in [Threads -> Jobs \cup {Nobody}]
        /\ ready_signaler' \subseteq Workers /\ done_signaler' \subseteq Threads
        /\ we_are_destructing' \in BOOLEAN
        /\ caller' \in [Jobs -> (Threads \cup {Nobody}) \X (Jobs \cup {Nobody})]
        /\ id' \in [Jobs -> Nat] /\ unwaited' \subseteq Jobs
    BY <1>3 DEF TypeOK
  <2>7. tasks' \in [Slots -> Slot]
    BY <1>5
  <2> QED BY <2>2, <2>3, <2>4, <2>5, <2>6, <2>7 DEF TypeOK
<1>8. Control'
  <2>1. stack'[w] # <<>> /\ pc'[w] \in UserPlaces /\ pc'[w] \notin InLoopPlaces
    <3>1. <<j>> # <<>>
      OBVIOUS
    <3> QED BY <1>4, <3>1 DEF UserPlaces, InLoopPlaces
  <2>2. \A v \in Workers \ {w} : pc'[v] = pc[v] /\ stack'[v] = stack[v]
    BY <1>4, Apart
  <2>3. \A c \in Clients : pc'[c] = pc[c] /\ stack'[c] = stack[c]
    BY <1>4, Apart
  <2> QED BY <2>1, <2>2, <2>3 DEF Control
<1>9. Calls'
  <2>1. \A v \in Threads : pc'[v] = "add_task" => v # w /\ arg[v] # j
    BY <1>2, <1>4 DEF Calls
  <2>2. \A k \in Jobs : caller[k][1] = Nobody => k # j
    BY <1>2 DEF Calls
  <2>3. \A v \in Threads : pc'[v] = "wait_for_task" => v # w
    BY <1>4
  <2> QED BY <1>3, <1>4, <2>1, <2>2, <2>3 DEF Calls
<1>10. SlotsFilled'
  BY <1>1, <1>3, <1>5, <1>6 DEF SlotsFilled, is_ready
<1>11. SlotsOwned'
  <2>1. ~InLoop(w) /\ InLoop(w)'
    BY <1>3, <1>4 DEF InLoop, Control, InLoopPlaces
  <2>2. \A v \in Workers \ {w} : InLoop(v)' <=> InLoop(v)
    BY <1>3, <1>4, Apart DEF InLoop
  <2>3. \A v \in Workers : InLoop(v) => idx[v] # s
    BY <1>1 DEF SlotsOwned, is_ready
  <2>4. \A v \in Workers : InLoop(v)' => /\ idx'[v] \in Slots
                                         /\ tasks'[idx'[v]].is_being_processed
    BY <1>1, <1>4, <1>5, <2>2 DEF SlotsOwned
  <2>5. \A u, v \in Workers : InLoop(u)' /\ InLoop(v)' /\ idx'[u] = idx'[v] => u = v
    BY <1>4, <2>2, <2>3 DEF SlotsOwned
  <2>6. ASSUME NEW t \in Slots, tasks'[t].is_being_processed
        PROVE  \E v \in Workers : InLoop(v)' /\ idx'[v] = t
    <3>1. CASE t = s
      BY <1>4, <2>1, <3>1
    <3>2. CASE t # s
      <4>1. PICK v \in Workers : InLoop(v) /\ idx[v] = t
        BY <1>5, <2>6, <3>2 DEF SlotsOwned
      <4> QED BY <1>4, <2>1, <2>2, <4>1
    <3> QED BY <3>1, <3>2
  <2> QED BY <2>4, <2>5, <2>6 DEF SlotsOwned
<1>12. Closing'
  BY <1>3, <1>4, Apart DEF Closing, ClosedPlaces
<1>13. Kept'
  <2>1. \A t \in Slots \ {s} : is_ready(t) => tasks[t].job \in Jobs /\ tasks[t].job # j
    BY <1>1, <1>2 DEF Kept, SlotsFilled, is_ready
  <2>2. \A t \in Slots : is_ready(t)' => t # s /\ runs'[tasks'[t].job] = 0
    BY <1>4, <1>5, <1>6, <2>1 DEF Kept
  <2>3. \A t, u \in Slots : is_ready(t)' /\ is_ready(u)' /\ tasks'[t].job = tasks'[u].job
                              => t = u
    BY <1>5, <1>6 DEF Kept
  <2>4. ASSUME NEW k \in Jobs, caller'[k][1] # Nobody
        PROVE  \/ runs'[k] = 1
               \/ \E v \in Threads : pc'[v] = "add_task" /\ arg'[v] = k
               \/ \E t \in Slots : is_ready(t)' /\ tasks'[t].job = k
    <3>1. CASE k = j
      BY <1>4, <3>1
    <3>2. CASE k # j
      BY <1>2, <1>3, <1>4, <1>5, <1>6, <2>4, <3>2 DEF Kept
    <3> QED BY <3>1, <3>2
  <2> QED BY <2>2, <2>3, <2>4 DEF Kept
<1>14. SleepersWaitRightly'
  BY <1>3, <1>4, <1>5, SleepersStay DEF Awake
<1> QED BY <1>7, <1>8, <1>9, <1>10, <1>11, <1>12, <1>13, <1>14

(* ... and clears the slot afterwards. *)
LEMMA ClearSlotStep ==
  ASSUME IInv, NEW w \in Workers, ClearSlot(w) PROVE IInv'
<1> USE DEF IInv, Core
<1>1. pc[w] = "clear" /\ InLoop(w)
  BY DEF ClearSlot, At, InLoop
<1>2. PICK s \in Slots : s = idx[w] /\ tasks[s].is_being_processed
  BY <1>1 DEF SlotsOwned
<1>3. PICK cleared \in Slot :
        /\ cleared = [tasks[s] EXCEPT !.task_id = 0, !.job = Nobody,
                                      !.is_being_processed = FALSE]
        /\ cleared.task_id = 0 /\ ~cleared.is_being_processed
        /\ cleared.next_task_id = tasks[s].next_task_id
  <2> DEFINE c == [tasks[s] EXCEPT !.task_id = 0, !.job = Nobody,
                                   !.is_being_processed = FALSE]
  <2>1. tasks[s] \in Slot
    BY DEF TypeOK
  <2>2. c \in Slot /\ c.task_id = 0 /\ ~c.is_being_processed
        /\ c.next_task_id = tasks[s].next_task_id
    BY <2>1 DEF Slot
  <2> QED BY <2>2
<1>4. /\ pc' = [pc EXCEPT ![w] = "check"]
      /\ tasks' = [tasks EXCEPT ![s] = cleared]
      /\ done_signaler' = {}
      /\ UNCHANGED <<stack, arg, idx, ready_signaler, we_are_destructing, caller, id,
                     unwaited, runs>>
  BY <1>2, <1>3 DEF ClearSlot, BroadcastDone, Goto, UnchangedUse, usage
<1>5. /\ w \in Threads /\ pc'[w] = "check" /\ stack[w] = <<>>
      /\ \A v \in Threads \ {w} : pc'[v] = pc[v]
      /\ tasks'[s] = cleared /\ \A t \in Slots \ {s} : tasks'[t] = tasks[t]
  BY <1>1, <1>4, Apart DEF TypeOK, Control, InLoopPlaces
<1>6. /\ is_empty(s)' /\ ~is_ready(s)' /\ ~is_ready(s)
      /\ \A t \in Slots \ {s} : (is_empty(t)' <=> is_empty(t)) /\ (is_ready(t)' <=> is_ready(t))
  BY <1>2, <1>3, <1>5 DEF is_empty, is_ready
<1>7. TypeOK'
  BY <1>4 DEF TypeOK, Places
<1>8. Control'
  BY <1>4, <1>5, Apart DEF Control, InLoopPlaces, UserPlaces, ClosedPlaces
<1>9. Calls'
  BY <1>4, <1>5 DEF Calls
<1>10. SlotsFilled'
  <2>1. tasks[s].next_task_id >= 2
    BY DEF SlotsFilled
  <2>2. /\ ~tasks'[s].is_being_processed
        /\ tasks'[s].next_task_id >= 2
    BY <1>3, <1>5, <2>1
  <2>3. ASSUME NEW t \in Slots, t # s
        PROVE  /\ tasks'[t].is_being_processed => ~is_empty(t)'
               /\ ~is_empty(t)' => tasks'[t].job \in Jobs /\ id'[tasks'[t].job] # 0
               /\ tasks'[t].next_task_id >= 2
    BY <1>4, <1>5, <1>6, <2>3 DEF SlotsFilled
  <2> QED BY <1>6, <2>2, <2>3 DEF SlotsFilled
<1>11. SlotsOwned'
  <2>1. ~InLoop(w)'
    BY <1>4, <1>5 DEF InLoop
  <2>2. \A v \in Workers \ {w} : InLoop(v)' <=> InLoop(v)
    BY <1>4, <1>5, Apart DEF InLoop
  <2>3. \A v \in Workers \ {w} : InLoop(v) => idx[v] # s
    BY <1>1, <1>2 DEF SlotsOwned
  <2>4. ASSUME NEW t \in Slots, tasks'[t].is_being_processed
        PROVE  \E v \in Workers : InLoop(v)' /\ idx'[v] = t
    <3>1. t # s
      BY <1>3, <1>5, <2>4
    <3>2. PICK v \in Workers : InLoop(v) /\ idx[v] = t
      BY <1>5, <2>4, <3>1 DEF SlotsOwned
    <3> QED BY <1>2, <1>4, <2>2, <3>1, <3>2
  <2> QED BY <1>4, <1>5, <2>1, <2>2, <2>3, <2>4 DEF SlotsOwned
<1>12. Closing'
  <2>1. \A c \in Clients : c \in Threads /\ pc'[c] = pc[c]
    BY <1>5, Apart
  <2>2. Owner \in Clients
    BY PoolAssumption
  <2>3. (\A t \in Slots : is_empty(t)) => \A t \in Slots : is_empty(t)'
    BY <1>6
  <2> QED BY <1>4, <2>1, <2>2, <2>3 DEF Closing
<1>13. Kept'
  <2>1. \A t \in Slots : is_ready(t) => t # s
    BY <1>6
  <2> QED BY <1>1, <1>4, <1>5, <1>6, <2>1 DEF Kept
<1>14. SleepersWaitRightly'
  BY <1>4 DEF SleepersWaitRightly
<1> QED BY <1>7, <1>8, <1>9, <1>10, <1>11, <1>12, <1>13, <1>14

(* The destructor tells the workers to end. *)
LEMMA DestructStep ==
  ASSUME IInv, NEW c \in Clients, Destruct(c) PROVE IInv'
<1> USE DEF IInv, Core
<1>1. /\ Awake(c) /\ pc[c] = "shutdown" /\ NothingPending
      /\ we_are_destructing' = TRUE /\ ready_signaler' = {}
      /\ pc' = [pc EXCEPT ![c] = "join"]
      /\ UNCHANGED <<stack, arg, idx, tasks, done_signaler, caller, id, unwaited, runs>>
  BY DEF Destruct, At, Goto, UnchangedUse, usage
<1>2. c \in Threads /\ pc'[c] = "join" /\ \A v \in Threads \ {c} : pc'[v] = pc[v]
  BY <1>1, Apart DEF TypeOK
<1>3. c = Owner
  BY <1>1 DEF Closing
<1>4. TypeOK'
  BY <1>1 DEF TypeOK, Places
<1>5. Control'
  BY <1>1, <1>2, Apart DEF Control, InLoopPlaces, UserPlaces, ClosedPlaces
<1>6. Calls'
  BY <1>1, <1>2 DEF Calls
<1>7. SlotsFilled'
  BY <1>1 DEF SlotsFilled, is_empty
<1>8. SlotsOwned'
  <2>1. \A w \in Workers : InLoop(w)' <=> InLoop(w)
    BY <1>1, <1>2, Apart DEF InLoop
  <2> QED BY <1>1, <2>1 DEF SlotsOwned
<1>9. Closing'
  <2>1. \A s \in Slots : is_empty(s)'
    BY <1>1 DEF NothingPending, EmptySlots, is_empty
  <2> QED BY <1>1, <1>2, <1>3, <2>1, Apart DEF Closing, ClosedPlaces
<1>10. Kept'
  BY <1>1, <1>2 DEF Kept, is_ready, is_empty
<1>11. SleepersWaitRightly'
  BY <1>1, <1>2, SleepersStay DEF Awake
<1> QED BY <1>4, <1>5, <1>6, <1>7, <1>8, <1>9, <1>10, <1>11
-----------------------------------------------------------------------------
LEMMA PoolNext == IInv /\ [Next]_vars => IInv'
<1>1. ASSUME IInv, UNCHANGED vars PROVE IInv'
  BY <1>1 DEF vars, usage, signalers, IInv, Core, TypeOK, Control, Calls, SlotsFilled,
     SlotsOwned, Closing, Kept, SleepersWaitRightly, InLoop, is_empty, is_ready,
     EmptySlots, NothingPending, IsPending, HasPending, task_id_to_index
<1>2. ASSUME IInv, NEW th \in Threads, Use(th) PROVE IInv'
  BY <1>2, CallAddTaskStep, CallWaitForTaskStep, PlaceSteps, EndJobStep, FillSlotStep,
     RunHereStep, SleepSteps, ReturnSteps DEF Use
<1>3. ASSUME IInv, NEW w \in Workers, Loop(w) PROVE IInv'
  BY <1>3, Apart, PlaceSteps, SleepSteps, TakeJobStep, ClearSlotStep DEF Loop
<1>4. ASSUME IInv, NEW c \in Clients, Close(c) PROVE IInv'
  BY <1>4, Apart, PlaceSteps, SleepSteps, DestructStep DEF Close
<1> QED BY <1>1, <1>2, <1>3, <1>4, SleepSteps DEF Next, Step

(* The slots, signalers and calls keep their types. *)
THEOREM PoolTypeCorrect == FairSpec => []TypeOK
<1>1. IInv => TypeOK
  BY DEF IInv, Core
<1> QED BY CoreInit, PoolNext, <1>1, PTL DEF FairSpec, Spec

(* No slot is cleared twice or under another job. *)
THEOREM SlotsHaveOneWorker == FairSpec => []SlotsOwned
<1>1. IInv => SlotsOwned
  BY DEF IInv, Core
<1> QED BY CoreInit, PoolNext, <1>1, PTL DEF FairSpec, Spec

(* One broadcast is enough for all kinds of waits. *)
THEOREM NobodySleepsOn == FairSpec => []SleepersWaitRightly
<1>1. IInv => SleepersWaitRightly
  BY DEF IInv
<1> QED BY CoreInit, PoolNext, <1>1, PTL DEF FairSpec, Spec

(* The pool is destroyed when every job has run once. *)
THEOREM DestroyedWhenDone == FairSpec => []DestroyedIdle
<1>1. ASSUME IInv, we_are_destructing PROVE DestroyedIdle
  <2> USE <1>1 DEF IInv, Core
  <2>1. \A s \in Slots : is_empty(s) /\ ~is_ready(s)
    BY DEF Closing, is_ready
  <2>2. \A w \in Workers : pc[w] \in InLoopPlaces /\ stack[w] = <<>>
    BY <2>1 DEF SlotsOwned, SlotsFilled, InLoop, Control
  <2>3. \A c \in Clients : pc[c] \in ClosedPlaces /\ stack[c] = <<>>
    BY DEF Closing, Control, ClosedPlaces
  <2>4. \A th \in Threads : pc[th] # "add_task" /\ \A j \in Jobs : ~InJob(th, j)
    BY <2>2, <2>3 DEF Threads, InLoopPlaces, ClosedPlaces, InJob, Range
  <2> QED BY <2>1, <2>4 DEF Kept, DestroyedIdle
<1>2. IInv => DestroyedIdle
  BY <1>1 DEF DestroyedIdle
<1> QED BY CoreInit, PoolNext, <1>2, PTL DEF FairSpec, Spec
-----------------------------------------------------------------------------
(* Stacks by their places. *)
Depth(th) == 1..Len(stack[th])

LEMMA RangeAt ==
  ASSUME NEW st \in Seq(Jobs), NEW j
  PROVE  j \in Range(st) <=> \E m \in 1..Len(st) : st[m] = j
BY LenProperties DEF Range

LEMMA InJobAt ==
  ASSUME NEW th \in Threads, stack[th] \in Seq(Jobs), NEW j
  PROVE  InJob(th, j) <=> \E m \in Depth(th) : stack[th][m] = j
BY RangeAt DEF InJob, Depth

LEMMA Pushed ==
  ASSUME NEW st \in Seq(Jobs), NEW j \in Jobs
  PROVE  /\ Append(st, j) \in Seq(Jobs)
         /\ Len(st) \in Nat /\ Len(Append(st, j)) = Len(st) + 1
         /\ \A m \in 1..Len(st) : Append(st, j)[m] = st[m] /\ st[m] \in Jobs
         /\ Append(st, j)[Len(st) + 1] = j
<1>1. Len(st) \in Nat /\ \A m \in 1..Len(st) : st[m] \in Jobs
  BY LenProperties, ElementOfSeq
<1> QED BY <1>1, AppendProperties

LEMMA Popped ==
  ASSUME NEW st \in Seq(Jobs), st # <<>>
  PROVE  /\ Front(st) \in Seq(Jobs) /\ Last(st) \in Jobs
         /\ Len(st) \in Nat \ {0} /\ Len(Front(st)) = Len(st) - 1
         /\ \A m \in 1..(Len(st) - 1) : Front(st)[m] = st[m]
         /\ Last(st) = st[Len(st)]
<1>1. Len(st) \in Nat \ {0} /\ \A k \in 1..Len(st) : st[k] \in Jobs
  BY EmptySeq, LenProperties, ElementOfSeq
<1>2. /\ SubSeq(st, 1, Len(st) - 1) \in Seq(Jobs)
      /\ Len(SubSeq(st, 1, Len(st) - 1)) =
           IF 1 <= Len(st) - 1 THEN (Len(st) - 1) - 1 + 1 ELSE 0
      /\ \A k \in 1..((Len(st) - 1) - 1 + 1) : SubSeq(st, 1, Len(st) - 1)[k] = st[1 + k - 1]
  BY <1>1, SubSeqProperties
<1> DEFINE n == Len(st)
<1>3. /\ n \in Nat \ {0}
      /\ Len(Front(st)) = IF 1 <= n - 1 THEN (n - 1) - 1 + 1 ELSE 0
      /\ \A k \in 1..((n - 1) - 1 + 1) : Front(st)[k] = st[1 + k - 1]
  BY <1>1, <1>2 DEF Front
<1> HIDE DEF n
<1>4. Len(Front(st)) = n - 1
  BY <1>3
<1>5. \A k \in 1..(n - 1) : Front(st)[k] = st[k]
  <2> TAKE k \in 1..(n - 1)
  <2>1. k \in 1..((n - 1) - 1 + 1) /\ 1 + k - 1 = k
    BY <1>3
  <2> QED BY <1>3, <2>1
<1> QED BY <1>1, <1>2, <1>4, <1>5 DEF n, Last, Front

(* The ids of a slot lead back to it. *)
LEMMA IdsLeadBack ==
  ASSUME NEW k \in Nat \ {0}, NEW s \in 0..(k - 1), NEW n \in Nat
  PROVE  (n * k + s) % k = s
<1> DEFINE x == n * k + s
           q == x \div k
           r == x % k
<1>1. n * k \in Nat
  BY SMTT(30)
<1>2. x \in Nat
  BY <1>1
<1>3. q \in Int /\ r \in 0..(k - 1) /\ x = k * q + r
  <2> HIDE DEF x
  <2> QED BY <1>2
<1> QED BY <1>3

-----------------------------------------------------------------------------
(* A call is made from where the thread still is. *)
Framed ==
  \A th \in Threads : pc[th] \in {"add_task", "wait_for_task"} =>
    caller[arg[th]] = Frame(th)

(* A job on a stack was started, and is at one place of one stack. *)
Started ==
  /\ \A th \in Threads : \A m \in Depth(th) : runs[stack[th][m]] = 1
  /\ \A th, v \in Threads : \A m \in Depth(th), n \in Depth(v) :
       stack[th][m] = stack[v][n] => th = v /\ m = n

(* The first job of a worker is the one in its slot and no job of its own; any
   other job was added by the one below it. *)
Below(th, m) == IF m = 1 THEN Nobody ELSE stack[th][m - 1]
Chained ==
  \A th \in Threads : \A m \in Depth(th) :
    IF th \in Workers /\ m = 1
      THEN tasks[idx[th]].job = stack[th][m] /\ caller[stack[th][m]][1] # th
      ELSE caller[stack[th][m]] = <<th, Below(th, m)>>

(* A filled slot is that of its job's id and its caller's, who has not waited
   for it. *)
SlotsNamed ==
  \A s \in Slots : ~is_empty(s) =>
    /\ tasks[s].task_id = id[tasks[s].job]
    /\ task_id_to_index(tasks[s].task_id) = s
    /\ tasks[s].thread_id = caller[tasks[s].job][1]
    /\ tasks[s].job \in unwaited
    /\ tasks[s].is_being_processed => runs[tasks[s].job] = 1

(* Who has a job to wait for has not ended. *)
CallersStay ==
  \A j \in unwaited :
    \/ caller[j][1] \in Threads /\ InJob(caller[j][1], caller[j][2])
    \/ caller[j][1] \in Clients /\ caller[j][2] = Nobody

Nested == Framed /\ Started /\ Chained /\ SlotsNamed /\ CallersStay

LEMMA NestedInit == Init => Nested
<1> SUFFICES ASSUME Init PROVE Nested
  OBVIOUS
<1>1. \A th \in Threads : /\ pc[th] \notin {"add_task", "wait_for_task"}
                          /\ stack[th] = <<>> /\ Depth(th) = {}
  BY DEF Init, Depth
<1>2. unwaited = {} /\ \A s \in Slots : is_empty(s)
  BY DEF Init, NewSlot, is_empty
<1> QED BY <1>1, <1>2 DEF Nested, Framed, Started, Chained, SlotsNamed, CallersStay

(* Most steps touch neither stacks nor jobs nor slots, and enter no call. *)
LEMMA NestedQuiet ==
  ASSUME IInv, Nested,
         UNCHANGED <<stack, arg, idx, tasks, caller, id, unwaited, runs>>,
         \A th \in Threads : pc'[th] \in {"add_task", "wait_for_task"} =>
                               pc'[th] = pc[th]
  PROVE  Nested'
<1> USE DEF Nested
<1>1. Framed'
  BY DEF Framed, Frame
<1>2. Started' /\ Chained'
  <2>1. Started'
    BY DEF Started, Depth
  <2>2. Chained'
    BY DEF Chained, Depth, Below
  <2> QED BY <2>1, <2>2
<1>3. SlotsNamed' /\ CallersStay'
  BY DEF SlotsNamed, CallersStay, is_empty, task_id_to_index, InJob
<1> QED BY <1>1, <1>2, <1>3

LEMMA NestedPlaces ==
  ASSUME IInv, Nested, NEW th \in Threads,
         \/ CallWaitForAllTasks(th) \/ WaitForSlot(th) \/ StayForTask(th)
         \/ StayForAll(th) \/ SpuriousWakeup(th)
         \/ th \in Workers /\ \/ Register(th) \/ CheckDestructing(th) \/ Leave(th)
                              \/ SleepUntilReady(th)
         \/ th \in Clients /\ Close(th)
  PROVE  Nested'
<1>1. UNCHANGED <<stack, arg, idx, tasks, caller, id, unwaited, runs>>
  BY DEF CallWaitForAllTasks, WaitForSlot, StayForTask, StayForAll, SpuriousWakeup,
     Register, CheckDestructing, Leave, SleepUntilReady, Close, EndClient, CallShutdown,
     StayForPending, Destruct, Join, OnlyGoto, SleepUntilDone, UnchangedUse, usage
<1>2. \/ UNCHANGED pc
      \/ \E place \in {"wait_for_all_tasks", "check", "exit", "find", "ended",
                       "shutdown", "join"} : pc' = [pc EXCEPT ![th] = place]
  BY DEF CallWaitForAllTasks, WaitForSlot, StayForTask, StayForAll, SpuriousWakeup,
     Register, CheckDestructing, Leave, SleepUntilReady, Close, EndClient, CallShutdown,
     StayForPending, Destruct, Join, OnlyGoto, SleepUntilDone, UnchangedUse, Goto
<1>3. \A v \in Threads : pc'[v] \in {"add_task", "wait_for_task"} => pc'[v] = pc[v]
  BY <1>2 DEF IInv, Core, TypeOK
<1> QED BY <1>1, <1>3, NestedQuiet

(* Calls. *)
LEMMA NestedCallAddTask ==
  ASSUME IInv, Nested, NEW th \in Threads, CallAddTask(th) PROVE Nested'
<1> USE DEF Nested
<1>1. PICK j \in Jobs :
        /\ j = Min({k \in Jobs : caller[k][1] = Nobody})
        /\ caller[j][1] = Nobody
  <2> DEFINE fresh == {k \in Jobs : caller[k][1] = Nobody}
  <2>1. Min(fresh) \in fresh
    BY SmallestNat, Apart DEF CallAddTask
  <2> QED BY <2>1
<1>2. id[j] = 0 /\ runs[j] = 0
  BY <1>1 DEF IInv, Core, Calls
<1>3. /\ pc' = [pc EXCEPT ![th] = "add_task"]
      /\ arg' = [arg EXCEPT ![th] = j]
      /\ caller' = [caller EXCEPT ![j] = Frame(th)]
      /\ UNCHANGED <<stack, idx, tasks, id, unwaited, runs>>
  BY <1>1 DEF CallAddTask, Goto
<1>4. /\ pc'[th] = "add_task" /\ arg'[th] = j
      /\ \A v \in Threads \ {th} : pc'[v] = pc[v] /\ arg'[v] = arg[v]
      /\ caller'[j] = Frame(th) /\ \A k \in Jobs \ {j} : caller'[k] = caller[k]
  BY <1>3 DEF IInv, Core, TypeOK
<1>5. \A v \in Threads : Frame(v)' = Frame(v)
  BY <1>3 DEF Frame
<1>6. Framed'
  <2>1. ASSUME NEW v \in Threads \ {th}, pc[v] \in {"add_task", "wait_for_task"}
        PROVE  arg[v] \in Jobs \ {j}
    <3>1. arg[v] \in Jobs /\ Frame(v)[1] = v /\ v # Nobody
      BY <2>1, Frames, Apart DEF IInv, Core, Calls, TypeOK
    <3>2. caller[arg[v]] = Frame(v)
      BY <2>1 DEF Framed
    <3> QED BY <1>1, <3>1, <3>2
  <2> QED BY <1>4, <1>5, <2>1 DEF Framed
<1>7. \A v \in Threads : \A m \in Depth(v) : stack[v][m] \in Jobs /\ stack[v][m] # j
  BY <1>2, ElementOfSeq DEF Started, Depth, IInv, Core, TypeOK
<1>8. Started'
  BY <1>3 DEF Started, Depth
<1>9. Chained'
  <2>1. \A v \in Threads : \A m \in Depth(v) : caller'[stack[v][m]] = caller[stack[v][m]]
    BY <1>4, <1>7
  <2> QED BY <1>3, <2>1 DEF Chained, Depth, Below
<1>10. SlotsNamed'
  BY <1>2, <1>3, <1>4 DEF SlotsNamed, is_empty, task_id_to_index, IInv, Core, SlotsFilled
<1>11. CallersStay'
  <2>1. \A k \in unwaited : k \in Jobs /\ k # j
    BY <1>2 DEF IInv, Core, Calls, TypeOK
  <2> QED BY <1>3, <1>4, <2>1 DEF CallersStay, InJob
<1> QED BY <1>6, <1>8, <1>9, <1>10, <1>11

LEMMA NestedCallWaitForTask ==
  ASSUME IInv, Nested, NEW th \in Threads, CallWaitForTask(th) PROVE Nested'
<1> USE DEF Nested
<1>1. PICK j \in unwaited : caller[j] = Frame(th) /\ arg' = [arg EXCEPT ![th] = j]
  BY DEF CallWaitForTask, Open
<1>2. /\ pc' = [pc EXCEPT ![th] = "wait_for_task"]
      /\ UNCHANGED <<stack, idx, tasks, caller, id, unwaited, runs>>
  BY DEF CallWaitForTask, Goto, usage
<1>3. /\ arg'[th] = j
      /\ \A v \in Threads \ {th} : pc'[v] = pc[v] /\ arg'[v] = arg[v]
  BY <1>1, <1>2 DEF IInv, Core, TypeOK
<1>4. Framed'
  BY <1>1, <1>2, <1>3 DEF Framed, Frame
<1>5. Started' /\ Chained'
  <2>1. Started'
    BY <1>2 DEF Started, Depth
  <2>2. Chained'
    BY <1>2 DEF Chained, Depth, Below
  <2> QED BY <2>1, <2>2
<1>6. SlotsNamed' /\ CallersStay'
  BY <1>2 DEF SlotsNamed, CallersStay, is_empty, task_id_to_index, InJob
<1> QED BY <1>4, <1>5, <1>6

(* A call ends, or is made into a slot or onto the caller's stack. *)
LEMMA NestedEndJob ==
  ASSUME IInv, Nested, NEW th \in Threads, EndJob(th) PROVE Nested'
<1> USE DEF Nested
<1>1. /\ pc[th] = "run" /\ stack[th] # <<>> /\ stack[th] \in Seq(Jobs)
      /\ stack' = [stack EXCEPT ![th] = Front(@)]
      /\ pc' \in {[pc EXCEPT ![th] = "clear"], [pc EXCEPT ![th] = "run"]}
      /\ UNCHANGED <<arg, idx, tasks, caller, id, unwaited, runs>>
  BY DEF EndJob, At, Goto, usage, IInv, Core, TypeOK
<1>2. /\ stack'[th] = Front(stack[th]) /\ pc'[th] \in {"clear", "run"}
      /\ \A v \in Threads \ {th} : stack'[v] = stack[v] /\ pc'[v] = pc[v]
  BY <1>1 DEF IInv, Core, TypeOK
<1>3. PICK n \in Nat \ {0} :
        /\ Depth(th) = 1..n /\ Depth(th)' = 1..(n - 1)
        /\ \A m \in 1..(n - 1) : stack'[th][m] = stack[th][m]
        /\ stack[th][n] = Last(stack[th])
        /\ stack'[th] \in Seq(Jobs)
  <2>1. /\ Len(stack[th]) \in Nat \ {0} /\ Len(stack'[th]) = Len(stack[th]) - 1
        /\ \A m \in 1..(Len(stack[th]) - 1) : stack'[th][m] = stack[th][m]
        /\ stack[th][Len(stack[th])] = Last(stack[th])
        /\ stack'[th] \in Seq(Jobs)
    BY <1>1, <1>2, Popped
  <2> QED BY <2>1 DEF Depth
<1>9. \A v \in Threads : \A m \in Depth(v)' : m \in Depth(v) /\ stack'[v][m] = stack[v][m]
  <2>1. \A m \in Depth(th)' : m \in Depth(th) /\ stack'[th][m] = stack[th][m]
    BY <1>3
  <2>2. \A v \in Threads \ {th} : \A m \in Depth(v)' : m \in Depth(v) /\ stack'[v][m] = stack[v][m]
    BY <1>2 DEF Depth
  <2> QED BY <2>1, <2>2
<1>4. Framed'
  BY <1>1, <1>2 DEF Framed, Frame
<1>5. Started'
  BY <1>1, <1>9 DEF Started
<1>6. Chained'
  <2>1. \A v \in Threads : \A m \in Depth(v)' : m # 1 => m - 1 \in Depth(v)'
    <3>1. \A v \in Threads : stack'[v] \in Seq(Jobs)
      BY <1>1, EndJobStep DEF IInv, Core, TypeOK
    <3> QED BY <3>1, LenProperties DEF Depth
  <2>2. \A v \in Threads : \A m \in Depth(v)' : Below(v, m)' = Below(v, m)
    BY <1>9, <2>1 DEF Below
  <2>3. ASSUME NEW v \in Threads, NEW m \in Depth(v)'
        PROVE  IF v \in Workers /\ m = 1
                 THEN tasks'[idx'[v]].job = stack'[v][m] /\ caller'[stack'[v][m]][1] # v
                 ELSE caller'[stack'[v][m]] = <<v, Below(v, m)'>>
    <3>1. UNCHANGED <<idx, tasks, caller>> /\ Below(v, m)' = Below(v, m)
      BY <1>1, <2>2
    <3>2. m \in Depth(v) /\ stack'[v][m] = stack[v][m]
      BY <1>9
    <3>3. IF v \in Workers /\ m = 1
            THEN tasks[idx[v]].job = stack[v][m] /\ caller[stack[v][m]][1] # v
            ELSE caller[stack[v][m]] = <<v, Below(v, m)>>
      BY <3>2 DEF Chained
    <3> QED BY <3>1, <3>2, <3>3
  <2> QED BY <2>3 DEF Chained
<1>7. SlotsNamed'
  BY <1>1 DEF SlotsNamed, is_empty, task_id_to_index
<1>8. CallersStay'
  <2>1. ASSUME NEW j \in unwaited, caller[j][1] = th, InJob(th, caller[j][2])
        PROVE  InJob(th, caller[j][2])'
    <3>1. j \in Jobs /\ caller[j] = <<th, caller[j][2]>>
      BY <2>1 DEF IInv, Core, TypeOK
    <3>2. caller[j][2] # Last(stack[th])
      BY <1>1, <2>1, <3>1 DEF EndJob, Open, Frame
    <3>3. PICK m \in Depth(th) : stack[th][m] = caller[j][2]
      BY <1>1, <2>1, InJobAt
    <3>4. m \in Depth(th)' /\ stack'[th][m] = stack[th][m]
      BY <1>3, <3>2, <3>3
    <3>5. caller[j][2] \in Range(stack'[th])
      BY <1>3, <3>3, <3>4, RangeAt DEF Depth
    <3> QED BY <1>1, <3>5 DEF InJob
  <2>2. \A v \in Threads \ {th} : \A k : InJob(v, k)' <=> InJob(v, k)
    BY <1>2 DEF InJob
  <2> QED BY <1>1, <2>1, <2>2 DEF CallersStay
<1> QED BY <1>4, <1>5, <1>6, <1>7, <1>8

\* What FillSlot does, in terms of its slot and job.
Fills(th, s, j) ==
  /\ is_empty(s) /\ j = arg[th] /\ pc[th] = "add_task"
  /\ caller[j][1] = th /\ id[j] = 0 /\ runs[j] = 0
  /\ ~is_empty(s)' /\ ~tasks'[s].is_being_processed
  /\ tasks'[s].job = j /\ tasks'[s].thread_id = th
  /\ tasks'[s].task_id = id'[j] /\ task_id_to_index(id'[j]) = s
  /\ \A t \in Slots \ {s} : tasks'[t] = tasks[t]
  /\ \A k \in Jobs \ {j} : id'[k] = id[k]
  /\ pc' = [pc EXCEPT ![th] = "run"]
  /\ unwaited' = unwaited \cup {j}
  /\ \A v \in Threads \ {th} : arg'[v] = arg[v]
  /\ UNCHANGED <<stack, idx, caller, runs>>

LEMMA FillSlotFills ==
  ASSUME IInv, NEW th \in Threads, FillSlot(th)
  PROVE  \E s \in Slots, j \in Jobs : Fills(th, s, j)
<1> USE DEF IInv, Core
<1>1. PICK s \in Slots : s = Min(EmptySlots) /\ is_empty(s)
  <2>1. EmptySlots \subseteq Nat /\ EmptySlots # {}
    BY SlotNumbers DEF FillSlot, EmptySlots
  <2> QED BY <2>1, SmallestNat DEF EmptySlots
<1>2. PICK n \in Nat \ {0} : n = make_next_task_id(s) /\ task_id_to_index(n) = s
  <2>1. tasks[s].next_task_id \in Nat /\ tasks[s].next_task_id >= 2
    BY <1>1 DEF SlotsFilled, TypeOK, Slot
  <2>2. make_next_task_id(s) \in Nat \ {0}
    BY <2>1, TaskIds DEF make_next_task_id
  <2>3. NumSlots \in Nat \ {0} /\ s \in 0..(NumSlots - 1)
    BY SlotNumbers DEF Slots
  <2>4. (tasks[s].next_task_id * NumSlots + s) % NumSlots = s
    BY <2>1, <2>3, IdsLeadBack
  <2> QED BY <2>2, <2>4 DEF task_id_to_index, make_next_task_id
<1>3. PICK j \in Jobs : /\ j = arg[th] /\ caller[j][1] = th /\ id[j] = 0 /\ runs[j] = 0
                        /\ pc[th] = "add_task"
  BY DEF Calls, FillSlot, At
<1>4. PICK filled :
        /\ filled.task_id = n /\ filled.job = j /\ ~filled.is_being_processed
        /\ filled.thread_id = th
        /\ tasks' = [tasks EXCEPT ![s] = filled]
  <2> DEFINE f == [task_id |-> n, thread_id |-> th, job |-> j,
                   is_being_processed |-> FALSE,
                   next_task_id |-> tasks[s].next_task_id + 1]
  <2>1. tasks' = [tasks EXCEPT ![s] = f]
    BY <1>1, <1>2, <1>3 DEF FillSlot
  <2>2. f.task_id = n /\ f.job = j /\ ~f.is_being_processed /\ f.thread_id = th
    OBVIOUS
  <2> HIDE DEF f
  <2> QED BY <2>1, <2>2
<1>5. /\ tasks'[s] = filled /\ \A t \in Slots \ {s} : tasks'[t] = tasks[t]
  BY <1>4 DEF TypeOK
<1>6. /\ pc' = [pc EXCEPT ![th] = "run"]
      /\ id' = [id EXCEPT ![j] = n]
      /\ unwaited' = unwaited \cup {j}
      /\ arg' = [arg EXCEPT ![th] = Nobody]
      /\ UNCHANGED <<stack, idx, caller, runs>>
  BY <1>1, <1>2, <1>3 DEF FillSlot, Added, Goto
<1>7. /\ id'[j] = n /\ \A k \in Jobs \ {j} : id'[k] = id[k]
      /\ \A v \in Threads \ {th} : arg'[v] = arg[v]
  BY <1>6 DEF TypeOK
<1>8. ~is_empty(s)'
  BY <1>4, <1>5 DEF is_empty
<1> QED BY <1>1, <1>2, <1>3, <1>4, <1>5, <1>6, <1>7, <1>8 DEF Fills

(* A thread in a call is inside a job, or is a client in none. *)
LEMMA CallerIsThere ==
  ASSUME IInv, NEW th \in Threads, pc[th] = "add_task", NEW j, caller[j] = Frame(th)
  PROVE  /\ caller[j][1] = th
         /\ \/ InJob(th, caller[j][2])
            \/ th \in Clients /\ caller[j][2] = Nobody
<1>1. stack[th] \in Seq(Jobs)
  BY DEF IInv, Core, TypeOK
<1>2. CASE stack[th] = <<>>
  BY <1>2 DEF Frame, IInv, Core, Control, InLoopPlaces, Threads
<1>3. CASE stack[th] # <<>>
  <2>1. InJob(th, Last(stack[th]))
    BY <1>1, <1>3, Popped, InJobAt DEF Depth
  <2> QED BY <1>3, <2>1 DEF Frame
<1> QED BY <1>2, <1>3

LEMMA NestedFillSlot ==
  ASSUME IInv, Nested, NEW th \in Threads, FillSlot(th) PROVE Nested'
<1> USE DEF Nested
<1>1. PICK s \in Slots, j \in Jobs : Fills(th, s, j)
  BY FillSlotFills
<1>2. /\ pc'[th] = "run" /\ \A v \in Threads \ {th} : pc'[v] = pc[v] /\ arg'[v] = arg[v]
      /\ UNCHANGED <<stack, idx, caller, runs>>
  BY <1>1 DEF Fills, IInv, Core, TypeOK
<1>3. Framed'
  BY <1>2 DEF Framed, Frame
<1>4. Started'
  BY <1>2 DEF Started, Depth
<1>5. Chained'
  <2>1. \A v \in Workers : 1 \in Depth(v) => idx[v] \in Slots /\ idx[v] # s
    <3>1. ASSUME NEW v \in Workers, 1 \in Depth(v)
          PROVE  idx[v] \in Slots /\ tasks[idx[v]].is_being_processed
      <4>1. stack[v] # <<>>
        BY <3>1, EmptySeq DEF Depth
      <4> QED BY <4>1 DEF InLoop, IInv, Core, SlotsOwned
    <3> QED BY <1>1, <3>1 DEF Fills, IInv, Core, SlotsFilled
  <2>2. \A v \in Workers : 1 \in Depth(v) => tasks'[idx[v]] = tasks[idx[v]]
    BY <1>1, <2>1 DEF Fills
  <2> QED BY <1>2, <2>2 DEF Chained, Depth, Below
<1>6. SlotsNamed'
  <2>1. ASSUME NEW t \in Slots, t # s, ~is_empty(t)'
        PROVE  /\ ~is_empty(t) /\ tasks'[t] = tasks[t]
               /\ tasks[t].job \in Jobs /\ id'[tasks[t].job] = id[tasks[t].job]
    BY <1>1, <2>1 DEF Fills, is_empty, IInv, Core, SlotsFilled
  <2>2. ASSUME NEW t \in Slots, t # s, ~is_empty(t)'
        PROVE  /\ tasks'[t].task_id = id'[tasks'[t].job]
               /\ task_id_to_index(tasks'[t].task_id) = t
               /\ tasks'[t].thread_id = caller'[tasks'[t].job][1]
               /\ tasks'[t].job \in unwaited'
               /\ tasks'[t].is_being_processed => runs'[tasks'[t].job] = 1
    BY <1>1, <1>2, <2>1, <2>2 DEF SlotsNamed, Fills
  <2>3. /\ tasks'[s].task_id = id'[tasks'[s].job]
        /\ task_id_to_index(tasks'[s].task_id) = s
        /\ tasks'[s].thread_id = caller'[tasks'[s].job][1]
        /\ tasks'[s].job \in unwaited' /\ ~tasks'[s].is_being_processed
    BY <1>1, <1>2 DEF Fills
  <2> QED BY <2>2, <2>3 DEF SlotsNamed, task_id_to_index
<1>7. CallersStay'
  <2>1. caller[j] = Frame(th) /\ pc[th] = "add_task"
    BY <1>1 DEF Fills, Framed
  <2> QED BY <1>1, <1>2, <2>1, CallerIsThere DEF CallersStay, Fills, InJob
<1> QED BY <1>3, <1>4, <1>5, <1>6, <1>7

LEMMA NestedRunHere ==
  ASSUME IInv, Nested, NEW th \in Threads, RunHere(th) PROVE Nested'
<1> USE DEF Nested
<1>1. PICK j \in Jobs : /\ j = arg[th] /\ caller[j] = Frame(th) /\ id[j] = 0 /\ runs[j] = 0
                        /\ pc[th] = "add_task"
  BY DEF IInv, Core, Calls, RunHere, At, Framed
<1>2. /\ pc' = [pc EXCEPT ![th] = "run"]
      /\ arg' = [arg EXCEPT ![th] = Nobody]
      /\ stack' = [stack EXCEPT ![th] = Append(stack[th], j)]
      /\ runs' = [runs EXCEPT ![j] = 1]
      /\ id' = [id EXCEPT ![j] = 1]
      /\ unwaited' = unwaited \cup {j}
      /\ UNCHANGED <<idx, tasks, caller>>
  BY <1>1 DEF RunHere, Goto, Added, IInv, Core, TypeOK
<1>3. PICK n \in Nat : n = Len(stack[th])
  BY LenProperties DEF IInv, Core, TypeOK
<1>4. /\ pc'[th] = "run" /\ Len(stack'[th]) = n + 1 /\ stack'[th][n + 1] = j
      /\ \A m \in 1..n : stack'[th][m] = stack[th][m]
      /\ stack'[th] \in Seq(Jobs)
      /\ \A v \in Threads \ {th} :
           pc'[v] = pc[v] /\ arg'[v] = arg[v] /\ stack'[v] = stack[v]
      /\ runs'[j] = 1 /\ \A k \in Jobs \ {j} : runs'[k] = runs[k] /\ id'[k] = id[k]
  BY <1>2, <1>3, Pushed DEF IInv, Core, TypeOK
<1>5. /\ Depth(th) = 1..n /\ Depth(th)' = 1..(n + 1)
      /\ \A v \in Threads \ {th} : Depth(v)' = Depth(v)
  BY <1>3, <1>4 DEF Depth
<1>6. \A v \in Threads : \A m \in Depth(v) : stack[v][m] \in Jobs /\ stack[v][m] # j
  BY <1>1, ElementOfSeq DEF Started, Depth, IInv, Core, TypeOK
<1>7. \A v \in Threads : \A m \in Depth(v)' :
        \/ m \in Depth(v) /\ stack'[v][m] = stack[v][m]
        \/ v = th /\ m = n + 1 /\ stack'[v][m] = j
  BY <1>3, <1>4, <1>5
<1>8. Framed'
  BY <1>2, <1>4 DEF Framed, Frame
<1>9. Started'
  <2>1. \A v \in Threads : \A m \in Depth(v)' : runs'[stack'[v][m]] = 1
    BY <1>4, <1>6, <1>7 DEF Started
  <2>2. ASSUME NEW u \in Threads, NEW v \in Threads, NEW k \in Depth(u)', NEW m \in Depth(v)',
               stack'[u][k] = stack'[v][m]
        PROVE  u = v /\ k = m
    BY <1>6, <1>7, <2>2 DEF Started
  <2> QED BY <2>1, <2>2 DEF Started
<1>10. Chained'
  <2>1. ASSUME NEW v \in Threads, NEW m \in Depth(v)
        PROVE  Below(v, m)' = Below(v, m)
    <3>1. CASE v = th
      BY <1>3, <1>4, <1>5, <2>1, <3>1 DEF Below
    <3>2. CASE v # th
      BY <1>4, <3>2 DEF Below
    <3> QED BY <3>1, <3>2
  <2>2. /\ ~(th \in Workers /\ n + 1 = 1)
        /\ caller[j] = <<th, Below(th, n + 1)'>>
    <3>1. CASE stack[th] = <<>>
      <4>1. n = 0
        BY <1>3, <3>1, EmptySeq
      <4> QED BY <1>1, <3>1, <4>1 DEF Below, Frame, IInv, Core, Control, InLoopPlaces
    <3>2. CASE stack[th] # <<>>
      <4>1. n \in Nat \ {0} /\ Last(stack[th]) = stack[th][n]
        BY <1>3, <3>2, Popped DEF IInv, Core, TypeOK
      <4> QED BY <1>1, <1>4, <3>2, <4>1 DEF Below, Frame
    <3> QED BY <3>1, <3>2
  <2>3. ASSUME NEW v \in Threads, NEW m \in Depth(v)'
        PROVE  IF v \in Workers /\ m = 1
                 THEN tasks'[idx'[v]].job = stack'[v][m] /\ caller'[stack'[v][m]][1] # v
                 ELSE caller'[stack'[v][m]] = <<v, Below(v, m)'>>
    <3>1. CASE m \in Depth(v) /\ stack'[v][m] = stack[v][m]
      BY <1>2, <2>1, <3>1 DEF Chained
    <3>2. CASE v = th /\ m = n + 1 /\ stack'[v][m] = j
      BY <1>2, <2>2, <3>2
    <3> QED BY <1>7, <3>1, <3>2
  <2> QED BY <2>3 DEF Chained
<1>11. SlotsNamed'
  <2>1. \A t \in Slots : ~is_empty(t) => tasks[t].job \in Jobs /\ tasks[t].job # j
    BY <1>1 DEF IInv, Core, SlotsFilled
  <2> QED BY <1>2, <1>4, <2>1 DEF SlotsNamed, is_empty, task_id_to_index
<1>12. CallersStay'
  <2>1. ASSUME NEW v \in Threads, NEW k, InJob(v, k) PROVE InJob(v, k)'
    <3>1. stack[v] \in Seq(Jobs) /\ stack'[v] \in Seq(Jobs)
      BY <1>4 DEF IInv, Core, TypeOK
    <3>2. PICK m \in Depth(v) : stack[v][m] = k
      BY <2>1, <3>1, InJobAt
    <3>3. m \in Depth(v)' /\ stack'[v][m] = k
      BY <1>3, <1>4, <1>5, <3>2
    <3> QED BY <3>1, <3>3, LenProperties DEF InJob, Range, Depth
  <2>2. \/ caller[j][1] \in Threads /\ InJob(caller[j][1], caller[j][2])
        \/ caller[j][1] \in Clients /\ caller[j][2] = Nobody
    BY <1>1, CallerIsThere
  <2> QED BY <1>2, <2>1, <2>2 DEF CallersStay
<1> QED BY <1>8, <1>9, <1>10, <1>11, <1>12

(* A thread that returns from a wait has no job of that wait in a slot. *)
LEMMA PendingInSlots ==
  ASSUME IInv, Nested, NEW j \in Jobs, ~IsPending(j)
  PROVE  \A s \in Slots : ~is_empty(s) => tasks[s].job # j
<1>1. \A s \in Slots : NumSlots # 0
  BY SlotNumbers
<1> QED BY <1>1 DEF Nested, SlotsNamed, IsPending

LEMMA NestedReturn ==
  ASSUME IInv, Nested, NEW th \in Threads, ReturnFromTask(th) \/ ReturnFromAll(th)
  PROVE  Nested'
<1> USE DEF Nested
<1>1. /\ pc' = [pc EXCEPT ![th] = "run"]
      /\ arg' \in {arg, [arg EXCEPT ![th] = Nobody]}
      /\ unwaited' \subseteq unwaited
      /\ UNCHANGED <<stack, idx, tasks, caller, id, runs>>
  BY DEF ReturnFromTask, ReturnFromAll, Goto
<1>2. /\ pc'[th] = "run"
      /\ \A v \in Threads \ {th} : pc'[v] = pc[v] /\ arg'[v] = arg[v]
  BY <1>1 DEF IInv, Core, TypeOK
<1>3. Framed'
  BY <1>1, <1>2 DEF Framed, Frame
<1>4. Started' /\ Chained'
  <2>1. Started'
    BY <1>1 DEF Started, Depth
  <2>2. Chained'
    BY <1>1 DEF Chained, Depth, Below
  <2> QED BY <2>1, <2>2
<1>5. ASSUME NEW s \in Slots, ~is_empty(s) PROVE tasks[s].job \in unwaited'
  <2>1. tasks[s].job \in Jobs /\ tasks[s].job \in unwaited
        /\ tasks[s].thread_id = caller[tasks[s].job][1]
    BY <1>5 DEF SlotsNamed, IInv, Core, SlotsFilled
  <2>2. CASE ReturnFromTask(th)
    <3>1. unwaited' = unwaited \ {arg[th]} /\ ~IsPending(arg[th]) /\ arg[th] \in Jobs
      BY <2>2 DEF ReturnFromTask, At, IInv, Core, Calls
    <3> QED BY <1>5, <2>1, <3>1, PendingInSlots
  <2>3. CASE ReturnFromAll(th)
    BY <1>5, <2>1, <2>3 DEF ReturnFromAll, HasPending
  <2> QED BY <2>2, <2>3
<1>6. SlotsNamed'
  BY <1>1, <1>5 DEF SlotsNamed, is_empty, task_id_to_index
<1>7. CallersStay'
  BY <1>1 DEF CallersStay, InJob
<1> QED BY <1>3, <1>4, <1>6, <1>7

(* A worker's loop. *)
LEMMA NestedTakeJob ==
  ASSUME IInv, Nested, NEW w \in Workers, TakeJob(w) PROVE Nested'
<1> USE DEF Nested
<1>1. PICK s \in Slots : s = Min(ReadySlots) /\ is_ready(s) /\ ~is_empty(s)
  <2>1. ReadySlots \subseteq Nat /\ ReadySlots # {}
    BY SlotNumbers DEF TakeJob, ReadySlots
  <2>2. Min(ReadySlots) \in ReadySlots
    BY <2>1, SmallestNat
  <2> QED BY <2>2 DEF ReadySlots, is_ready
<1>2. PICK j \in Jobs : j = tasks[s].job /\ id[j] # 0 /\ runs[j] = 0 /\ j \in unwaited
  BY <1>1 DEF IInv, Core, SlotsFilled, Kept, SlotsNamed
<1>3. /\ pc[w] = "find" /\ stack[w] = <<>>
      /\ pc' = [pc EXCEPT ![w] = "run"]
      /\ tasks' = [tasks EXCEPT ![s].is_being_processed = TRUE]
      /\ idx' = [idx EXCEPT ![w] = s]
      /\ stack' = [stack EXCEPT ![w] = <<j>>]
      /\ runs' = [runs EXCEPT ![j] = 1]
      /\ UNCHANGED <<arg, caller, id, unwaited>>
  BY <1>1, <1>2 DEF TakeJob, At, Goto, usage, IInv, Core, TypeOK, Control, InLoopPlaces
<1>4. /\ w \in Threads /\ pc'[w] = "run" /\ stack'[w] = <<j>> /\ idx'[w] = s
      /\ \A v \in Threads \ {w} : pc'[v] = pc[v] /\ stack'[v] = stack[v]
      /\ \A v \in Workers \ {w} : idx'[v] = idx[v]
      /\ runs'[j] = 1 /\ \A k \in Jobs \ {j} : runs'[k] = runs[k]
  BY <1>3, Apart DEF IInv, Core, TypeOK
<1>5. /\ tasks'[s].job = j /\ tasks'[s].task_id = tasks[s].task_id
      /\ tasks'[s].thread_id = tasks[s].thread_id
      /\ \A t \in Slots \ {s} : tasks'[t] = tasks[t]
  BY <1>2, <1>3 DEF IInv, Core, TypeOK, Slot
<1>6. /\ Depth(w) = {} /\ Depth(w)' = {1} /\ stack'[w][1] = j
      /\ \A v \in Threads \ {w} : Depth(v)' = Depth(v)
  BY <1>3, <1>4 DEF Depth
<1>7. \A v \in Threads : \A m \in Depth(v) : stack[v][m] \in Jobs /\ stack[v][m] # j
  BY <1>2, ElementOfSeq DEF Started, Depth, IInv, Core, TypeOK
<1>8. \A v \in Threads : \A m \in Depth(v)' :
        \/ v # w /\ m \in Depth(v) /\ stack'[v][m] = stack[v][m]
        \/ v = w /\ m = 1 /\ stack'[v][m] = j
  BY <1>4, <1>6
<1>9. Framed'
  BY <1>3, <1>4 DEF Framed, Frame
<1>10. Started'
  <2>1. \A v \in Threads : \A m \in Depth(v)' : runs'[stack'[v][m]] = 1
    BY <1>4, <1>7, <1>8 DEF Started
  <2>2. ASSUME NEW u \in Threads, NEW v \in Threads, NEW k \in Depth(u)', NEW m \in Depth(v)',
               stack'[u][k] = stack'[v][m]
        PROVE  u = v /\ k = m
    BY <1>7, <1>8, <2>2 DEF Started
  <2> QED BY <2>1, <2>2 DEF Started
<1>11. Chained'
  <2>1. caller[j][1] # w
    BY <1>2, <1>3, Apart, EmptySeq DEF CallersStay, InJob, Range
  <2>2. ASSUME NEW v \in Workers, v # w, 1 \in Depth(v)
        PROVE  idx[v] \in Slots /\ idx[v] # s
    <3>1. stack[v] # <<>>
      BY <2>2, EmptySeq DEF Depth
    <3> QED BY <1>1, <3>1 DEF InLoop, IInv, Core, SlotsOwned, is_ready
  <2>3. ASSUME NEW v \in Threads, NEW m \in Depth(v), v # w, stack'[v][m] = stack[v][m]
        PROVE  IF v \in Workers /\ m = 1
                 THEN tasks'[idx'[v]].job = stack'[v][m] /\ caller'[stack'[v][m]][1] # v
                 ELSE caller'[stack'[v][m]] = <<v, Below(v, m)'>>
    <3>1. Below(v, m)' = Below(v, m) /\ caller' = caller
      BY <1>3, <1>4, <2>3 DEF Below
    <3>2. IF v \in Workers /\ m = 1
            THEN tasks[idx[v]].job = stack[v][m] /\ caller[stack[v][m]][1] # v
            ELSE caller[stack[v][m]] = <<v, Below(v, m)>>
      BY DEF Chained
    <3>3. v \in Workers /\ m = 1 => tasks'[idx'[v]] = tasks[idx[v]]
      BY <1>4, <1>5, <2>2, <2>3
    <3> QED BY <2>3, <3>1, <3>2, <3>3
  <2>4. tasks'[idx'[w]].job = stack'[w][1] /\ caller'[stack'[w][1]][1] # w
    BY <1>3, <1>4, <1>5, <1>6, <2>1
  <2>5. ASSUME NEW v \in Threads, NEW m \in Depth(v)'
        PROVE  IF v \in Workers /\ m = 1
                 THEN tasks'[idx'[v]].job = stack'[v][m] /\ caller'[stack'[v][m]][1] # v
                 ELSE caller'[stack'[v][m]] = <<v, Below(v, m)'>>
    BY <1>8, <2>3, <2>4
  <2> QED BY <2>5 DEF Chained
<1>12. SlotsNamed'
  <2>1. ASSUME NEW t \in Slots, t # s, ~is_empty(t)'
        PROVE  /\ ~is_empty(t) /\ tasks'[t] = tasks[t]
               /\ tasks[t].job \in Jobs
               /\ tasks[t].is_being_processed => tasks[t].job # j
    BY <1>2, <1>5, <2>1 DEF is_empty, IInv, Core, SlotsFilled, SlotsNamed
  <2>2. ASSUME NEW t \in Slots, t # s, ~is_empty(t)'
        PROVE  /\ tasks'[t].task_id = id'[tasks'[t].job]
               /\ task_id_to_index(tasks'[t].task_id) = t
               /\ tasks'[t].thread_id = caller'[tasks'[t].job][1]
               /\ tasks'[t].job \in unwaited'
               /\ tasks'[t].is_being_processed => runs'[tasks'[t].job] = 1
    BY <1>3, <1>4, <2>1, <2>2 DEF SlotsNamed
  <2>3. /\ tasks'[s].task_id = id'[tasks'[s].job]
        /\ task_id_to_index(tasks'[s].task_id) = s
        /\ tasks'[s].thread_id = caller'[tasks'[s].job][1]
        /\ tasks'[s].job \in unwaited' /\ runs'[tasks'[s].job] = 1
    BY <1>1, <1>2, <1>3, <1>4, <1>5 DEF SlotsNamed
  <2> QED BY <2>2, <2>3 DEF SlotsNamed, task_id_to_index
<1>13. CallersStay'
  <2>1. ASSUME NEW v \in Threads, NEW k, InJob(v, k) PROVE v # w
    BY <1>3, <2>1 DEF InJob, Range
  <2> QED BY <1>3, <1>4, <2>1 DEF CallersStay, InJob
<1> QED BY <1>9, <1>10, <1>11, <1>12, <1>13

LEMMA NestedClearSlot ==
  ASSUME IInv, Nested, NEW w \in Workers, ClearSlot(w) PROVE Nested'
<1> USE DEF Nested
<1>1. pc[w] = "clear" /\ stack[w] = <<>> /\ InLoop(w) /\ idx[w] \in Slots
  BY DEF ClearSlot, At, InLoop, IInv, Core, Control, InLoopPlaces, SlotsOwned
<1>2. PICK s \in Slots : s = idx[w]
  BY <1>1
<1>3. /\ pc' = [pc EXCEPT ![w] = "check"]
      /\ \A t \in Slots \ {s} : tasks'[t] = tasks[t]
      /\ is_empty(s)'
      /\ UNCHANGED <<stack, arg, idx, caller, id, unwaited, runs>>
  <2>1. /\ pc' = [pc EXCEPT ![w] = "check"]
        /\ UNCHANGED <<stack, arg, idx, caller, id, unwaited, runs>>
        /\ tasks' = [tasks EXCEPT ![s] = [@ EXCEPT !.task_id = 0, !.job = Nobody,
                                                   !.is_being_processed = FALSE]]
    BY <1>2 DEF ClearSlot, Goto, UnchangedUse, usage
  <2>2. tasks'[s].task_id = 0
    BY <2>1 DEF IInv, Core, TypeOK, Slot
  <2>3. \A t \in Slots \ {s} : tasks'[t] = tasks[t]
    BY <2>1 DEF IInv, Core, TypeOK
  <2> QED BY <2>1, <2>2, <2>3 DEF is_empty
<1>4. /\ pc'[w] = "check" /\ \A v \in Threads \ {w} : pc'[v] = pc[v]
  BY <1>3, Apart DEF IInv, Core, TypeOK
<1>5. Framed'
  BY <1>3, <1>4 DEF Framed, Frame
<1>6. Started'
  BY <1>3 DEF Started, Depth
<1>7. Chained'
  <2>1. ASSUME NEW v \in Workers, 1 \in Depth(v)
        PROVE  tasks'[idx[v]] = tasks[idx[v]]
    <3>1. stack[v] # <<>> /\ v # w
      BY <1>1, <2>1, EmptySeq DEF Depth
    <3> QED BY <1>1, <1>2, <1>3, <3>1 DEF InLoop, IInv, Core, SlotsOwned
  <2> QED BY <1>3, <2>1 DEF Chained, Depth, Below
<1>8. SlotsNamed'
  BY <1>3 DEF SlotsNamed, is_empty, task_id_to_index
<1>9. CallersStay'
  BY <1>3 DEF CallersStay, InJob
<1> QED BY <1>5, <1>6, <1>7, <1>8, <1>9

LEMMA NestedNext == IInv /\ Nested /\ [Next]_vars => Nested'
<1>1. ASSUME IInv, Nested, UNCHANGED vars PROVE Nested'
  BY <1>1, NestedQuiet DEF vars, usage
<1>2. ASSUME IInv, Nested, NEW th \in Threads, Use(th) PROVE Nested'
  BY <1>2, NestedPlaces, NestedCallAddTask, NestedCallWaitForTask, NestedEndJob,
     NestedFillSlot, NestedRunHere, NestedReturn DEF Use
<1>3. ASSUME IInv, Nested, NEW w \in Workers, Loop(w) PROVE Nested'
  BY <1>3, Apart, NestedPlaces, NestedTakeJob, NestedClearSlot DEF Loop
<1>4. ASSUME IInv, Nested, NEW c \in Clients, Close(c) PROVE Nested'
  BY <1>4, Apart, NestedPlaces
<1> QED BY <1>1, <1>2, <1>3, <1>4, NestedPlaces DEF Next, Step

-----------------------------------------------------------------------------
(* An empty slot names no job. *)
Vacated == \A s \in Slots : is_empty(s) => tasks[s].job = Nobody

LEMMA VacatedInit == Init => Vacated
BY DEF Init, NewSlot, Vacated

LEMMA VacatedNext == IInv /\ Vacated /\ [Next]_vars => Vacated'
<1>1. ASSUME Vacated, UNCHANGED tasks PROVE Vacated'
  BY <1>1 DEF Vacated, is_empty
<1>2. ASSUME IInv, Vacated, NEW th \in Threads, FillSlot(th) PROVE Vacated'
  <2>1. PICK s \in Slots, j \in Jobs : Fills(th, s, j)
    BY <1>2, FillSlotFills
  <2> QED BY <1>2, <2>1 DEF Fills, Vacated, is_empty
<1>3. ASSUME IInv, Vacated, NEW w \in Workers, TakeJob(w) PROVE Vacated'
  <2>1. PICK s : tasks' = [tasks EXCEPT ![s].is_being_processed = TRUE]
    BY <1>3 DEF TakeJob
  <2>2. \A t \in Slots : tasks'[t].task_id = tasks[t].task_id /\ tasks'[t].job = tasks[t].job
    BY <1>3, <2>1 DEF IInv, Core, TypeOK, Slot
  <2> QED BY <1>3, <2>2 DEF Vacated, is_empty
<1>4. ASSUME IInv, Vacated, NEW w \in Workers, ClearSlot(w) PROVE Vacated'
  <2>1. tasks' = [tasks EXCEPT ![idx[w]] = [@ EXCEPT !.task_id = 0, !.job = Nobody,
                                                     !.is_being_processed = FALSE]]
    BY <1>4 DEF ClearSlot
  <2>2. \A t \in Slots : tasks'[t] = tasks[t] \/ tasks'[t].job = Nobody
    BY <1>4, <2>1 DEF IInv, Core, TypeOK, Slot
  <2> QED BY <1>4, <2>2 DEF Vacated, is_empty
<1>5. ASSUME NEW th \in Threads, Use(th) PROVE UNCHANGED tasks \/ FillSlot(th)
  BY <1>5 DEF Use, CallAddTask, CallWaitForTask, CallWaitForAllTasks, EndJob, RunHere,
     WaitForSlot, StayForTask, ReturnFromTask, StayForAll, ReturnFromAll, SleepUntilDone,
     OnlyGoto
<1>6. ASSUME NEW w \in Workers, Loop(w) PROVE UNCHANGED tasks \/ TakeJob(w) \/ ClearSlot(w)
  BY <1>6 DEF Loop, Register, CheckDestructing, SleepUntilReady, Leave, OnlyGoto
<1>7. ASSUME NEW c \in Clients, Close(c) PROVE UNCHANGED tasks
  BY <1>7 DEF Close, EndClient, CallShutdown, StayForPending, Destruct, Join, OnlyGoto,
     SleepUntilDone, UnchangedUse
<1>8. ASSUME NEW th \in Threads, SpuriousWakeup(th) PROVE UNCHANGED tasks
  BY <1>8 DEF SpuriousWakeup
<1> QED BY <1>1, <1>2, <1>3, <1>4, <1>5, <1>6, <1>7, <1>8 DEF Next, Step, vars

RInv == IInv /\ Nested /\ Vacated

LEMMA RInvHolds == FairSpec => []RInv
<1>1. Init => RInv
  BY CoreInit, NestedInit, VacatedInit DEF RInv
<1>2. RInv /\ [Next]_vars => RInv'
  BY PoolNext, NestedNext, VacatedNext DEF RInv
<1> QED BY <1>1, <1>2, PTL DEF FairSpec, Spec

-----------------------------------------------------------------------------
(* What a user sees of a job. *)
Running(j) == \E th \in Threads : InJob(th, j)
Held(j) == \E s \in Slots : is_ready(s) /\ tasks[s].job = j

LEMMA RunningOnce ==
  ASSUME RInv, NEW j \in Jobs, NEW th \in Threads, InJob(th, j)
  PROVE  runs[j] = 1 /\ \A v \in Threads : InJob(v, j) => v = th
<1>1. \A v \in Threads : stack[v] \in Seq(Jobs)
  BY DEF RInv, IInv, Core, TypeOK
<1>2. \A v \in Threads : InJob(v, j) => \E m \in Depth(v) : stack[v][m] = j
  BY <1>1, InJobAt
<1> QED BY <1>2 DEF RInv, Nested, Started

LEMMA StatusIs ==
  ASSUME RInv, NEW j \in Jobs
  PROVE  /\ Status(j) = "running" <=> Running(j)
         /\ Status(j) = "done" <=> ~Running(j) /\ runs[j] > 0
         /\ Status(j) = "added" <=> Held(j)
         /\ Status(j) = "new" <=> ~Running(j) /\ ~(runs[j] > 0) /\ ~Held(j)
         /\ Running(j) => runs[j] = 1
         /\ Held(j) => runs[j] = 0
<1> USE DEF RInv, IInv, Core
<1>1. Running(j) => runs[j] = 1
  BY RunningOnce DEF Running
<1>2. Held(j) => runs[j] = 0
  BY DEF Held, Kept
<1>3. Held(j) => j \in {tasks[s].job : s \in Slots}
  BY DEF Held
<1>4. ASSUME ~(runs[j] > 0), j \in {tasks[s].job : s \in Slots} PROVE Held(j)
  <2>1. PICK s \in Slots : tasks[s].job = j
    BY <1>4
  <2>2. ~is_empty(s)
    BY <2>1, Apart DEF Vacated
  <2>3. ~tasks[s].is_being_processed
    BY <1>4, <2>1, <2>2 DEF Nested, SlotsNamed
  <2> QED BY <2>1, <2>2, <2>3 DEF Held, is_ready
<1> QED BY <1>1, <1>2, <1>3, <1>4 DEF Status, Running

LEMMA RunnerIs ==
  ASSUME RInv, NEW j \in Jobs
  PROVE  /\ \A th \in Threads : Runner(j) = th <=> InJob(th, j)
         /\ ~Running(j) => Runner(j) = Nobody
<1>1. CASE Running(j)
  <2>1. PICK th \in Threads : InJob(th, j)
    BY <1>1 DEF Running
  <2>2. \A v \in Threads : InJob(v, j) => v = th
    BY <2>1, RunningOnce
  <2>3. Runner(j) = th
    BY <1>1, <2>1, <2>2, StatusIs DEF Runner
  <2> QED BY <1>1, <2>1, <2>2, <2>3
<1>2. CASE ~Running(j)
  <2>1. Runner(j) = Nobody
    BY <1>2, StatusIs DEF Runner
  <2> QED BY <1>2, <2>1, Apart DEF Running
<1> QED BY <1>1, <1>2

(* A job that can be waited for was added. *)
LEMMA NumberedNotNew ==
  ASSUME RInv, NEW j \in Jobs, id[j] # 0
  PROVE  Status(j) # "new" /\ Adder(j) = caller[j][1]
<1>1. runs[j] = 1 \/ Held(j)
  BY DEF RInv, IInv, Core, Calls, Kept, Held
<1> QED BY <1>1, StatusIs DEF Adder

LEMMA NewIs ==
  ASSUME RInv, NEW j \in Jobs, id[j] = 0, runs[j] = 0
  PROVE  Status(j) = "new" /\ Adder(j) = Nobody /\ Runner(j) = Nobody
<1>1. ~Held(j)
  BY DEF Held, is_ready, RInv, IInv, Core, SlotsFilled
<1> QED BY <1>1, StatusIs, RunnerIs DEF Adder

(* A job added where a thread is now is none that the thread is inside of. *)
LEMMA NotBelow ==
  ASSUME RInv, NEW j \in Jobs, NEW th \in Threads, caller[j] = Frame(th)
  PROVE  ~InJob(th, j)
<1> SUFFICES ASSUME InJob(th, j) PROVE FALSE
  OBVIOUS
<1>1. stack[th] \in Seq(Jobs)
  BY DEF RInv, IInv, Core, TypeOK
<1>2. PICK m \in Depth(th) : stack[th][m] = j
  BY <1>1, InJobAt
<1>3. stack[th] # <<>>
  BY <1>2, EmptySeq DEF Depth
<1>4. PICK n \in Nat \ {0} :
        Depth(th) = 1..n /\ Last(stack[th]) = stack[th][n] /\ stack[th][n] \in Jobs
  BY <1>1, <1>3, Popped DEF Depth
<1>5. caller[j] = <<th, stack[th][n]>>
  BY <1>3, <1>4 DEF Frame
<1>6. caller[j] = <<th, Below(th, m)>>
  BY <1>2, <1>5 DEF RInv, Nested, Chained
<1>7. Below(th, m) = stack[th][n]
  BY <1>5, <1>6
<1>8. m # 1
  BY <1>4, <1>7, Apart DEF Below
<1>9. m - 1 \in Depth(th) /\ stack[th][m - 1] = stack[th][n] /\ m - 1 # n
  BY <1>2, <1>4, <1>7, <1>8 DEF Below
<1> QED BY <1>4, <1>9 DEF RInv, Nested, Started

LEMMA OpenAdded ==
  ASSUME RInv, NEW th \in Threads, NEW j \in Open(th)
  PROVE  j \in Jobs /\ Adder(j) = th /\ Runner(j) # th
<1>1. j \in Jobs /\ id[j] # 0 /\ caller[j] = Frame(th) /\ caller[j][1] = th
  BY Frames DEF Open, RInv, IInv, Core, Calls, TypeOK
<1> QED BY <1>1, NumberedNotNew, NotBelow, RunnerIs

(* The same of the next state. *)
Seen(j) ==
  /\ Status(j) \in {"new", "added", "running", "done"}
  /\ Status(j) = "running" <=> Running(j)
  /\ Status(j) = "done" <=> ~Running(j) /\ runs[j] > 0
  /\ Status(j) = "added" <=> Held(j)
  /\ \A th \in Threads : Runner(j) = th <=> InJob(th, j)
  /\ ~Running(j) => Runner(j) = Nobody
  /\ Status(j) = "new" => Adder(j) = Nobody
  /\ Status(j) # "new" => Adder(j) = caller[j][1]
AllSeen == \A j \in Jobs : Seen(j)

LEMMA SeenNow == RInv => AllSeen
<1> SUFFICES ASSUME RInv, NEW j \in Jobs PROVE Seen(j)
  BY DEF AllSeen
<1>1. Status(j) \in {"new", "added", "running", "done"}
  BY DEF Status
<1>2. /\ Status(j) = "new" => Adder(j) = Nobody
      /\ Status(j) # "new" => Adder(j) = caller[j][1]
  BY DEF Adder
<1> QED BY <1>1, <1>2, StatusIs, RunnerIs DEF Seen

LEMMA SeenThen == RInv' => AllSeen'
BY SeenNow, PTL

(* Jobs that nobody starts, ends or keeps look the same. *)
Alike(k) ==
  /\ Status(k)' = Status(k) /\ Runner(k)' = Runner(k) /\ Adder(k)' = Adder(k)
  /\ \A th \in Threads : InJob(th, k)' <=> InJob(th, k)

LEMMA JobAlike ==
  ASSUME RInv, RInv', NEW k \in Jobs,
         \A th \in Threads : InJob(th, k)' <=> InJob(th, k),
         runs'[k] = runs[k], Held(k)' <=> Held(k),
         Status(k) # "new" => caller'[k] = caller[k]
  PROVE  Alike(k)
<1>1. Seen(k) /\ Seen(k)'
  BY SeenNow, SeenThen DEF AllSeen
<1>2. Running(k)' <=> Running(k)
  BY DEF Running
<1>3. Status(k)' = Status(k)
  BY <1>1, <1>2 DEF Seen
<1>4. Runner(k)' = Runner(k)
  <2>1. CASE Running(k)
    BY <1>1, <2>1 DEF Seen, Running
  <2>2. CASE ~Running(k)
    BY <1>1, <1>2, <2>2 DEF Seen
  <2> QED BY <2>1, <2>2
<1>5. Adder(k)' = Adder(k)
  BY <1>1, <1>3 DEF Seen
<1> QED BY <1>3, <1>4, <1>5 DEF Alike

(* What a thread waits for. *)
WaitPlaces == {"wait_for_task", "wait_for_all_tasks"}

LEMMA WaitsIs ==
  ASSUME NEW th \in Threads
  PROVE  /\ pc[th] = "wait_for_task" => Waits(th) = {arg[th]}
         /\ pc[th] = "wait_for_all_tasks" =>
              Waits(th) = {j \in Jobs : Adder(j) = th /\ ~InJob(th, j)}
         /\ pc[th] \notin WaitPlaces => Waits(th) = {}
BY DEF Waits, WaitPlaces

LEMMA WaitsNext ==
  ASSUME NEW th \in Threads
  PROVE  /\ pc'[th] = "wait_for_task" => Waits(th)' = {arg'[th]}
         /\ pc'[th] = "wait_for_all_tasks" =>
              Waits(th)' = {j \in Jobs : Adder(j)' = th /\ ~InJob(th, j)'}
         /\ pc'[th] \notin WaitPlaces => Waits(th)' = {}
BY DEF Waits, WaitPlaces

LEMMA WaitAlike ==
  ASSUME NEW th \in Threads,
         \/ pc'[th] \notin WaitPlaces /\ pc[th] \notin WaitPlaces
         \/ /\ pc'[th] = pc[th] /\ arg'[th] = arg[th]
            /\ \A k \in Jobs : Adder(k)' = th /\ ~InJob(th, k)'
                                 <=> Adder(k) = th /\ ~InJob(th, k)
  PROVE  Waits(th)' = Waits(th)
<1>1. CASE pc'[th] \notin WaitPlaces /\ pc[th] \notin WaitPlaces
  BY <1>1, WaitsIs, WaitsNext
<1>2. CASE /\ pc'[th] = pc[th] /\ arg'[th] = arg[th]
           /\ \A k \in Jobs : Adder(k)' = th /\ ~InJob(th, k)'
                                <=> Adder(k) = th /\ ~InJob(th, k)
  <2>1. {j \in Jobs : Adder(j)' = th /\ ~InJob(th, j)'} =
          {j \in Jobs : Adder(j) = th /\ ~InJob(th, j)}
    BY <1>2
  <2> QED BY <1>2, <2>1, WaitsIs, WaitsNext DEF WaitPlaces
<1> QED BY <1>1, <1>2

(* Steps of the promised pool, in these terms. *)
LEMMA Hidden ==
  ASSUME \A k \in Jobs : Alike(k), \A th \in Threads : Waits(th)' = Waits(th)
  PROVE  UNCHANGED Pool!vars
BY DEF Alike, Pool!vars

LEMMA OneMoves ==
  ASSUME NEW j \in Jobs, NEW from, NEW to, NEW r,
         Status(j) = from, Status(j)' = to, Runner(j)' = r,
         \A k \in Jobs \ {j} : Alike(k)
  PROVE  Pool!Moves(j, from, to, r)
BY DEF Alike, Pool!Moves

-----------------------------------------------------------------------------
(* Steps that users do not see. *)
LEMMA QuietHidden ==
  ASSUME RInv, RInv', UNCHANGED <<stack, arg, tasks, caller, runs>>,
         \A th \in Threads : \/ pc'[th] = pc[th]
                             \/ pc'[th] \notin WaitPlaces /\ pc[th] \notin WaitPlaces
  PROVE  UNCHANGED Pool!vars
<1>1. ASSUME NEW k \in Jobs PROVE Alike(k)
  <2>1. \A th \in Threads : InJob(th, k)' <=> InJob(th, k)
    BY DEF InJob
  <2>2. Held(k)' <=> Held(k)
    BY DEF Held, is_ready, is_empty
  <2> QED BY <2>1, <2>2, JobAlike
<1>2. \A th \in Threads : Waits(th)' = Waits(th)
  BY <1>1, WaitAlike DEF Alike
<1> QED BY <1>1, <1>2, Hidden

LEMMA PlacesHidden ==
  ASSUME RInv, RInv', NEW th \in Threads,
         \/ WaitForSlot(th) \/ StayForTask(th) \/ StayForAll(th) \/ SpuriousWakeup(th)
         \/ th \in Workers /\ \/ Register(th) \/ CheckDestructing(th) \/ Leave(th)
                              \/ SleepUntilReady(th)
         \/ th \in Clients /\ Close(th)
  PROVE  UNCHANGED Pool!vars
<1>1. UNCHANGED <<stack, arg, tasks, caller, runs>>
  BY DEF WaitForSlot, StayForTask, StayForAll, SpuriousWakeup,
     Register, CheckDestructing, Leave, SleepUntilReady, Close, EndClient, CallShutdown,
     StayForPending, Destruct, Join, OnlyGoto, SleepUntilDone, UnchangedUse, usage
<1>2. \/ UNCHANGED pc
      \/ /\ pc[th] \notin WaitPlaces
         /\ \E place \in {"check", "exit", "find", "ended", "shutdown", "join"} :
              pc' = [pc EXCEPT ![th] = place]
  BY DEF WaitForSlot, StayForTask, StayForAll, SpuriousWakeup,
     Register, CheckDestructing, Leave, SleepUntilReady, Close, EndClient, CallShutdown,
     StayForPending, Destruct, Join, OnlyGoto, SleepUntilDone, UnchangedUse, Goto, At, WaitPlaces
<1>3. \A v \in Threads : \/ pc'[v] = pc[v]
                         \/ pc'[v] \notin WaitPlaces /\ pc[v] \notin WaitPlaces
  <2>1. CASE UNCHANGED pc
    BY <2>1
  <2>2. ASSUME pc[th] \notin WaitPlaces,
               NEW place \in {"check", "exit", "find", "ended", "shutdown", "join"},
               pc' = [pc EXCEPT ![th] = place]
        PROVE  \A v \in Threads : \/ pc'[v] = pc[v]
                                  \/ pc'[v] \notin WaitPlaces /\ pc[v] \notin WaitPlaces
    <3>1. pc'[th] = place /\ \A v \in Threads \ {th} : pc'[v] = pc[v]
      BY <2>2 DEF RInv, IInv, Core, TypeOK
    <3>2. place \notin WaitPlaces
      BY DEF WaitPlaces
    <3> QED BY <2>2, <3>1, <3>2
  <2> QED BY <1>2, <2>1, <2>2
<1> QED BY <1>1, <1>3, QuietHidden

LEMMA CallAddTaskHidden ==
  ASSUME RInv, RInv', NEW th \in Threads, CallAddTask(th)
  PROVE  UNCHANGED Pool!vars
<1>1. PICK j \in Jobs :
        /\ j = Min({k \in Jobs : caller[k][1] = Nobody})
        /\ caller[j][1] = Nobody
  <2> DEFINE fresh == {k \in Jobs : caller[k][1] = Nobody}
  <2>1. Min(fresh) \in fresh
    BY SmallestNat, Apart DEF CallAddTask
  <2> QED BY <2>1
<1>2. Status(j) = "new"
  BY <1>1, NewIs DEF RInv, IInv, Core, Calls
<1>3. /\ pc' = [pc EXCEPT ![th] = "add_task"] /\ pc[th] = "run"
      /\ arg' = [arg EXCEPT ![th] = j]
      /\ caller' = [caller EXCEPT ![j] = Frame(th)]
      /\ UNCHANGED <<stack, tasks, runs>>
  BY <1>1 DEF CallAddTask, Goto, At
<1>4. ASSUME NEW k \in Jobs PROVE Alike(k)
  <2>1. \A v \in Threads : InJob(v, k)' <=> InJob(v, k)
    BY <1>3 DEF InJob
  <2>2. Held(k)' <=> Held(k)
    BY <1>3 DEF Held, is_ready, is_empty
  <2>3. Status(k) # "new" => caller'[k] = caller[k]
    BY <1>2, <1>3 DEF RInv, IInv, Core, TypeOK
  <2> QED BY <1>3, <2>1, <2>2, <2>3, JobAlike
<1>5. ASSUME NEW v \in Threads PROVE Waits(v)' = Waits(v)
  <2>1. \/ pc'[v] \notin WaitPlaces /\ pc[v] \notin WaitPlaces
        \/ pc'[v] = pc[v] /\ arg'[v] = arg[v]
    BY <1>3 DEF RInv, IInv, Core, TypeOK, WaitPlaces
  <2> QED BY <1>4, <2>1, WaitAlike DEF Alike
<1> QED BY <1>4, <1>5, Hidden

LEMMA ClearSlotHidden ==
  ASSUME RInv, RInv', NEW w \in Workers, ClearSlot(w)
  PROVE  UNCHANGED Pool!vars
<1>1. PICK s \in Slots : s = idx[w] /\ tasks[s].is_being_processed
  BY DEF ClearSlot, At, InLoop, RInv, IInv, Core, SlotsOwned
<1>2. /\ pc' = [pc EXCEPT ![w] = "check"] /\ pc[w] = "clear"
      /\ UNCHANGED <<stack, arg, caller, runs>>
      /\ tasks' = [tasks EXCEPT ![s] = [@ EXCEPT !.task_id = 0, !.job = Nobody,
                                                 !.is_being_processed = FALSE]]
  BY <1>1 DEF ClearSlot, At, Goto, UnchangedUse, usage
<1>3. /\ tasks'[s].task_id = 0 /\ \A t \in Slots \ {s} : tasks'[t] = tasks[t]
  BY <1>2 DEF RInv, IInv, Core, TypeOK, Slot
<1>4. \A t \in Slots : /\ is_ready(t)' <=> is_ready(t)
                       /\ is_ready(t) => tasks'[t] = tasks[t]
  BY <1>1, <1>3 DEF is_ready, is_empty
<1>5. ASSUME NEW k \in Jobs PROVE Alike(k)
  <2>1. \A v \in Threads : InJob(v, k)' <=> InJob(v, k)
    BY <1>2 DEF InJob
  <2>2. Held(k)' <=> Held(k)
    BY <1>4 DEF Held
  <2> QED BY <1>2, <2>1, <2>2, JobAlike
<1>6. ASSUME NEW v \in Threads PROVE Waits(v)' = Waits(v)
  <2>1. \/ pc'[v] \notin WaitPlaces /\ pc[v] \notin WaitPlaces
        \/ pc'[v] = pc[v] /\ arg'[v] = arg[v]
    BY <1>2 DEF RInv, IInv, Core, TypeOK, WaitPlaces
  <2> QED BY <1>5, <2>1, WaitAlike DEF Alike
<1> QED BY <1>5, <1>6, Hidden

(* Waits begin and end. *)
LEMMA CallWaitMaps ==
  ASSUME RInv, RInv', NEW th \in Threads, CallWaitForTask(th) \/ CallWaitForAllTasks(th)
  PROVE  Pool!Wait(th)
<1>1. /\ pc[th] = "run" /\ UNCHANGED <<stack, tasks, caller, runs>>
      /\ \A v \in Threads \ {th} : pc'[v] = pc[v] /\ arg'[v] = arg[v]
  BY DEF CallWaitForTask, CallWaitForAllTasks, OnlyGoto, At, Goto, usage, RInv, IInv, Core, TypeOK
<1>2. ASSUME NEW k \in Jobs PROVE Alike(k)
  <2>1. \A v \in Threads : InJob(v, k)' <=> InJob(v, k)
    BY <1>1 DEF InJob
  <2>2. Held(k)' <=> Held(k)
    BY <1>1 DEF Held, is_ready, is_empty
  <2> QED BY <1>1, <2>1, <2>2, JobAlike
<1>3. Waits(th) = {} /\ \A v \in Threads \ {th} : Waits(v)' = Waits(v)
  BY <1>1, <1>2, WaitsIs, WaitAlike DEF WaitPlaces, Alike
<1> DEFINE added == {k \in Jobs : Adder(k) = th /\ Runner(k) # th}
<1>4. \E k \in Open(th) : TRUE
  BY DEF CallWaitForTask, CallWaitForAllTasks
<1>5. \A k \in Open(th) : k \in added
  BY OpenAdded
<1>6. \E S \in {{k} : k \in added} \cup {added} : Waits(th)' = S
  <2>1. CASE CallWaitForTask(th)
    <3>1. PICK k \in Open(th) : arg' = [arg EXCEPT ![th] = k]
      BY <2>1 DEF CallWaitForTask
    <3>2. pc'[th] = "wait_for_task" /\ arg'[th] = k
      BY <2>1, <3>1 DEF CallWaitForTask, Goto, RInv, IInv, Core, TypeOK
    <3>3. Waits(th)' = {k} /\ k \in added
      BY <1>5, <3>2, WaitsNext
    <3> QED BY <3>3
  <2>2. CASE CallWaitForAllTasks(th)
    <3>1. pc'[th] = "wait_for_all_tasks"
      BY <2>2 DEF CallWaitForAllTasks, OnlyGoto, Goto, RInv, IInv, Core, TypeOK
    <3>2. Waits(th)' = {k \in Jobs : Adder(k)' = th /\ ~InJob(th, k)'}
      BY <3>1, WaitsNext
    <3>3. \A k \in Jobs : Adder(k)' = th /\ ~InJob(th, k)' <=> Adder(k) = th /\ Runner(k) # th
      BY <1>2, RunnerIs DEF Alike
    <3>4. Waits(th)' = added
      BY <3>2, <3>3
    <3> QED BY <3>4
  <2> QED BY <2>1, <2>2
<1>7. added = {j \in Jobs : [k \in Jobs |-> Adder(k)][j] = th /\ [k \in Jobs |-> Runner(k)][j] # th}
  OBVIOUS
<1>8. added # {}
  BY <1>4, <1>5
<1>9. \A k \in Jobs : Status(k)' = Status(k) /\ Runner(k)' = Runner(k) /\ Adder(k)' = Adder(k)
  BY <1>2 DEF Alike
<1> HIDE DEF added
<1>10. \E S \in {{k} : k \in added} \cup {added} :
        [v \in Threads |-> Waits(v)]' = [[v \in Threads |-> Waits(v)] EXCEPT ![th] = S]
  <2>1. PICK S \in {{k} : k \in added} \cup {added} : Waits(th)' = S
    BY <1>6
  <2>2. [v \in Threads |-> Waits(v)]' = [[v \in Threads |-> Waits(v)] EXCEPT ![th] = S]
    BY <1>3, <2>1
  <2> QED BY <2>2
<1>11. /\ [k \in Jobs |-> Status(k)]' = [k \in Jobs |-> Status(k)]
       /\ [k \in Jobs |-> Runner(k)]' = [k \in Jobs |-> Runner(k)]
       /\ [k \in Jobs |-> Adder(k)]' = [k \in Jobs |-> Adder(k)]
  BY <1>9
<1> QED BY <1>3, <1>7, <1>8, <1>10, <1>11 DEF Pool!Wait

LEMMA ReturnMaps ==
  ASSUME RInv, RInv', NEW th \in Threads, ReturnFromTask(th) \/ ReturnFromAll(th)
  PROVE  Pool!Return(th) \/ UNCHANGED Pool!vars
<1>1. /\ pc[th] \in WaitPlaces /\ pc'[th] = "run"
      /\ UNCHANGED <<stack, tasks, caller, runs>>
      /\ \A v \in Threads \ {th} : pc'[v] = pc[v] /\ arg'[v] = arg[v]
  BY DEF ReturnFromTask, ReturnFromAll, At, Goto, WaitPlaces, RInv, IInv, Core, TypeOK
<1>2. ASSUME NEW k \in Jobs PROVE Alike(k)
  <2>1. \A v \in Threads : InJob(v, k)' <=> InJob(v, k)
    BY <1>1 DEF InJob
  <2>2. Held(k)' <=> Held(k)
    BY <1>1 DEF Held, is_ready, is_empty
  <2> QED BY <1>1, <2>1, <2>2, JobAlike
<1>3. Waits(th)' = {}
  BY <1>1, WaitsNext DEF WaitPlaces
<1>4. \A v \in Threads \ {th} : Waits(v)' = Waits(v)
  BY <1>1, <1>2, WaitAlike DEF Alike
<1>5. ASSUME NEW k \in Jobs, Status(k) # "new", caller[k][1] = th, ~InJob(th, k),
             \A s \in Slots : ~is_empty(s) => tasks[s].job # k
      PROVE  Status(k) = "done"
  <2>1. ~Held(k)
    BY <1>5 DEF Held, is_ready
  <2>2. ASSUME NEW v \in Threads, InJob(v, k) PROVE FALSE
    <3>1. stack[v] \in Seq(Jobs)
      BY DEF RInv, IInv, Core, TypeOK
    <3>2. PICK m \in Depth(v) : stack[v][m] = k
      BY <2>2, <3>1, InJobAt
    <3>3. CASE v \in Workers /\ m = 1
      <4>1. stack[v] # <<>>
        BY <3>2, EmptySeq DEF Depth
      <4>2. idx[v] \in Slots /\ ~is_empty(idx[v])
        BY <3>3, <4>1 DEF InLoop, RInv, IInv, Core, SlotsOwned, SlotsFilled
      <4>3. tasks[idx[v]].job = k
        BY <3>2, <3>3 DEF RInv, Nested, Chained
      <4> QED BY <1>5, <4>2, <4>3
    <3>4. CASE ~(v \in Workers /\ m = 1)
      <4>1. caller[k] = <<v, Below(v, m)>>
        BY <3>2, <3>4 DEF RInv, Nested, Chained
      <4> QED BY <1>5, <2>2, <4>1
    <3> QED BY <3>3, <3>4
  <2>3. ~Running(k)
    BY <2>2 DEF Running
  <2> QED BY <1>5, <2>1, <2>3, SeenNow DEF AllSeen, Seen
<1>6. \A k \in Waits(th) : k \in Jobs /\ Status(k) = "done"
  <2>1. CASE ReturnFromTask(th)
    <3>1. pc[th] = "wait_for_task" /\ ~IsPending(arg[th])
      BY <2>1 DEF ReturnFromTask, At
    <3>2. arg[th] \in Jobs /\ id[arg[th]] # 0 /\ caller[arg[th]] = Frame(th)
      BY <3>1 DEF RInv, IInv, Core, Calls, Nested, Framed
    <3>3. caller[arg[th]][1] = th
      BY <3>2, Frames DEF RInv, IInv, Core, TypeOK
    <3>4. ~InJob(th, arg[th]) /\ Status(arg[th]) # "new"
      BY <3>2, NotBelow, NumberedNotNew
    <3>5. \A s \in Slots : ~is_empty(s) => tasks[s].job # arg[th]
      BY <3>1, <3>2, PendingInSlots DEF RInv
    <3>6. Status(arg[th]) = "done"
      BY <1>5, <3>2, <3>3, <3>4, <3>5
    <3> QED BY <3>1, <3>2, <3>6, WaitsIs
  <2>2. CASE ReturnFromAll(th)
    <3>1. pc[th] = "wait_for_all_tasks" /\ ~HasPending(th)
      BY <2>2 DEF ReturnFromAll, At
    <3>2. ASSUME NEW k \in Jobs, Adder(k) = th, ~InJob(th, k) PROVE Status(k) = "done"
      <4>1. Status(k) # "new" /\ caller[k][1] = th
        BY <3>2, SeenNow, Apart DEF AllSeen, Seen
      <4>2. \A s \in Slots : ~is_empty(s) => tasks[s].job # k
        BY <3>1, <4>1 DEF HasPending, RInv, Nested, SlotsNamed
      <4> QED BY <1>5, <3>2, <4>1, <4>2
    <3> QED BY <3>1, <3>2, WaitsIs
  <2> QED BY <2>1, <2>2
<1>7. CASE Waits(th) = {}
  <2>1. \A v \in Threads : Waits(v)' = Waits(v)
    BY <1>3, <1>4, <1>7
  <2> QED BY <1>2, <2>1, Hidden
<1>8. CASE Waits(th) # {}
  <2>1. \A k \in Jobs : Status(k)' = Status(k) /\ Runner(k)' = Runner(k) /\ Adder(k)' = Adder(k)
    BY <1>2 DEF Alike
  <2>2. /\ [k \in Jobs |-> Status(k)]' = [k \in Jobs |-> Status(k)]
        /\ [k \in Jobs |-> Runner(k)]' = [k \in Jobs |-> Runner(k)]
        /\ [k \in Jobs |-> Adder(k)]' = [k \in Jobs |-> Adder(k)]
    BY <2>1
  <2>3. [v \in Threads |-> Waits(v)]' = [[v \in Threads |-> Waits(v)] EXCEPT ![th] = {}]
    BY <1>3, <1>4
  <2>4. \A k \in [v \in Threads |-> Waits(v)][th] : [i \in Jobs |-> Status(i)][k] = "done"
    BY <1>6
  <2> QED BY <1>8, <2>2, <2>3, <2>4 DEF Pool!Return
<1> QED BY <1>7, <1>8

(* A job ends. *)
LEMMA EndJobMaps ==
  ASSUME RInv, RInv', NEW th \in Threads, EndJob(th)
  PROVE  \E j \in Jobs : Pool!Finish(j)
<1>1. /\ pc[th] = "run" /\ stack[th] # <<>> /\ stack[th] \in Seq(Jobs)
      /\ stack' = [stack EXCEPT ![th] = Front(@)]
      /\ pc'[th] \in {"clear", "run"}
      /\ \A v \in Threads \ {th} : pc'[v] = pc[v]
      /\ UNCHANGED <<arg, tasks, caller, runs>>
  BY DEF EndJob, At, Goto, usage, RInv, IInv, Core, TypeOK
<1>2. /\ stack'[th] = Front(stack[th]) /\ stack'[th] \in Seq(Jobs)
      /\ \A v \in Threads \ {th} : stack'[v] = stack[v]
  BY <1>1, Popped DEF RInv, IInv, Core, TypeOK
<1>3. PICK n \in Nat \ {0} :
        /\ Depth(th) = 1..n /\ Depth(th)' = 1..(n - 1)
        /\ \A m \in 1..(n - 1) : stack'[th][m] = stack[th][m]
  <2>1. /\ Len(stack[th]) \in Nat \ {0} /\ Len(stack'[th]) = Len(stack[th]) - 1
        /\ \A m \in 1..(Len(stack[th]) - 1) : stack'[th][m] = stack[th][m]
    BY <1>1, <1>2, Popped
  <2> QED BY <2>1 DEF Depth
<1>4. PICK j \in Jobs : j = stack[th][n]
  BY <1>1, <1>3, ElementOfSeq DEF Depth
<1>5. \A k : InJob(th, k) <=> \E m \in 1..n : stack[th][m] = k
  BY <1>1, <1>3, InJobAt
<1>6. \A k : InJob(th, k)' <=> \E m \in 1..(n - 1) : stack[th][m] = k
  <2>1. \A k : k \in Range(stack'[th]) <=> \E m \in Depth(th)' : stack'[th][m] = k
    BY <1>2, RangeAt DEF Depth
  <2> QED BY <1>3, <2>1 DEF InJob
<1>7. \A k : \A v \in Threads \ {th} : InJob(v, k)' <=> InJob(v, k)
  BY <1>2 DEF InJob
<1>8. InJob(th, j) /\ ~InJob(th, j)'
  <2>1. \A m \in 1..(n - 1) : stack[th][m] # j
    BY <1>3, <1>4 DEF RInv, Nested, Started
  <2> QED BY <1>4, <1>5, <1>6, <2>1
<1>9. \A k \in Jobs \ {j} : InJob(th, k)' <=> InJob(th, k)
  BY <1>3, <1>4, <1>5, <1>6
<1>10. ASSUME NEW k \in Jobs \ {j} PROVE Alike(k)
  <2>1. Held(k)' <=> Held(k)
    BY <1>1 DEF Held, is_ready, is_empty
  <2> QED BY <1>1, <1>7, <1>9, <2>1, JobAlike
<1>11. /\ Status(j) = "running" /\ runs[j] = 1 /\ Runner(j) = th
       /\ \A v \in Threads \ {th} : ~InJob(v, j)
  <2>1. Running(j)
    BY <1>8 DEF Running
  <2> QED BY <1>8, <2>1, RunningOnce, SeenNow DEF AllSeen, Seen
<1>12. Status(j)' = "done" /\ Runner(j)' = Nobody
  <2>1. ~Running(j)'
    BY <1>7, <1>8, <1>11 DEF Running
  <2>2. Seen(j)'
    BY SeenThen DEF AllSeen
  <2> QED BY <1>1, <1>11, <2>1, <2>2 DEF Seen
<1>13. Adder(j)' = Adder(j)
  <2>1. Seen(j) /\ Seen(j)'
    BY SeenNow, SeenThen DEF AllSeen
  <2>2. Adder(j) = caller[j][1] /\ Adder(j)' = caller'[j][1]
    BY <1>11, <1>12, <2>1 DEF Seen
  <2> QED BY <1>1, <2>2
<1>14. ASSUME NEW v \in Threads PROVE Waits(v)' = Waits(v)
  <2>1. CASE v = th
    BY <1>1, <2>1, WaitAlike DEF WaitPlaces
  <2>2. CASE v # th
    <3>1. \A k \in Jobs : Adder(k)' = Adder(k) /\ (InJob(v, k)' <=> InJob(v, k))
      BY <1>7, <1>10, <1>13, <2>2 DEF Alike
    <3> QED BY <1>1, <2>2, <3>1, WaitAlike
  <2> QED BY <2>1, <2>2
<1>15. Waits(th) = {}
  BY <1>1, WaitsIs DEF WaitPlaces
<1>16. Pool!Moves(j, "running", "done", Nobody)
  BY <1>10, <1>11, <1>12, OneMoves
<1>17. \A v \in Threads : [k \in Jobs |-> Runner(k)][j] = v
                            => [u \in Threads |-> Waits(u)][v] = {}
  BY <1>11, <1>15
<1>18. /\ [k \in Jobs |-> Adder(k)]' = [k \in Jobs |-> Adder(k)]
       /\ [v \in Threads |-> Waits(v)]' = [v \in Threads |-> Waits(v)]
  <2>1. \A k \in Jobs : Adder(k)' = Adder(k)
    BY <1>10, <1>13 DEF Alike
  <2> QED BY <1>14, <2>1
<1>19. Pool!Finish(j)
  BY <1>16, <1>17, <1>18 DEF Pool!Finish
<1> QED BY <1>19

(* A worker takes a job; a caller runs one at once. *)
LEMMA TakeJobMaps ==
  ASSUME RInv, RInv', NEW w \in Workers, TakeJob(w)
  PROVE  \E j \in Jobs : Pool!Start(w, j)
<1>1. PICK s \in Slots : s = Min(ReadySlots) /\ is_ready(s)
  <2>1. ReadySlots \subseteq Nat /\ ReadySlots # {}
    BY SlotNumbers DEF TakeJob, ReadySlots
  <2>2. Min(ReadySlots) \in ReadySlots
    BY <2>1, SmallestNat
  <2> QED BY <2>2 DEF ReadySlots
<1>2. PICK j \in Jobs : j = tasks[s].job
  BY <1>1 DEF RInv, IInv, Core, SlotsFilled, is_ready
<1>3. /\ w \in Threads /\ pc[w] = "find" /\ pc'[w] = "run" /\ stack[w] = <<>>
      /\ tasks' = [tasks EXCEPT ![s].is_being_processed = TRUE]
      /\ stack'[w] = <<j>>
      /\ \A v \in Threads \ {w} : pc'[v] = pc[v] /\ stack'[v] = stack[v]
      /\ \A k \in Jobs \ {j} : runs'[k] = runs[k]
      /\ UNCHANGED <<arg, caller>>
  BY <1>1, <1>2, Apart
     DEF TakeJob, At, Goto, usage, RInv, IInv, Core, TypeOK, Control, InLoopPlaces
<1>4. \A t \in Slots \ {s} : tasks'[t] = tasks[t]
  BY <1>3 DEF RInv, IInv, Core, TypeOK
<1>5. tasks'[s].is_being_processed
  BY <1>3 DEF RInv, IInv, Core, TypeOK, Slot
<1>6. /\ \A k : ~InJob(w, k) /\ (InJob(w, k)' <=> k = j)
      /\ \A k : \A v \in Threads \ {w} : InJob(v, k)' <=> InJob(v, k)
  BY <1>3 DEF InJob, Range
<1>7. ASSUME NEW k \in Jobs \ {j} PROVE Alike(k)
  <2>1. Held(k)' <=> Held(k)
    <3>1. ASSUME NEW t \in Slots, is_ready(t), tasks[t].job = k
          PROVE  is_ready(t)' /\ tasks'[t].job = k
      BY <1>2, <1>4, <3>1 DEF is_ready, is_empty
    <3>2. ASSUME NEW t \in Slots, is_ready(t)', tasks'[t].job = k
          PROVE  is_ready(t) /\ tasks[t].job = k
      BY <1>4, <1>5, <3>2 DEF is_ready, is_empty
    <3> QED BY <3>1, <3>2 DEF Held
  <2>2. \A v \in Threads : InJob(v, k)' <=> InJob(v, k)
    BY <1>6
  <2> QED BY <1>3, <2>1, <2>2, JobAlike
<1>8. Status(j) = "added" /\ Adder(j) = caller[j][1]
  <2>1. Held(j)
    BY <1>1, <1>2 DEF Held
  <2> QED BY <2>1, SeenNow DEF AllSeen, Seen
<1>9. Status(j)' = "running" /\ Runner(j)' = w /\ Adder(j)' = caller[j][1]
  <2>1. Running(j)'
    BY <1>3, <1>6 DEF Running
  <2>2. Seen(j)'
    BY SeenThen DEF AllSeen
  <2> QED BY <1>3, <1>6, <2>1, <2>2 DEF Seen
<1>10. ASSUME NEW v \in Threads PROVE Waits(v)' = Waits(v)
  <2>1. CASE v = w
    BY <1>3, <2>1, WaitAlike DEF WaitPlaces
  <2>2. CASE v # w
    <3>1. \A k \in Jobs : Adder(k)' = Adder(k) /\ (InJob(v, k)' <=> InJob(v, k))
      BY <1>6, <1>7, <1>8, <1>9, <2>2 DEF Alike
    <3> QED BY <1>3, <2>2, <3>1, WaitAlike
  <2> QED BY <2>1, <2>2
<1>11. Pool!Moves(j, "added", "running", w)
  BY <1>7, <1>8, <1>9, OneMoves
<1>12. Pool!Idle(w)
  BY <1>3, <1>6, SeenNow DEF AllSeen, Seen, Pool!Idle
<1>13. /\ [k \in Jobs |-> Adder(k)]' = [k \in Jobs |-> Adder(k)]
       /\ [v \in Threads |-> Waits(v)]' = [v \in Threads |-> Waits(v)]
  <2>1. \A k \in Jobs : Adder(k)' = Adder(k)
    BY <1>7, <1>8, <1>9 DEF Alike
  <2> QED BY <1>10, <2>1
<1>14. Pool!Start(w, j)
  BY <1>11, <1>12, <1>13 DEF Pool!Start
<1> QED BY <1>14

(* Adding gives a new job its adder. *)
LEMMA AddsMap ==
  ASSUME NEW th \in Threads, NEW j \in Jobs,
         RInv, RInv', pc[th] = "add_task", pc'[th] = "run",
         id[j] = 0, runs[j] = 0, caller[j][1] = th, UNCHANGED caller,
         Status(j)' # "new",
         \A v \in Threads \ {th} : /\ pc'[v] = pc[v] /\ arg'[v] = arg[v]
                                   /\ \A k \in Jobs : InJob(v, k)' <=> InJob(v, k),
         \A k \in Jobs \ {j} : Alike(k)
  PROVE  /\ Waits(th) = {}
         /\ [k \in Jobs |-> Adder(k)]' = [[k \in Jobs |-> Adder(k)] EXCEPT ![j] = th]
         /\ [v \in Threads |-> Waits(v)]' = [v \in Threads |-> Waits(v)]
<1>1. Waits(th) = {}
  BY WaitsIs DEF WaitPlaces
<1>2. Adder(j) = Nobody
  BY NewIs
<1>3. Adder(j)' = th
  BY SeenThen DEF AllSeen, Seen
<1>4. \A k \in Jobs \ {j} : Adder(k)' = Adder(k)
  BY DEF Alike
<1>5. ASSUME NEW v \in Threads PROVE Waits(v)' = Waits(v)
  <2>1. CASE v = th
    BY <2>1, WaitAlike DEF WaitPlaces
  <2>2. CASE v # th
    <3>1. \A k \in Jobs : Adder(k)' = v <=> Adder(k) = v
      BY <1>2, <1>3, <1>4, <2>2, Apart
    <3> QED BY <2>2, <3>1, WaitAlike
  <2> QED BY <2>1, <2>2
<1>6. [k \in Jobs |-> Adder(k)]' = [[k \in Jobs |-> Adder(k)] EXCEPT ![j] = th]
  BY <1>3, <1>4
<1>7. [v \in Threads |-> Waits(v)]' = [v \in Threads |-> Waits(v)]
  BY <1>5
<1> QED BY <1>1, <1>6, <1>7

LEMMA RunHereMaps ==
  ASSUME RInv, RInv', NEW th \in Threads, RunHere(th)
  PROVE  \E j \in Jobs : Pool!Add(th, j)
<1>1. PICK j \in Jobs : /\ j = arg[th] /\ caller[j][1] = th /\ id[j] = 0 /\ runs[j] = 0
                        /\ pc[th] = "add_task"
  BY DEF RInv, IInv, Core, Calls, RunHere, At
<1>2. /\ pc'[th] = "run" /\ stack[th] \in Seq(Jobs)
      /\ stack'[th] = Append(stack[th], j)
      /\ \A v \in Threads \ {th} : pc'[v] = pc[v] /\ stack'[v] = stack[v] /\ arg'[v] = arg[v]
      /\ \A k \in Jobs \ {j} : runs'[k] = runs[k]
      /\ UNCHANGED <<tasks, caller>>
  BY <1>1 DEF RunHere, Goto, Added, RInv, IInv, Core, TypeOK
<1>3. \A k : InJob(th, k)' <=> InJob(th, k) \/ k = j
  <2>1. PICK n \in Nat :
          /\ n = Len(stack[th]) /\ Len(stack'[th]) = n + 1
          /\ \A m \in 1..n : stack'[th][m] = stack[th][m]
          /\ stack'[th][n + 1] = j
          /\ stack'[th] \in Seq(Jobs)
    BY <1>2, Pushed
  <2>2. \A k : k \in Range(stack[th]) <=> \E m \in 1..n : stack[th][m] = k
    BY <1>2, <2>1, RangeAt
  <2>3. \A k : k \in Range(stack'[th]) <=> \E m \in 1..(n + 1) : stack'[th][m] = k
    BY <2>1, RangeAt
  <2>4. ASSUME NEW k PROVE k \in Range(stack'[th]) <=> k \in Range(stack[th]) \/ k = j
    <3>1. 1..(n + 1) = 1..n \cup {n + 1}
      OBVIOUS
    <3>2. (\E m \in 1..(n + 1) : stack'[th][m] = k)
            <=> (\E m \in 1..n : stack[th][m] = k) \/ k = j
      BY <2>1, <3>1
    <3> QED BY <2>2, <2>3, <3>2
  <2> QED BY <2>4 DEF InJob
<1>4. \A k : \A v \in Threads \ {th} : InJob(v, k)' <=> InJob(v, k)
  BY <1>2 DEF InJob
<1>5. ASSUME NEW k \in Jobs \ {j} PROVE Alike(k)
  <2>1. Held(k)' <=> Held(k)
    BY <1>2 DEF Held, is_ready, is_empty
  <2>2. \A v \in Threads : InJob(v, k)' <=> InJob(v, k)
    BY <1>3, <1>4
  <2> QED BY <1>2, <2>1, <2>2, JobAlike
<1>6. Status(j) = "new"
  BY <1>1, NewIs
<1>7. Status(j)' = "running" /\ Runner(j)' = th
  <2>1. Running(j)' /\ InJob(th, j)'
    BY <1>3 DEF Running
  <2> QED BY <2>1, SeenThen DEF AllSeen, Seen
<1>8. Pool!Moves(j, "new", "running", th)
  BY <1>5, <1>6, <1>7, OneMoves
<1>9. Pool!is_task_thread(th)
  BY DEF RunHere, is_worker_thread, Pool!is_task_thread
<1>10. /\ Waits(th) = {}
       /\ [k \in Jobs |-> Adder(k)]' = [[k \in Jobs |-> Adder(k)] EXCEPT ![j] = th]
       /\ [v \in Threads |-> Waits(v)]' = [v \in Threads |-> Waits(v)]
  BY <1>1, <1>2, <1>4, <1>5, <1>7, AddsMap
<1>11. Pool!Add(th, j)
  BY <1>8, <1>9, <1>10 DEF Pool!Add
<1> QED BY <1>11

-----------------------------------------------------------------------------
(* Slots and workers are counted against each other. *)
LEMMA OneToOne ==
  ASSUME NEW S, NEW T, NEW f \in [S -> T], IsFiniteSet(T),
         \A x, y \in S : f[x] = f[y] => x = y
  PROVE  IsFiniteSet(S) /\ Cardinality(S) <= Cardinality(T)
<1>1. f \in Injection(S, T)
  BY DEF Injection, IsInjective
<1> QED BY <1>1, FS_Injection

LEMMA Complement ==
  ASSUME NEW S, IsFiniteSet(S), NEW T \in SUBSET S
  PROVE  /\ IsFiniteSet(T) /\ IsFiniteSet(S \ T)
         /\ Cardinality(T) \in Nat /\ Cardinality(S \ T) \in Nat /\ Cardinality(S) \in Nat
         /\ Cardinality(S \ T) = Cardinality(S) - Cardinality(T)
<1>1. S \cap T = T
  OBVIOUS
<1> QED BY <1>1, FS_Difference, FS_Subset, FS_CardinalityType

ProcessedSlots == {s \in Slots : tasks[s].is_being_processed}

LEMMA SlotCount == IsFiniteSet(Slots) /\ Cardinality(Slots) = Cardinality(Workers)
<1>1. NumSlots \in Nat
  BY SlotNumbers
<1>2. IsFiniteSet(0..(NumSlots - 1)) /\ Cardinality(0..(NumSlots - 1)) = NumSlots
  BY <1>1, FS_Interval
<1> QED BY <1>2 DEF Slots, NumSlots

(* There are no more workers inside a job than slots whose job was taken. *)
LEMMA BusyWorkers ==
  ASSUME RInv, NEW B \in SUBSET Workers, \A w \in B : InLoop(w)
  PROVE  Cardinality(B) <= Cardinality(ProcessedSlots)
<1> DEFINE f == [w \in B |-> idx[w]]
<1>1. f \in [B -> ProcessedSlots]
  BY DEF ProcessedSlots, RInv, IInv, Core, SlotsOwned
<1>2. \A v, w \in B : f[v] = f[w] => v = w
  BY DEF RInv, IInv, Core, SlotsOwned
<1>3. IsFiniteSet(ProcessedSlots)
  BY SlotCount, FS_Subset DEF ProcessedSlots
<1> HIDE DEF f
<1> QED BY <1>1, <1>2, <1>3, OneToOne

(* With an empty slot there are more workers outside their jobs than jobs that
   wait in a slot. *)
LEMMA RoomForJob ==
  ASSUME RInv, EmptySlots # {}, NEW B \in SUBSET Workers, \A w \in B : InLoop(w)
  PROVE  Cardinality(ReadySlots) < Cardinality(Workers \ B)
<1> USE DEF RInv, IInv, Core
<1>1. Cardinality(B) <= Cardinality(ProcessedSlots)
  BY BusyWorkers
<1>2. /\ Cardinality(B) \in Nat /\ Cardinality(Workers) \in Nat
      /\ Cardinality(Workers \ B) = Cardinality(Workers) - Cardinality(B)
  BY PoolAssumption, Complement
<1>3. /\ Cardinality(ProcessedSlots) \in Nat /\ Cardinality(Slots) \in Nat
      /\ Cardinality(Slots \ ProcessedSlots) =
           Cardinality(Slots) - Cardinality(ProcessedSlots)
      /\ IsFiniteSet(Slots \ ProcessedSlots)
      /\ Cardinality(Slots \ ProcessedSlots) \in Nat
  BY SlotCount, Complement DEF ProcessedSlots
<1>4. ReadySlots \in SUBSET (Slots \ ProcessedSlots) /\ ReadySlots # Slots \ ProcessedSlots
  <2>1. PICK s \in Slots : is_empty(s)
    BY DEF EmptySlots
  <2>2. s \in Slots \ ProcessedSlots /\ s \notin ReadySlots
    BY <2>1 DEF ProcessedSlots, ReadySlots, is_ready, SlotsFilled
  <2>3. ReadySlots \subseteq Slots \ ProcessedSlots
    BY DEF ReadySlots, ProcessedSlots, is_ready
  <2> QED BY <2>2, <2>3
<1>5. /\ IsFiniteSet(ReadySlots)
      /\ Cardinality(ReadySlots) <= Cardinality(Slots \ ProcessedSlots)
      /\ Cardinality(ReadySlots) # Cardinality(Slots \ ProcessedSlots)
      /\ Cardinality(ReadySlots) \in Nat
  BY <1>3, <1>4, FS_Subset, FS_CardinalityType
<1> QED BY <1>1, <1>2, <1>3, <1>5, SlotCount

(* Each job that waits in a slot has one slot. *)
LEMMA HeldCount ==
  ASSUME RInv
  PROVE  Cardinality({k \in Jobs : Held(k)}) <= Cardinality(ReadySlots)
<1> DEFINE held == {k \in Jobs : Held(k)}
           f == [k \in held |-> CHOOSE s \in Slots : is_ready(s) /\ tasks[s].job = k]
<1>1. \A k \in held : f[k] \in Slots /\ is_ready(f[k]) /\ tasks[f[k]].job = k
  BY DEF Held
<1>2. f \in [held -> ReadySlots]
  BY <1>1 DEF ReadySlots
<1>3. \A k, l \in held : f[k] = f[l] => k = l
  BY <1>1
<1>4. IsFiniteSet(ReadySlots)
  BY SlotCount, FS_Subset DEF ReadySlots
<1> HIDE DEF f, held
<1>5. Cardinality(held) <= Cardinality(ReadySlots)
  BY <1>2, <1>3, <1>4, OneToOne
<1> QED BY <1>5 DEF held

(* Both modules count alike. *)
LEMMA SameCount == \A S : Pool!Cardinality(S) = Cardinality(S)
BY DEF Cardinality, Pool!Cardinality

LEMMA FillSlotMaps ==
  ASSUME RInv, RInv', NEW th \in Threads, FillSlot(th)
  PROVE  \E j \in Jobs : Pool!Add(th, j)
<1>1. PICK s \in Slots, j \in Jobs : Fills(th, s, j)
  BY FillSlotFills DEF RInv
<1>2. /\ pc[th] = "add_task" /\ pc'[th] = "run" /\ id[j] = 0 /\ runs[j] = 0
      /\ caller[j][1] = th
      /\ \A v \in Threads \ {th} : pc'[v] = pc[v] /\ arg'[v] = arg[v]
      /\ UNCHANGED <<stack, caller, runs>>
  BY <1>1 DEF Fills, RInv, IInv, Core, TypeOK
<1>3. \A k : \A v \in Threads : InJob(v, k)' <=> InJob(v, k)
  BY <1>2 DEF InJob
<1>4. ASSUME NEW k \in Jobs \ {j} PROVE Alike(k)
  <2>1. Held(k)' <=> Held(k)
    <3>1. ASSUME NEW t \in Slots, is_ready(t), tasks[t].job = k
          PROVE  is_ready(t)' /\ tasks'[t].job = k
      BY <1>1, <3>1 DEF Fills, is_ready, is_empty
    <3>2. ASSUME NEW t \in Slots, is_ready(t)', tasks'[t].job = k
          PROVE  is_ready(t) /\ tasks[t].job = k
      BY <1>1, <3>2 DEF Fills, is_ready, is_empty
    <3> QED BY <3>1, <3>2 DEF Held
  <2> QED BY <1>2, <1>3, <2>1, JobAlike
<1>5. Status(j) = "new" /\ Runner(j) = Nobody
  BY <1>2, NewIs
<1>6. Status(j)' = "added" /\ Runner(j)' = Nobody
  <2>1. Held(j)'
    BY <1>1 DEF Fills, Held, is_ready
  <2>2. Seen(j)'
    BY SeenThen DEF AllSeen
  <2>3. ~Running(j)'
    BY <2>1, <2>2 DEF Seen
  <2> QED BY <2>1, <2>2, <2>3 DEF Seen
<1>7. Pool!Moves(j, "new", "added", Nobody)
  BY <1>4, <1>5, <1>6, OneMoves
<1>8. /\ Waits(th) = {}
      /\ [k \in Jobs |-> Adder(k)]' = [[k \in Jobs |-> Adder(k)] EXCEPT ![j] = th]
      /\ [v \in Threads |-> Waits(v)]' = [v \in Threads |-> Waits(v)]
  BY <1>2, <1>3, <1>4, <1>6, AddsMap
<1>9. Pool!FreeThread
  <2> DEFINE busy == {w \in Workers : stack[w] # <<>>}
  <2>1. \A w \in busy : InLoop(w)
    BY DEF InLoop
  <2>2. Cardinality(ReadySlots) < Cardinality(Workers \ busy)
    BY <2>1, RoomForJob DEF FillSlot
  <2>3. {w \in Workers : Pool!Idle(w)} = Workers \ busy
    <3>1. ASSUME NEW w \in Workers PROVE Pool!Idle(w) <=> stack[w] = <<>>
      <4>1. w \in Threads /\ stack[w] \in Seq(Jobs)
        BY Apart DEF RInv, IInv, Core, TypeOK
      <4>2. stack[w] # <<>> => Last(stack[w]) \in Jobs /\ InJob(w, Last(stack[w]))
        BY <4>1, Popped, RangeAt DEF InJob
      <4>3. stack[w] = <<>> => \A k : ~InJob(w, k)
        BY DEF InJob, Range
      <4>4. \A k \in Jobs : Runner(k) = w <=> InJob(w, k)
        BY <4>1, SeenNow DEF AllSeen, Seen
      <4> QED BY <4>2, <4>3, <4>4 DEF Pool!Idle
    <3> QED BY <3>1
  <2>4. {k \in Jobs : [i \in Jobs |-> Status(i)][k] = "added"} = {k \in Jobs : Held(k)}
    BY SeenNow DEF AllSeen, Seen
  <2>5. Cardinality({k \in Jobs : Held(k)}) <= Cardinality(ReadySlots)
    BY HeldCount
  <2>6. /\ IsFiniteSet({k \in Jobs : Held(k)}) /\ IsFiniteSet(ReadySlots)
        /\ IsFiniteSet(Workers \ busy)
    <3>1. IsFiniteSet(Jobs)
      BY PoolAssumption, FS_Interval DEF Jobs
    <3> QED BY <3>1, SlotCount, PoolAssumption, FS_Subset DEF ReadySlots
  <2>7. /\ Cardinality({k \in Jobs : Held(k)}) \in Nat /\ Cardinality(ReadySlots) \in Nat
        /\ Cardinality(Workers \ busy) \in Nat
    BY <2>6, FS_CardinalityType
  <2> DEFINE a == Cardinality({k \in Jobs : Held(k)})
             b == Cardinality(ReadySlots)
             c == Cardinality(Workers \ busy)
  <2>8. a < c
    <3>1. a \in Nat /\ b \in Nat /\ c \in Nat /\ a <= b /\ b < c
      BY <2>2, <2>5, <2>7
    <3> HIDE DEF a, b, c
    <3> QED BY <3>1
  <2>9. /\ Cardinality({k \in Jobs : [i \in Jobs |-> Status(i)][k] = "added"}) = a
        /\ Cardinality({w \in Workers : \A k \in Jobs : [i \in Jobs |-> Runner(i)][k] # w}) = c
    BY <2>3, <2>4 DEF Pool!Idle
  <2> HIDE DEF a, b, c
  <2> QED BY <2>8, <2>9, SameCount, Zenon DEF Pool!FreeThread, Pool!Idle
<1>10. Pool!Add(th, j)
  BY <1>7, <1>8, <1>9 DEF Pool!Add
<1> QED BY <1>10

-----------------------------------------------------------------------------
LEMMA InitMaps == Init => Pool!Init
<1> SUFFICES ASSUME Init PROVE Pool!Init
  OBVIOUS
<1>1. \A j \in Jobs : Status(j) = "new" /\ Runner(j) = Nobody /\ Adder(j) = Nobody
  <2>1. \A j \in Jobs : \A th \in Threads : ~InJob(th, j)
    BY DEF Init, InJob, Range
  <2>2. \A j \in Jobs : ~(runs[j] > 0)
    BY DEF Init
  <2>3. \A j \in Jobs : j \notin {tasks[s].job : s \in Slots}
    BY Apart DEF Init, NewSlot
  <2> QED BY <2>1, <2>2, <2>3 DEF Status, Runner, Adder
<1>2. \A th \in Threads : Waits(th) = {}
  BY WaitsIs DEF Init, WaitPlaces
<1> QED BY <1>1, <1>2 DEF Pool!Init

LEMMA StepMaps == RInv /\ RInv' /\ [Next]_vars => [Pool!Next]_(Pool!vars)
<1> SUFFICES ASSUME RInv, RInv', [Next]_vars PROVE Pool!Next \/ UNCHANGED Pool!vars
  OBVIOUS
<1>1. CASE UNCHANGED vars
  BY <1>1, QuietHidden DEF vars, usage
<1>2. ASSUME NEW th \in Threads, Use(th) PROVE Pool!Next \/ UNCHANGED Pool!vars
  <2>1. CASE CallAddTask(th)
    BY <2>1, CallAddTaskHidden
  <2>2. CASE CallWaitForTask(th) \/ CallWaitForAllTasks(th)
    BY <2>2, CallWaitMaps DEF Pool!Next
  <2>3. CASE EndJob(th)
    BY <2>3, EndJobMaps DEF Pool!Next
  <2>4. CASE FillSlot(th)
    BY <2>4, FillSlotMaps DEF Pool!Next
  <2>5. CASE RunHere(th)
    BY <2>5, RunHereMaps DEF Pool!Next
  <2>6. CASE WaitForSlot(th) \/ StayForTask(th) \/ StayForAll(th)
    BY <2>6, PlacesHidden
  <2>7. CASE ReturnFromTask(th) \/ ReturnFromAll(th)
    BY <2>7, ReturnMaps DEF Pool!Next
  <2> QED BY <1>2, <2>1, <2>2, <2>3, <2>4, <2>5, <2>6, <2>7 DEF Use
<1>3. ASSUME NEW w \in Workers, Loop(w) PROVE Pool!Next \/ UNCHANGED Pool!vars
  <2>1. CASE TakeJob(w)
    BY <2>1, TakeJobMaps DEF Pool!Next
  <2>2. CASE ClearSlot(w)
    BY <2>2, ClearSlotHidden
  <2>3. CASE Register(w) \/ CheckDestructing(w) \/ Leave(w) \/ SleepUntilReady(w)
    BY <2>3, PlacesHidden, Apart
  <2> QED BY <1>3, <2>1, <2>2, <2>3 DEF Loop
<1>4. ASSUME NEW c \in Clients, Close(c) PROVE UNCHANGED Pool!vars
  BY <1>4, PlacesHidden, Apart
<1>5. ASSUME NEW th \in Threads, SpuriousWakeup(th) PROVE UNCHANGED Pool!vars
  BY <1>5, PlacesHidden
<1> QED BY <1>1, <1>2, <1>3, <1>4, <1>5 DEF Next, Step

(* The pool of slots, signals and stacks is the one its header promises: a job
   that is added runs once, on a worker that was free or inside its caller, and
   who waits goes on when it is done. *)
THEOREM PoolIsTaskPool == FairSpec => IsTaskPool
<1>1. FairSpec => []RInv
  BY RInvHolds
<1>2. RInv /\ RInv' /\ [Next]_vars => [Pool!Next]_(Pool!vars)
  BY StepMaps
<1>3. Init => Pool!Init
  BY InitMaps
<1> QED BY <1>1, <1>2, <1>3, PTL DEF FairSpec, Spec, IsTaskPool, Pool!Spec

-----------------------------------------------------------------------------
(* Sleeping and leaving workers: only who looks for a job sleeps on
   task_ready_signaler, and nobody leaves before the pool is destructed. *)
Looking ==
  /\ \A w \in ready_signaler : pc[w] = "find" /\ w \notin done_signaler
  /\ \A w \in Workers : pc[w] = "exit" => we_are_destructing

Lookers == {w \in Workers : /\ pc[w] \in {"start", "check", "find"}
                            /\ Awake(w)}

LEMMA LookersCount == IsFiniteSet(Lookers) /\ IsFiniteSet(ReadySlots)
BY PoolAssumption, SlotCount, FS_Subset DEF Lookers, ReadySlots

LEMMA LookersCountNext == IsFiniteSet(Lookers') /\ IsFiniteSet(ReadySlots')
BY PoolAssumption, SlotCount, FS_Subset DEF Lookers, ReadySlots

LEMMA NoReadyLeft == ReadySlots' = {} => EnoughAwake'
<1> SUFFICES ASSUME ReadySlots' = {} PROVE Cardinality(ReadySlots') <= Cardinality(Lookers')
  BY DEF EnoughAwake, Lookers
<1>1. Cardinality(ReadySlots') = 0 /\ Cardinality(Lookers') \in Nat
  BY LookersCountNext, FS_EmptySet, FS_CardinalityType
<1> QED BY <1>1

LEMMA FewerReady ==
  ASSUME EnoughAwake, ReadySlots' \subseteq ReadySlots, Lookers \subseteq Lookers'
  PROVE  EnoughAwake'
<1>1. /\ Cardinality(ReadySlots') <= Cardinality(ReadySlots)
      /\ Cardinality(Lookers) <= Cardinality(Lookers')
  BY LookersCount, LookersCountNext, FS_Subset
<1>2. /\ Cardinality(ReadySlots) \in Nat /\ Cardinality(ReadySlots') \in Nat
      /\ Cardinality(Lookers) \in Nat /\ Cardinality(Lookers') \in Nat
  BY LookersCount, LookersCountNext, FS_CardinalityType
<1>3. Cardinality(ReadySlots) <= Cardinality(Lookers)
  BY DEF EnoughAwake, Lookers
<1>4. Cardinality(ReadySlots') <= Cardinality(Lookers')
  BY <1>1, <1>2, <1>3
<1> QED BY <1>4 DEF EnoughAwake, Lookers

(* Every thread at work when the pool is not being destructed. *)
LEMMA InUse ==
  ASSUME RInv, NEW th \in Threads, pc[th] = "add_task"
  PROVE  ~we_are_destructing
<1> USE DEF RInv, IInv, Core
<1>1. CASE th \in Clients
  BY <1>1 DEF Closing, ClosedPlaces
<1>2. CASE th \in Workers
  <2>1. InLoop(th)
    BY <1>2 DEF Control, InLoopPlaces, InLoop
  <2>2. idx[th] \in Slots /\ ~is_empty(idx[th])
    BY <1>2, <2>1 DEF SlotsOwned, SlotsFilled
  <2> QED BY <2>2 DEF Closing
<1> QED BY <1>1, <1>2 DEF Threads

LEMMA LookingInit == Init => Looking /\ EnoughAwake
<1> SUFFICES ASSUME Init PROVE Looking /\ EnoughAwake
  OBVIOUS
<1>1. Looking
  BY DEF Init, Looking, Threads
<1>2. ReadySlots = {}
  BY DEF Init, ReadySlots, is_ready, is_empty, NewSlot
<1>3. Cardinality(ReadySlots) = 0 /\ Cardinality(Lookers) \in Nat
  BY <1>2, LookersCount, FS_EmptySet, FS_CardinalityType
<1> QED BY <1>1, <1>3 DEF EnoughAwake, Lookers

(* A user's step takes nobody from his search for a job. *)
LEMMA UserSteps ==
  ASSUME RInv, Looking, EnoughAwake, NEW th \in Threads,
         \/ CallAddTask(th) \/ CallWaitForTask(th) \/ CallWaitForAllTasks(th)
         \/ EndJob(th) \/ RunHere(th) \/ WaitForSlot(th)
         \/ StayForTask(th) \/ ReturnFromTask(th) \/ StayForAll(th) \/ ReturnFromAll(th)
  PROVE  Looking' /\ EnoughAwake'
<1>1. /\ pc[th] \in UserPlaces /\ Awake(th) /\ UNCHANGED <<tasks, we_are_destructing>>
      /\ UNCHANGED ready_signaler /\ done_signaler' \subseteq done_signaler \cup {th}
  BY DEF CallAddTask, CallWaitForTask, CallWaitForAllTasks, EndJob, RunHere, WaitForSlot,
     StayForTask, ReturnFromTask, StayForAll, ReturnFromAll, OnlyGoto, SleepUntilDone,
     At, UserPlaces, signalers, Goto
<1>2. PICK place \in UserPlaces \cup {"clear"} : pc' = [pc EXCEPT ![th] = place]
  <2>1. CASE WaitForSlot(th) \/ StayForTask(th) \/ StayForAll(th)
    <3>1. pc' = [pc EXCEPT ![th] = pc[th]]
      BY <2>1 DEF WaitForSlot, StayForTask, StayForAll, SleepUntilDone, RInv, IInv, Core, TypeOK
    <3> QED BY <1>1, <3>1
  <2>2. CASE EndJob(th)
    BY <2>2 DEF EndJob, Goto, UserPlaces
  <2>3. CASE ~(WaitForSlot(th) \/ StayForTask(th) \/ StayForAll(th) \/ EndJob(th))
    BY <2>3 DEF CallAddTask, CallWaitForTask, CallWaitForAllTasks, RunHere, ReturnFromTask,
       ReturnFromAll, OnlyGoto, Goto, UserPlaces
  <2> QED BY <2>1, <2>2, <2>3
<1>3. /\ pc'[th] = place /\ place \notin {"exit", "start", "check", "find"}
      /\ \A v \in Threads \ {th} : pc'[v] = pc[v]
  BY <1>2 DEF RInv, IInv, Core, TypeOK, UserPlaces
<1>4. \A w \in ready_signaler : w \in Threads /\ w # th
  BY <1>1, Apart DEF Awake, RInv, IInv, Core, TypeOK
<1>5. Looking'
  BY <1>1, <1>3, <1>4, Apart DEF Looking
<1>6. ReadySlots' = ReadySlots
  BY <1>1 DEF ReadySlots, is_ready, is_empty
<1>7. th \notin Lookers
  BY <1>1 DEF Lookers, UserPlaces
<1>8. Lookers \subseteq Lookers'
  BY <1>1, <1>3, <1>7, Apart DEF Lookers, Awake
<1> QED BY <1>5, <1>6, <1>8, FewerReady

LEMMA SleepersWake ==
  ASSUME RInv, Looking, EnoughAwake, NEW th \in Threads, SpuriousWakeup(th)
  PROVE  Looking' /\ EnoughAwake'
<1>1. /\ UNCHANGED <<pc, tasks, we_are_destructing>>
      /\ ready_signaler' \subseteq ready_signaler /\ done_signaler' \subseteq done_signaler
  BY DEF SpuriousWakeup
<1>2. Looking'
  BY <1>1 DEF Looking
<1>3. ReadySlots' = ReadySlots
  BY <1>1 DEF ReadySlots, is_ready, is_empty
<1>4. Lookers \subseteq Lookers'
  BY <1>1 DEF Lookers, Awake
<1> QED BY <1>2, <1>3, <1>4, FewerReady

(* Closing steps are clients', and the workers are told to end when no slot is
   filled. *)
LEMMA ClosingSteps ==
  ASSUME RInv, Looking, EnoughAwake, NEW c \in Clients, Close(c)
  PROVE  Looking' /\ EnoughAwake'
<1>1. /\ Awake(c) /\ UNCHANGED tasks
      /\ ready_signaler' \subseteq ready_signaler /\ done_signaler' \subseteq done_signaler \cup {c}
      /\ we_are_destructing => we_are_destructing'
      /\ \A w \in Workers : pc'[w] = pc[w]
  BY Apart DEF Close, EndClient, CallShutdown, StayForPending, Destruct, Join, OnlyGoto,
     SleepUntilDone, UnchangedUse, At, signalers, Goto, RInv, IInv, Core, TypeOK
<1>2. \A w \in ready_signaler : w \in Workers /\ w # c
  BY Apart DEF RInv, IInv, Core, TypeOK
<1>3. Looking'
  BY <1>1, <1>2 DEF Looking
<1>4. ReadySlots' = ReadySlots
  BY <1>1 DEF ReadySlots, is_ready, is_empty
<1>5. Lookers \subseteq Lookers'
  BY <1>1, Apart DEF Lookers, Awake
<1> QED BY <1>3, <1>4, <1>5, FewerReady

(* A signal wakes a worker for the job, unless none sleeps. *)
LEMMA FillSlotWakes ==
  ASSUME RInv, Looking, EnoughAwake, NEW th \in Threads, FillSlot(th)
  PROVE  Looking' /\ EnoughAwake'
<1>1. PICK s \in Slots, j \in Jobs : Fills(th, s, j)
  BY FillSlotFills DEF RInv
<1>2. /\ pc[th] = "add_task" /\ pc'[th] = "run" /\ Awake(th)
      /\ \A v \in Threads \ {th} : pc'[v] = pc[v]
      /\ UNCHANGED <<done_signaler, we_are_destructing>>
      /\ ready_signaler' \subseteq ready_signaler
  BY <1>1 DEF Fills, FillSlot, SignalReady, At, RInv, IInv, Core, TypeOK
<1>3. \A w \in ready_signaler : w \in Threads /\ w # th
  BY <1>2, Apart DEF Awake, RInv, IInv, Core, TypeOK
<1>4. Looking'
  BY <1>2, <1>3, Apart DEF Looking
<1>5. ReadySlots' = ReadySlots \cup {s} /\ s \notin ReadySlots
  BY <1>1 DEF Fills, ReadySlots, is_ready, is_empty
<1>6. Lookers \subseteq Lookers'
  BY <1>2, <1>3, Apart DEF Lookers, Awake
<1>7. /\ Cardinality(ReadySlots') = Cardinality(ReadySlots) + 1
      /\ Cardinality(ReadySlots) \in Nat
      /\ Cardinality(Lookers) \in Nat /\ Cardinality(Lookers') \in Nat
      /\ Cardinality(Lookers) <= Cardinality(Lookers')
      /\ Cardinality(ReadySlots) <= Cardinality(Lookers)
  <2>1. Cardinality(ReadySlots) <= Cardinality(Lookers)
    BY DEF EnoughAwake, Lookers
  <2> QED BY <1>5, <1>6, <2>1, LookersCount, LookersCountNext, FS_AddElement, FS_CardinalityType, FS_Subset
<1>8. CASE ready_signaler = {}
  <2> DEFINE busy == {w \in Workers : InLoop(w)}
  <2>1. Cardinality(ReadySlots) < Cardinality(Workers \ busy)
    BY RoomForJob DEF FillSlot
  <2>2. Workers \ busy \subseteq Lookers
    <3>1. ASSUME NEW w \in Workers, ~InLoop(w) PROVE w \in Lookers
      <4>1. pc[w] \in {"start", "check", "find", "exit"}
        BY <3>1 DEF InLoop, InLoopPlaces, RInv, IInv, Core, Control
      <4>2. pc[w] # "exit"
        BY <1>2, InUse DEF Looking
      <4>3. w \notin done_signaler
        BY <4>1 DEF RInv, IInv, SleepersWaitRightly
      <4> QED BY <1>8, <4>1, <4>2, <4>3 DEF Lookers, Awake
    <3> QED BY <3>1
  <2>3. Cardinality(Workers \ busy) <= Cardinality(Lookers) /\ Cardinality(Workers \ busy) \in Nat
    BY <2>2, LookersCount, FS_Subset, FS_CardinalityType
  <2> HIDE DEF busy
  <2>4. Cardinality(ReadySlots') <= Cardinality(Lookers')
    BY <1>7, <2>1, <2>3
  <2> QED BY <1>4, <2>4 DEF EnoughAwake, Lookers
<1>9. CASE ready_signaler # {}
  <2>1. PICK w \in ready_signaler : ready_signaler' = ready_signaler \ {w}
    BY <1>9 DEF FillSlot, SignalReady
  <2>2. w \in Workers /\ w \notin Lookers
    BY DEF Lookers, Awake, RInv, IInv, Core, TypeOK
  <2>3. w \in Lookers'
    <3>1. pc'[w] = "find" /\ w \notin done_signaler
      BY <1>2, <1>3, Apart DEF Looking
    <3> QED BY <1>2, <2>1, <2>2, <3>1 DEF Lookers, Awake
  <2>4. Cardinality(Lookers \cup {w}) = Cardinality(Lookers) + 1
    BY <2>2, LookersCount, FS_AddElement
  <2>5. Cardinality(Lookers \cup {w}) <= Cardinality(Lookers')
    BY <1>6, <2>3, LookersCountNext, FS_Subset
  <2>6. Cardinality(ReadySlots') <= Cardinality(Lookers')
    BY <1>7, <2>4, <2>5
  <2> QED BY <1>4, <2>6 DEF EnoughAwake, Lookers
<1> QED BY <1>8, <1>9

(* A worker gives up its search with a job, or when there is none. *)
LEMMA SearchSteps ==
  ASSUME RInv, Looking, EnoughAwake, NEW w \in Workers,
         Register(w) \/ CheckDestructing(w) \/ SleepUntilReady(w) \/ Leave(w)
  PROVE  Looking' /\ EnoughAwake'
<1>1. /\ w \in Threads /\ Awake(w) /\ pc[w] \in {"start", "check", "find"}
      /\ UNCHANGED <<tasks, done_signaler, we_are_destructing>>
      /\ \A v \in Threads \ {w} : pc'[v] = pc[v]
  BY Apart DEF Register, CheckDestructing, SleepUntilReady, Leave, OnlyGoto, At, Goto,
     signalers, RInv, IInv, Core, TypeOK
<1>2. \A v \in ready_signaler : v \in Threads /\ v # w
  BY <1>1, Apart DEF Awake, RInv, IInv, Core, TypeOK
<1>3. ReadySlots' = ReadySlots
  BY <1>1 DEF ReadySlots, is_ready, is_empty
<1>4. CASE we_are_destructing /\ (CheckDestructing(w) \/ Leave(w))
  <2>1. UNCHANGED ready_signaler
    BY <1>4 DEF CheckDestructing, Leave, OnlyGoto, signalers
  <2>2. Looking'
    BY <1>1, <1>2, <1>4, <2>1, Apart DEF Looking
  <2>3. ReadySlots = {}
    BY <1>4 DEF ReadySlots, is_ready, RInv, IInv, Core, Closing
  <2> QED BY <1>3, <2>2, <2>3, NoReadyLeft
<1>5. CASE Register(w) \/ (CheckDestructing(w) /\ ~we_are_destructing)
  <2>1. pc'[w] \in {"check", "find"} /\ UNCHANGED ready_signaler
    BY <1>1, <1>5 DEF Register, CheckDestructing, OnlyGoto, Goto, signalers, RInv, IInv, Core, TypeOK
  <2>2. Looking'
    BY <1>1, <1>2, <2>1, Apart DEF Looking
  <2>3. Lookers \subseteq Lookers'
    BY <1>1, <2>1, Apart DEF Lookers, Awake
  <2> QED BY <1>3, <2>2, <2>3, FewerReady
<1>6. CASE SleepUntilReady(w)
  <2>1. /\ UNCHANGED pc /\ pc[w] = "find" /\ ready_signaler' = ready_signaler \cup {w}
        /\ ReadySlots = {}
    BY <1>6 DEF SleepUntilReady, At
  <2>2. Looking'
    BY <1>1, <2>1 DEF Looking, Awake
  <2> QED BY <1>3, <2>1, <2>2, NoReadyLeft
<1> QED BY <1>4, <1>5, <1>6 DEF Leave

LEMMA TakeJobLooks ==
  ASSUME RInv, Looking, EnoughAwake, NEW w \in Workers, TakeJob(w)
  PROVE  Looking' /\ EnoughAwake'
<1>1. PICK s \in Slots : s = Min(ReadySlots) /\ s \in ReadySlots
  <2>1. ReadySlots \subseteq Nat /\ ReadySlots # {}
    BY SlotNumbers DEF TakeJob, ReadySlots
  <2> QED BY <2>1, SmallestNat DEF ReadySlots
<1>2. /\ w \in Threads /\ Awake(w) /\ pc[w] = "find" /\ pc'[w] = "run"
      /\ \A v \in Threads \ {w} : pc'[v] = pc[v]
      /\ tasks' = [tasks EXCEPT ![s].is_being_processed = TRUE]
      /\ UNCHANGED <<ready_signaler, done_signaler, we_are_destructing>>
  BY <1>1, Apart DEF TakeJob, At, Goto, signalers, RInv, IInv, Core, TypeOK
<1>3. \A v \in ready_signaler : v \in Threads /\ v # w
  BY <1>2, Apart DEF Awake, RInv, IInv, Core, TypeOK
<1>4. Looking'
  BY <1>2, <1>3, Apart DEF Looking
<1>5. ReadySlots' = ReadySlots \ {s}
  <2>1. \A t \in Slots \ {s} : tasks'[t] = tasks[t]
    BY <1>2 DEF RInv, IInv, Core, TypeOK
  <2>2. tasks'[s].is_being_processed
    BY <1>2 DEF RInv, IInv, Core, TypeOK, Slot
  <2> QED BY <2>1, <2>2 DEF ReadySlots, is_ready, is_empty
<1>6. w \in Lookers /\ Lookers' = Lookers \ {w}
  BY <1>2, Apart DEF Lookers, Awake
<1>7. /\ Cardinality(ReadySlots') = Cardinality(ReadySlots) - 1
      /\ Cardinality(Lookers') = Cardinality(Lookers) - 1
      /\ Cardinality(ReadySlots) \in Nat /\ Cardinality(Lookers) \in Nat
  BY <1>1, <1>5, <1>6, LookersCount, FS_RemoveElement, FS_CardinalityType
<1>8. Cardinality(ReadySlots) <= Cardinality(Lookers)
  BY DEF EnoughAwake, Lookers
<1>9. Cardinality(ReadySlots') <= Cardinality(Lookers')
  BY <1>7, <1>8
<1> QED BY <1>4, <1>9 DEF EnoughAwake, Lookers

LEMMA ClearSlotLooks ==
  ASSUME RInv, Looking, EnoughAwake, NEW w \in Workers, ClearSlot(w)
  PROVE  Looking' /\ EnoughAwake'
<1>1. PICK s \in Slots : s = idx[w]
  BY DEF ClearSlot, At, InLoop, RInv, IInv, Core, SlotsOwned
<1>2. /\ w \in Threads /\ Awake(w) /\ pc[w] = "clear" /\ pc'[w] = "check"
      /\ \A v \in Threads \ {w} : pc'[v] = pc[v]
      /\ tasks' = [tasks EXCEPT ![s] = [@ EXCEPT !.task_id = 0, !.job = Nobody,
                                                 !.is_being_processed = FALSE]]
      /\ UNCHANGED <<ready_signaler, we_are_destructing>> /\ done_signaler' = {}
  BY <1>1, Apart DEF ClearSlot, At, Goto, BroadcastDone, UnchangedUse, RInv, IInv, Core, TypeOK
<1>3. \A v \in ready_signaler : v \in Threads /\ v # w
  BY <1>2, Apart DEF Awake, RInv, IInv, Core, TypeOK
<1>4. Looking'
  BY <1>2, <1>3, Apart DEF Looking
<1>5. ReadySlots' \subseteq ReadySlots
  <2>1. \A t \in Slots \ {s} : tasks'[t] = tasks[t]
    BY <1>2 DEF RInv, IInv, Core, TypeOK
  <2>2. tasks'[s].task_id = 0
    BY <1>2 DEF RInv, IInv, Core, TypeOK, Slot
  <2> QED BY <2>1, <2>2 DEF ReadySlots, is_ready, is_empty
<1>6. Lookers \subseteq Lookers'
  BY <1>2, Apart DEF Lookers, Awake
<1> QED BY <1>4, <1>5, <1>6, FewerReady

LEMMA LookingNext ==
  RInv /\ Looking /\ EnoughAwake /\ [Next]_vars => Looking' /\ EnoughAwake'
<1> SUFFICES ASSUME RInv, Looking, EnoughAwake, [Next]_vars
             PROVE  Looking' /\ EnoughAwake'
  OBVIOUS
<1>1. CASE UNCHANGED vars
  <2>1. Looking'
    BY <1>1 DEF vars, signalers, Looking
  <2>2. ReadySlots' = ReadySlots /\ Lookers' = Lookers
    BY <1>1 DEF vars, signalers, ReadySlots, is_ready, is_empty, Lookers, Awake
  <2> QED BY <2>1, <2>2, FewerReady
<1>2. ASSUME NEW th \in Threads, Use(th) PROVE Looking' /\ EnoughAwake'
  BY <1>2, UserSteps, FillSlotWakes DEF Use
<1>3. ASSUME NEW w \in Workers, Loop(w) PROVE Looking' /\ EnoughAwake'
  BY <1>3, SearchSteps, TakeJobLooks, ClearSlotLooks DEF Loop
<1> QED BY <1>1, <1>2, <1>3, ClosingSteps, SleepersWake DEF Next, Step

(* One signal for each job leaves no job lying while every worker sleeps. *)
THEOREM SignalsSuffice == FairSpec => []EnoughAwake
<1>1. FairSpec => []RInv
  BY RInvHolds
<1> QED BY <1>1, LookingInit, LookingNext, PTL DEF FairSpec, Spec
================================================================================
