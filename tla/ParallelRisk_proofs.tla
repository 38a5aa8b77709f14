------------------------ MODULE ParallelRisk_proofs ------------------------
(***************************************************************************)
(* A round of oracle calls for any number of workers and samples, any size *)
(* of blocks and both ways of adding up: no sample is asked for by two     *)
(* threads (OneCallerPerSample), and all are counted once (EverySampleOnce)*)
(***************************************************************************)
EXTENDS ParallelRisk, FiniteSetTheorems, TLAPS

NumAssumption == num \in 1..MaxSamples
Mine(b) == Begin(b)..(End(b) - 1)

-----------------------------------------------------------------------------
(* Arithmetic of the blocks. *)
LEMMA BlockSize == NumAssumption => block_size \in Nat \ {0}
<1> SUFFICES ASSUME NumAssumption PROVE block_size \in Nat \ {0}
  OBVIOUS
<1> DEFINE W == Cardinality(Workers)
           q == num \div (W * ChunksPerThread)
<1>1. W \in Nat /\ W # 0
  BY ParallelAssumption, FS_CardinalityType, FS_EmptySet
<1>2. W * ChunksPerThread \in Nat \ {0}
  <2>1. W \in Nat \ {0} /\ ChunksPerThread \in Nat \ {0}
    BY <1>1, ParallelAssumption
  <2> HIDE DEF W
  <2> QED BY <2>1, SMTT(30)
<1>3. q \in Int
  <2>1. num \in Nat
    BY ParallelAssumption DEF NumAssumption
  <2> DEFINE d == W * ChunksPerThread
  <2>2. d \in Nat \ {0}
    BY <1>2
  <2> HIDE DEF d
  <2>3. num \div d \in Int
    BY <2>1, <2>2
  <2> QED BY <2>3 DEF d
<1>4. block_size = Max({1, q})
  BY DEF block_size
<1> HIDE DEF q
<1>5. \E x \in {1, q} : \A y \in {1, q} : x >= y
  BY <1>3
<1>6. block_size \in {1, q} /\ \A y \in {1, q} : block_size >= y
  BY <1>4, <1>5 DEF Max
<1> QED BY <1>3, <1>6

LEMMA BlockEnd ==
  ASSUME NumAssumption, NEW b \in Blocks
  PROVE  /\ Begin(b) \in Nat /\ End(b) \in Nat
         /\ End(b) <= num /\ End(b) <= b * block_size
         /\ b * block_size \in Nat
         /\ b \in BlocksNeeded => Begin(b) < End(b)
         /\ \A s \in Nat : s < num /\ s < b * block_size => s < End(b)
<1>1. block_size \in Nat \ {0} /\ num \in Nat \ {0} /\ b \in Nat \ {0}
  BY BlockSize, ParallelAssumption DEF NumAssumption, Blocks
<1> DEFINE e == b * block_size
<1>2. e \in Nat /\ (b - 1) * block_size \in Nat /\ (b - 1) * block_size < e
  BY <1>1, SMTT(30)
<1> HIDE DEF e
<1>3. \E x \in {e, num} : \A y \in {e, num} : x <= y
  BY <1>1, <1>2
<1>4. End(b) \in {e, num} /\ \A y \in {e, num} : End(b) <= y
  BY <1>3 DEF End, Min, e
<1>5. /\ Begin(b) \in Nat /\ Begin(b) < e
      /\ b \in BlocksNeeded => Begin(b) < num
  BY <1>2 DEF Begin, BlocksNeeded
<1>6. End(b) \in Nat /\ End(b) <= num /\ End(b) <= e
  BY <1>1, <1>2, <1>4
<1>7. b \in BlocksNeeded => Begin(b) < End(b)
  BY <1>4, <1>5
<1>8. \A s \in Nat : s < num /\ s < e => s < End(b)
  BY <1>4
<1> QED BY <1>2, <1>5, <1>6, <1>7, <1>8 DEF e

(* No two blocks have a sample in common ... *)
LEMMA Disjoint ==
  ASSUME NumAssumption, NEW b \in Blocks, NEW c \in Blocks, b # c
  PROVE  Mine(b) \cap Mine(c) = {}
<1>0. block_size \in Nat \ {0}
  BY BlockSize
<1>1. ASSUME NEW k \in Blocks, NEW l \in Blocks, k < l PROVE End(k) <= Begin(l)
  <2>1. k \in Nat \ {0} /\ l \in Nat \ {0} /\ k <= l - 1
    BY <1>1, ParallelAssumption DEF Blocks
  <2>2. k * block_size <= (l - 1) * block_size
    BY <1>0, <2>1, SMTT(30)
  <2>3. End(k) <= k * block_size /\ End(k) \in Nat /\ k * block_size \in Nat
        /\ Begin(l) \in Nat
    BY BlockEnd
  <2> QED BY <2>2, <2>3 DEF Begin
<1>2. b < c \/ c < b
  BY ParallelAssumption DEF Blocks
<1>3. Begin(b) \in Nat /\ End(b) \in Nat /\ Begin(c) \in Nat /\ End(c) \in Nat
  BY BlockEnd
<1> QED BY <1>1, <1>2, <1>3 DEF Mine

(* ... and each sample is in one of them. *)
LEMMA Covered ==
  ASSUME NumAssumption, NEW s \in Nat, s < num
  PROVE  \E b \in BlocksNeeded : s \in Mine(b)
<1> DEFINE z == block_size
           b == (s \div z) + 1
<1>1. z \in Nat \ {0}
  BY BlockSize
<1>2. s \div z \in Nat /\ s \div z <= s /\ (s \div z) * z <= s
      /\ s < ((s \div z) + 1) * z
  <2> HIDE DEF z
  <2>1. s \div z \in Int /\ s % z \in 0..(z - 1) /\ s = z * (s \div z) + (s % z)
    BY <1>1
  <2> DEFINE r == s \div z
             m == s % z
  <2>2. r \in Int /\ m \in 0..(z - 1) /\ s = z * r + m
    BY <2>1
  <2> HIDE DEF r, m
  <2>3. r >= 0
    BY <1>1, <2>2, SMTT(30)
  <2>4. r * z = z * r /\ (r + 1) * z = z * r + z /\ z * r \in Int /\ r <= z * r
    BY <1>1, <2>2, <2>3, SMTT(30)
  <2>5. r \in Nat /\ r <= s /\ r * z <= s /\ s < (r + 1) * z
    BY <1>1, <2>2, <2>3, <2>4
  <2> QED BY <2>5 DEF r
<1>3. b \in Blocks
  BY <1>2, ParallelAssumption DEF Blocks, NumAssumption
<1>4. b - 1 = s \div z
  BY <1>2
<1>5. Begin(b) <= s
  BY <1>2, <1>4 DEF Begin
<1>6. b \in BlocksNeeded
  BY <1>3, <1>5, BlockEnd, ParallelAssumption DEF BlocksNeeded, NumAssumption
<1>7. s < End(b)
  BY <1>2, <1>3, BlockEnd
<1>8. s \in Mine(b)
  BY <1>3, <1>5, <1>7, BlockEnd DEF Mine
<1> QED BY <1>6, <1>8
-----------------------------------------------------------------------------
(* Who runs which block, and how far he is in it. *)
Shape ==
  /\ NumAssumption
  /\ status \in [Blocks -> {"new", "added", "running", "done"}]
  /\ runner \in [Blocks -> Workers \cup {Nobody}]
  /\ step \in [Workers -> {"idle", "oracle", "lock", "add", "end"}]
  /\ at \in [Workers -> Nat]
  /\ \A b \in Blocks : status[b] = "running" <=> runner[b] \in Workers
  /\ \A b, c \in Blocks : runner[b] \in Workers /\ runner[b] = runner[c] => b = c
  /\ \A b \in Blocks : runner[b] \in Workers =>
       b \in BlocksNeeded /\ step[runner[b]] # "idle"
  /\ \A th \in Workers : step[th] # "idle" => \E b \in Blocks : runner[b] = th

Progress ==
  \A b \in Blocks : \A th \in Workers : runner[b] = th =>
    /\ Begin(b) <= at[th] /\ at[th] <= End(b)
    /\ step[th] = "oracle" => at[th] < End(b)
    /\ step[th] \in {"lock", "add"} => at[th] = End(b) \/ ~Buffered(b)
    /\ step[th] = "end" => at[th] = End(b)

Position == Shape /\ Progress

(* The division of the samples stays as it is ... *)
LEMMA BlocksStay ==
  ASSUME UNCHANGED <<num, buffer>>
  PROVE  /\ \A b \in Blocks : /\ Begin(b)' = Begin(b) /\ End(b)' = End(b)
                              /\ Mine(b)' = Mine(b) /\ Buffered(b)' = Buffered(b)
         /\ BlocksNeeded' = BlocksNeeded /\ NumAssumption' = NumAssumption
BY DEF Begin, End, Mine, Buffered, BlocksNeeded, block_size, NumAssumption

(* ... and a worker that is not idle has one block. *)
LEMMA OwnBlock ==
  ASSUME Shape, NEW th \in Workers, step[th] # "idle"
  PROVE  /\ Block(th) \in BlocksNeeded /\ Block(th) \in Blocks
         /\ runner[Block(th)] = th
         /\ status[Block(th)] = "running"
         /\ \A c \in Blocks : runner[c] = th => c = Block(th)
<1>1. \E b \in Blocks : runner[b] = th
  BY DEF Shape
<1>2. Block(th) \in Blocks /\ runner[Block(th)] = th
  BY <1>1 DEF Block
<1> QED BY <1>2 DEF Shape

LEMMA PositionInit == Init => Position
<1> SUFFICES ASSUME Init PROVE Position
  OBVIOUS
<1>1. \A b \in Blocks : runner[b] \notin Workers /\ status[b] = "new"
  BY ParallelAssumption DEF Init, Pool!Init, Threads
<1>2. Shape
  BY <1>1 DEF Init, Pool!Init, Shape, NumAssumption
<1>3. Progress
  BY <1>1 DEF Progress
<1> QED BY <1>2, <1>3 DEF Position

LEMMA PositionCaller ==
  Position /\ (AddTask \/ WaitForAllTasks \/ Return) => Position'
<1> SUFFICES ASSUME Position, AddTask \/ WaitForAllTasks \/ Return PROVE Position'
  OBVIOUS
<1>1. UNCHANGED <<num, buffer, step, at>>
  BY DEF AddTask, WaitForAllTasks, Return, work
<1>2. \/ UNCHANGED <<status, runner>>
      \/ \E b \in Blocks : /\ status[b] = "new" /\ status' = [status EXCEPT ![b] = "added"]
                           /\ runner' = [runner EXCEPT ![b] = Nobody]
  <2>1. CASE AddTask
    <3>1. PICK b \in BlocksNeeded : Pool!Add(Caller, b)
      BY <2>1 DEF AddTask
    <3>2. ~Pool!is_task_thread(Caller)
      BY ParallelAssumption DEF Pool!is_task_thread
    <3>3. Pool!Moves(b, "new", "added", Nobody)
      BY <3>1, <3>2 DEF Pool!Add
    <3> QED BY <3>3 DEF Pool!Moves, BlocksNeeded
  <2>2. CASE WaitForAllTasks \/ Return
    BY <2>2 DEF WaitForAllTasks, Return, Pool!Wait, Pool!Return
  <2> QED BY <2>1, <2>2
<1>3. CASE UNCHANGED <<status, runner>>
  BY <1>1, <1>3, BlocksStay DEF Position, Shape, Progress
<1>4. ASSUME NEW b \in Blocks, status[b] = "new",
             status' = [status EXCEPT ![b] = "added"],
             runner' = [runner EXCEPT ![b] = Nobody]
      PROVE  Position'
  <2>1. Nobody \notin Workers /\ runner[b] \notin Workers
    BY <1>4, ParallelAssumption DEF Position, Shape
  <2>2. \A c \in Blocks : /\ runner'[c] \in Workers <=> runner[c] \in Workers
                          /\ runner[c] \in Workers => runner'[c] = runner[c]
    BY <1>4, <2>1 DEF Position, Shape
  <2>3. \A c \in Blocks : status'[c] = "running" <=> status[c] = "running"
    BY <1>4 DEF Position, Shape
  <2>4. Shape'
    <3>1. runner' \in [Blocks -> Workers \cup {Nobody}]
          /\ status' \in [Blocks -> {"new", "added", "running", "done"}]
      BY <1>4 DEF Position, Shape
    <3>2. \A c \in Blocks : status'[c] = "running" <=> runner'[c] \in Workers
      BY <2>2, <2>3 DEF Position, Shape
    <3>3. \A c, d \in Blocks : runner'[c] \in Workers /\ runner'[c] = runner'[d] => c = d
      BY <2>2 DEF Position, Shape
    <3>4. \A c \in Blocks : runner'[c] \in Workers =>
            c \in BlocksNeeded' /\ step'[runner'[c]] # "idle"
      BY <1>1, <2>2, BlocksStay DEF Position, Shape
    <3>5. \A th \in Workers : step'[th] # "idle" => \E c \in Blocks : runner'[c] = th
      BY <1>1, <2>2 DEF Position, Shape
    <3> QED BY <1>1, <3>1, <3>2, <3>3, <3>4, <3>5, BlocksStay DEF Position, Shape
  <2>5. Progress'
    BY <1>1, <2>2, BlocksStay DEF Position, Progress
  <2> QED BY <2>4, <2>5 DEF Position
<1> QED BY <1>2, <1>3, <1>4

LEMMA PositionStart ==
  ASSUME Position, NEW th \in Workers, Start(th) PROVE Position'
<1>1. PICK b \in BlocksNeeded : Pool!Start(th, b) /\ at' = [at EXCEPT ![th] = Begin(b)]
  BY DEF Start
<1>2. /\ b \in Blocks /\ status[b] = "added"
      /\ status' = [status EXCEPT ![b] = "running"]
      /\ runner' = [runner EXCEPT ![b] = th]
      /\ \A c \in Blocks : runner[c] # th
  BY <1>1 DEF Pool!Start, Pool!Moves, Pool!Idle, BlocksNeeded
<1>3. /\ step' = [step EXCEPT ![th] = "oracle"]
      /\ UNCHANGED <<num, buffer>>
  BY DEF Start
<1>4. runner[b] \notin Workers
  BY <1>2 DEF Position, Shape
<1>5. \A c \in Blocks : c # b => runner'[c] = runner[c] /\ status'[c] = status[c]
  BY <1>2 DEF Position, Shape
<1>6. runner'[b] = th /\ status'[b] = "running"
  BY <1>2 DEF Position, Shape
<1>7. \A v \in Workers \ {th} : step'[v] = step[v] /\ at'[v] = at[v]
  BY <1>1, <1>3 DEF Position, Shape
<1>8. step'[th] = "oracle" /\ at'[th] = Begin(b)
  BY <1>1, <1>3 DEF Position, Shape
<1>9. Begin(b) \in Nat /\ Begin(b) < End(b) /\ End(b) \in Nat
  BY <1>1, <1>2, BlockEnd DEF Position, Shape
<1>10. Shape'
  <2>1. /\ runner' \in [Blocks -> Workers \cup {Nobody}]
        /\ status' \in [Blocks -> {"new", "added", "running", "done"}]
        /\ step' \in [Workers -> {"idle", "oracle", "lock", "add", "end"}]
        /\ at' \in [Workers -> Nat]
    BY <1>1, <1>2, <1>3, <1>9 DEF Position, Shape
  <2>2. \A c \in Blocks : status'[c] = "running" <=> runner'[c] \in Workers
    BY <1>5, <1>6 DEF Position, Shape
  <2>3. \A c, d \in Blocks : runner'[c] \in Workers /\ runner'[c] = runner'[d] => c = d
    BY <1>2, <1>5, <1>6 DEF Position, Shape
  <2>4. \A c \in Blocks : runner'[c] \in Workers =>
          c \in BlocksNeeded' /\ step'[runner'[c]] # "idle"
    BY <1>1, <1>3, <1>5, <1>6, <1>7, <1>8, BlocksStay DEF Position, Shape
  <2>5. \A v \in Workers : step'[v] # "idle" => \E c \in Blocks : runner'[c] = v
    <3>1. ASSUME NEW v \in Workers \ {th}, step'[v] # "idle"
          PROVE  \E c \in Blocks : runner'[c] = v
      <4>1. PICK c \in Blocks : runner[c] = v
        BY <1>7, <3>1 DEF Position, Shape
      <4> QED BY <1>4, <1>5, <3>1, <4>1
    <3> QED BY <1>2, <1>6, <3>1
  <2> QED BY <1>3, <2>1, <2>2, <2>3, <2>4, <2>5, BlocksStay DEF Position, Shape
<1>11. Progress'
  <2>1. ASSUME NEW c \in Blocks, NEW v \in Workers, runner'[c] = v, c # b
        PROVE  runner[c] = v /\ v # th
    BY <1>2, <1>5, <2>1
  <2>2. ASSUME NEW c \in Blocks, NEW v \in Workers, runner'[c] = v
        PROVE  /\ Begin(c) <= at'[v] /\ at'[v] <= End(c)
               /\ step'[v] = "oracle" => at'[v] < End(c)
               /\ step'[v] \in {"lock", "add"} => at'[v] = End(c) \/ ~Buffered(c)
               /\ step'[v] = "end" => at'[v] = End(c)
    <3>1. CASE c = b
      BY <1>6, <1>8, <1>9, <2>2, <3>1
    <3>2. CASE c # b
      BY <1>7, <2>1, <2>2, <3>2 DEF Position, Progress
    <3> QED BY <3>1, <3>2
  <2> QED BY <1>3, <2>2, BlocksStay DEF Progress
<1> QED BY <1>10, <1>11 DEF Position

LEMMA PositionInBlock ==
  ASSUME Position, NEW th \in Workers, OracleReturns(th) \/ Lock(th) \/ AddTo(th)
  PROVE  Position'
<1>1. step[th] # "idle"
  BY DEF OracleReturns, Lock, AddTo
<1> DEFINE b == Block(th)
<1>2. /\ b \in Blocks /\ runner[b] = th
      /\ \A c \in Blocks : runner[c] = th => c = b
  BY <1>1, OwnBlock DEF Position
<1> HIDE DEF b
<1>3. UNCHANGED <<num, buffer, status, runner>>
  BY DEF OracleReturns, Lock, AddTo, pool
<1>4. /\ Begin(b) <= at[th] /\ at[th] <= End(b) /\ at[th] \in Nat
      /\ Begin(b) \in Nat /\ End(b) \in Nat
  BY <1>2, BlockEnd DEF Position, Progress, Shape
<1>5. /\ step' = [step EXCEPT ![th] = step'[th]] /\ at' = [at EXCEPT ![th] = at'[th]]
      /\ step'[th] \in {"oracle", "lock", "add", "end"}
      /\ Begin(b) <= at'[th] /\ at'[th] <= End(b) /\ at'[th] \in Nat
      /\ step'[th] = "oracle" => at'[th] < End(b)
      /\ step'[th] \in {"lock", "add"} => at'[th] = End(b) \/ ~Buffered(b)
      /\ step'[th] = "end" => at'[th] = End(b)
  <2>1. CASE OracleReturns(th)
    <3>1. at[th] < End(b) /\ at' = [at EXCEPT ![th] = @ + 1]
          /\ step' = [step EXCEPT ![th] =
               IF Buffered(b) /\ at[th] + 1 < End(b) THEN "oracle" ELSE "lock"]
      BY <1>2, <2>1 DEF OracleReturns, b, Position, Progress
    <3> QED BY <1>4, <3>1 DEF Position, Shape
  <2>2. CASE Lock(th)
    <3>1. step[th] = "lock" /\ at' = at /\ step' = [step EXCEPT ![th] = "add"]
      BY <2>2 DEF Lock
    <3> QED BY <1>2, <1>4, <3>1 DEF Position, Shape, Progress
  <2>3. CASE AddTo(th)
    <3>1. step[th] = "add" /\ at' = at
          /\ step' = [step EXCEPT ![th] = IF at[th] < End(b) THEN "oracle" ELSE "end"]
      BY <2>3 DEF AddTo, b
    <3> QED BY <1>2, <1>4, <3>1 DEF Position, Shape, Progress
  <2> QED BY <2>1, <2>2, <2>3
<1>6. \A v \in Workers \ {th} : step'[v] = step[v] /\ at'[v] = at[v]
  BY <1>5 DEF Position, Shape
<1>7. Shape'
  BY <1>2, <1>3, <1>5, <1>6, BlocksStay DEF Position, Shape
<1>8. Progress'
  BY <1>2, <1>3, <1>5, <1>6, BlocksStay DEF Position, Progress
<1> QED BY <1>7, <1>8 DEF Position

LEMMA PositionFinish ==
  ASSUME Position, NEW th \in Workers, Finish(th) PROVE Position'
<1>1. step[th] # "idle"
  BY DEF Finish
<1> DEFINE b == Block(th)
<1>2. /\ b \in Blocks /\ runner[b] = th /\ status[b] = "running"
      /\ \A c \in Blocks : runner[c] = th => c = b
  BY <1>1, OwnBlock DEF Position
<1>3. /\ status' = [status EXCEPT ![b] = "done"]
      /\ runner' = [runner EXCEPT ![b] = Nobody]
      /\ step' = [step EXCEPT ![th] = "idle"]
      /\ UNCHANGED <<num, buffer, at>>
  BY DEF Finish, Pool!Finish, Pool!Moves
<1> HIDE DEF b
<1>4. Nobody \notin Workers
  BY ParallelAssumption
<1>5. /\ \A c \in Blocks \ {b} : runner'[c] = runner[c] /\ status'[c] = status[c]
      /\ runner'[b] = Nobody /\ status'[b] = "done"
      /\ \A v \in Workers \ {th} : step'[v] = step[v]
      /\ step'[th] = "idle"
  BY <1>2, <1>3 DEF Position, Shape
<1>6. Shape'
  <2>1. /\ runner' \in [Blocks -> Workers \cup {Nobody}]
        /\ status' \in [Blocks -> {"new", "added", "running", "done"}]
        /\ step' \in [Workers -> {"idle", "oracle", "lock", "add", "end"}]
    BY <1>3 DEF Position, Shape
  <2>2. \A c \in Blocks : status'[c] = "running" <=> runner'[c] \in Workers
    BY <1>4, <1>5 DEF Position, Shape
  <2>3. \A c, d \in Blocks : runner'[c] \in Workers /\ runner'[c] = runner'[d] => c = d
    BY <1>4, <1>5 DEF Position, Shape
  <2>4. \A c \in Blocks : runner'[c] \in Workers =>
          c \in BlocksNeeded' /\ step'[runner'[c]] # "idle"
    BY <1>2, <1>3, <1>4, <1>5, BlocksStay DEF Position, Shape
  <2>5. \A v \in Workers : step'[v] # "idle" => \E c \in Blocks : runner'[c] = v
    BY <1>2, <1>5 DEF Position, Shape
  <2> QED BY <1>3, <2>1, <2>2, <2>3, <2>4, <2>5, BlocksStay DEF Position, Shape
<1>7. Progress'
  BY <1>2, <1>3, <1>4, <1>5, BlocksStay DEF Position, Progress
<1> QED BY <1>6, <1>7 DEF Position

LEMMA PositionNext == Position /\ [Next]_vars => Position'
<1>1. ASSUME Position, UNCHANGED vars PROVE Position'
  BY <1>1, BlocksStay DEF vars, pool, work, Position, Shape, Progress
<1> QED BY <1>1, PositionCaller, PositionStart, PositionInBlock, PositionFinish
        DEF Next, Work

(* No cache of the separation oracle is ever used by two threads. *)
THEOREM OracleCallsApart == FairSpec => []OneCallerPerSample
<1>1. ASSUME Position PROVE OneCallerPerSample
  <2>1. ASSUME NEW th \in Workers, step[th] = "oracle"
        PROVE  at[th] \in Mine(Block(th)) /\ at[th] < num
    <3>1. Block(th) \in Blocks /\ runner[Block(th)] = th
      BY <1>1, <2>1, OwnBlock DEF Position
    <3> QED BY <1>1, <2>1, <3>1, BlockEnd, ParallelAssumption
            DEF Position, Shape, Progress, Mine, NumAssumption
  <2>2. ASSUME NEW th \in Workers, NEW other \in Workers \ {th},
               step[th] = "oracle", step[other] = "oracle"
        PROVE  at[other] # at[th]
    <3>1. /\ Block(th) \in Blocks /\ runner[Block(th)] = th
          /\ Block(other) \in Blocks /\ runner[Block(other)] = other
      BY <1>1, <2>2, OwnBlock DEF Position
    <3>2. Mine(Block(th)) \cap Mine(Block(other)) = {}
      BY <1>1, <2>2, <3>1, Disjoint DEF Position, Shape
    <3> QED BY <2>1, <2>2, <3>2
  <2> QED BY <2>1, <2>2 DEF OneCallerPerSample
<1> QED BY PositionInit, PositionNext, <1>1, PTL DEF FairSpec
-----------------------------------------------------------------------------
(* What a worker has counted and not yet added to the sum. *)
Pending(b, th, s) ==
  IF \/ step[th] \in {"lock", "add"}
     \/ step[th] = "oracle" /\ Buffered(b)
    THEN faccum[th][s] ELSE 0

(* A sample is in the sum once its block is done; while a worker is in its
   block, it is in the sum or pending when the worker has passed it, and
   nowhere before. *)
SumsTyped ==
  /\ sum \in [Samples -> Int]
  /\ faccum \in [Workers -> [Samples -> Int]]
  /\ seen \in [Workers -> [Samples -> Int]]
SumOfBlocks ==
  \A b \in Blocks : \A s \in Samples : s \in Mine(b) =>
    /\ status[b] \in {"new", "added"} => sum[s] = 0
    /\ status[b] = "done" => sum[s] = 1
SumOfWorkers ==
  \A b \in Blocks : \A th \in Workers : \A s \in Samples : runner[b] = th =>
    /\ s \in Mine(b) => sum[s] + Pending(b, th, s) = IF s < at[th] THEN 1 ELSE 0
    /\ s \notin Mine(b) => Pending(b, th, s) = 0
NoOthers == \A s \in Samples : s >= num => sum[s] = 0
SumIsSeen ==
  \A th \in Workers : step[th] = "add" => accum_mutex = th /\ seen[th] = sum
CallerWaits ==
  /\ waits \in [Threads -> SUBSET Blocks]
  /\ waits[Caller] \in {{}, BlocksNeeded}
  /\ call = "done" => \A b \in BlocksNeeded : status[b] = "done"

Counted ==
  /\ SumsTyped /\ SumOfBlocks /\ SumOfWorkers /\ NoOthers /\ SumIsSeen
  /\ CallerWaits

LEMMA CountedInit == Init => Counted
<1> SUFFICES ASSUME Init PROVE Counted
  OBVIOUS
<1>1. \A b \in Blocks : runner[b] \notin Workers /\ status[b] = "new"
  BY ParallelAssumption DEF Init, Pool!Init, Threads
<1>2. sum \in [Samples -> Int] /\ \A s \in Samples : sum[s] = 0
  BY DEF Init, None
<1>3. SumsTyped
  BY <1>2 DEF Init, None, SumsTyped
<1>4. SumOfBlocks /\ SumOfWorkers /\ NoOthers
  BY <1>1, <1>2 DEF SumOfBlocks, SumOfWorkers, NoOthers
<1>5. SumIsSeen
  BY DEF Init, SumIsSeen
<1>6. CallerWaits
  BY DEF Init, Pool!Init, CallerWaits, Threads
<1> QED BY <1>3, <1>4, <1>5, <1>6 DEF Counted

LEMMA WaitStep ==
  ASSUME Pool!Wait(Caller)
  PROVE  /\ UNCHANGED <<status, runner, adder>>
         /\ waits \in [Threads -> SUBSET Blocks] =>
              waits' \in [Threads -> SUBSET Blocks]
<1> DEFINE added == {j \in Blocks : adder[j] = Caller /\ runner[j] # Caller}
<1>1. \E S \in {{j} : j \in added} \cup {added} : waits' = [waits EXCEPT ![Caller] = S]
  BY Zenon DEF Pool!Wait
<1>2. \A S \in {{j} : j \in added} \cup {added} : S \in SUBSET Blocks
  <2>1. added \subseteq Blocks
    OBVIOUS
  <2> HIDE DEF added
  <2> QED BY <2>1, Zenon
<1>3. PICK S \in SUBSET Blocks : waits' = [waits EXCEPT ![Caller] = S]
  <2> HIDE DEF added
  <2> QED BY <1>1, <1>2
<1>4. UNCHANGED <<status, runner, adder>>
  BY Zenon DEF Pool!Wait
<1> QED BY <1>3, <1>4

LEMMA CountedCaller ==
  ASSUME Position, Counted, AddTask \/ WaitForAllTasks \/ Return
  PROVE  Counted'
<1>1. UNCHANGED <<num, buffer, work>>
  BY DEF AddTask, WaitForAllTasks, Return
<1>2. \A b \in Blocks :
        status'[b] = status[b] \/ (status[b] = "new" /\ status'[b] = "added")
  <2>1. CASE AddTask
    <3>1. PICK b \in BlocksNeeded : Pool!Add(Caller, b)
      BY <2>1 DEF AddTask
    <3>2. ~Pool!is_task_thread(Caller)
      BY ParallelAssumption DEF Pool!is_task_thread
    <3>3. Pool!Moves(b, "new", "added", Nobody)
      BY <3>1, <3>2 DEF Pool!Add
    <3> QED BY <3>3 DEF Pool!Moves, BlocksNeeded, Position, Shape
  <2>2. CASE WaitForAllTasks \/ Return
    <3>1. UNCHANGED <<status, runner>>
      BY <2>2, WaitStep DEF WaitForAllTasks, Return, Pool!Return
    <3> QED BY <3>1
  <2> QED BY <2>1, <2>2
<1>3. \A b \in Blocks : \A th \in Workers : runner'[b] = th => runner[b] = th
  <2>1. CASE AddTask
    <3>1. PICK b \in BlocksNeeded : Pool!Add(Caller, b)
      BY <2>1 DEF AddTask
    <3>2. ~Pool!is_task_thread(Caller)
      BY ParallelAssumption DEF Pool!is_task_thread
    <3>3. Pool!Moves(b, "new", "added", Nobody)
      BY <3>1, <3>2 DEF Pool!Add
    <3> QED BY <3>3, ParallelAssumption DEF Pool!Moves, BlocksNeeded, Position, Shape
  <2>2. CASE WaitForAllTasks \/ Return
    <3>1. UNCHANGED <<status, runner>>
      BY <2>2, WaitStep DEF WaitForAllTasks, Return, Pool!Return
    <3> QED BY <3>1
  <2> QED BY <2>1, <2>2
<1>4. SumsTyped' /\ NoOthers' /\ SumIsSeen'
  BY <1>1 DEF Counted, SumsTyped, NoOthers, SumIsSeen, work
<1>5. SumOfBlocks'
  BY <1>1, <1>2, BlocksStay DEF Counted, SumOfBlocks, work
<1>6. SumOfWorkers'
  BY <1>1, <1>3, BlocksStay DEF Counted, SumOfWorkers, Pending, work
<1>7. CallerWaits'
  <2>1. CASE AddTask
    <3>1. UNCHANGED waits /\ call' # "done"
      BY <2>1 DEF AddTask, Pool!Add
    <3> QED BY <1>1, <3>1, BlocksStay DEF Counted, CallerWaits
  <2>2. CASE WaitForAllTasks
    <3>1. /\ waits' \in [Threads -> SUBSET Blocks]
          /\ waits'[Caller] = BlocksNeeded
          /\ UNCHANGED <<status, call>>
          /\ call # "done"
      BY <2>2, WaitStep DEF WaitForAllTasks, Counted, CallerWaits
    <3> QED BY <1>1, <3>1, BlocksStay DEF CallerWaits
  <2>3. CASE Return
    <3>1. /\ waits[Caller] # {} /\ \A b \in waits[Caller] : status[b] = "done"
          /\ waits' = [waits EXCEPT ![Caller] = {}]
          /\ UNCHANGED status
      BY <2>3 DEF Return, Pool!Return
    <3>2. \A b \in BlocksNeeded : status[b] = "done"
      BY <3>1 DEF Counted, CallerWaits
    <3> QED BY <1>1, <3>1, <3>2, BlocksStay DEF Counted, CallerWaits, Threads
  <2> QED BY <2>1, <2>2, <2>3
<1> QED BY <1>4, <1>5, <1>6, <1>7 DEF Counted

LEMMA CountedStart ==
  ASSUME Position, Counted, NEW th \in Workers, Start(th) PROVE Counted'
<1>1. PICK b \in BlocksNeeded : Pool!Start(th, b) /\ at' = [at EXCEPT ![th] = Begin(b)]
  BY DEF Start
<1>2. /\ b \in Blocks /\ status[b] = "added"
      /\ status' = [status EXCEPT ![b] = "running"]
      /\ runner' = [runner EXCEPT ![b] = th]
      /\ \A c \in Blocks : runner[c] # th
      /\ UNCHANGED waits
  BY <1>1 DEF Pool!Start, Pool!Moves, Pool!Idle, BlocksNeeded
<1>3. /\ step' = [step EXCEPT ![th] = "oracle"]
      /\ faccum' = [faccum EXCEPT ![th] = None]
      /\ UNCHANGED <<num, buffer, call, seen, sum, accum_mutex>>
  BY DEF Start
<1>4. /\ \A c \in Blocks \ {b} : runner'[c] = runner[c] /\ status'[c] = status[c]
      /\ runner'[b] = th /\ status'[b] = "running"
      /\ \A v \in Workers \ {th} :
           step'[v] = step[v] /\ at'[v] = at[v] /\ faccum'[v] = faccum[v]
      /\ step'[th] = "oracle" /\ at'[th] = Begin(b) /\ faccum'[th] = None
  BY <1>1, <1>2, <1>3 DEF Position, Shape, Counted, SumsTyped
<1>5. SumsTyped' /\ NoOthers' /\ SumIsSeen'
  BY <1>3, <1>4 DEF Counted, SumsTyped, NoOthers, SumIsSeen, None
<1>6. SumOfBlocks'
  BY <1>3, <1>4, BlocksStay DEF Counted, SumOfBlocks
<1>7. SumOfWorkers'
  <2>1. ASSUME NEW c \in Blocks, NEW v \in Workers, NEW s \in Samples, runner'[c] = v
        PROVE  /\ s \in Mine(c) => sum'[s] + Pending(c, v, s)' = IF s < at'[v] THEN 1 ELSE 0
               /\ s \notin Mine(c) => Pending(c, v, s)' = 0
    <3>1. CASE c = b
      <4>1. v = th /\ Pending(c, v, s)' = 0
        BY <1>4, <2>1, <3>1 DEF Pending, None
      <4>2. s \in Mine(c) => sum'[s] = 0
        BY <1>2, <1>3, <3>1 DEF Counted, SumOfBlocks
      <4>3. s \in Mine(c) => ~(s < at'[v])
        BY <1>2, <1>4, <3>1, <4>1, BlockEnd DEF Mine, Position, Shape
      <4> QED BY <4>1, <4>2, <4>3
    <3>2. CASE c # b
      <4>1. runner[c] = v /\ v # th
        BY <1>2, <1>4, <2>1, <3>2
      <4>2. Pending(c, v, s)' = Pending(c, v, s) /\ at'[v] = at[v]
        BY <1>3, <1>4, <4>1, BlocksStay DEF Pending
      <4> QED BY <1>3, <4>1, <4>2 DEF Counted, SumOfWorkers
    <3> QED BY <3>1, <3>2
  <2> QED BY <1>3, <2>1, BlocksStay DEF SumOfWorkers
<1>8. CallerWaits'
  BY <1>2, <1>3, <1>4, BlocksStay DEF Counted, CallerWaits, BlocksNeeded
<1> QED BY <1>5, <1>6, <1>7, <1>8 DEF Counted

(* While a worker is in its block, its own part of the sum grows. *)
LEMMA CountedInBlock ==
  ASSUME Position, Counted, NEW th \in Workers, NEW b \in Blocks, runner[b] = th,
         UNCHANGED <<pool, num, buffer, call>>,
         step' = [step EXCEPT ![th] = step'[th]], at' = [at EXCEPT ![th] = at'[th]],
         faccum' = [faccum EXCEPT ![th] = faccum'[th]],
         SumsTyped', SumIsSeen',
         \A s \in Samples : s \notin Mine(b) => sum'[s] = sum[s],
         \A s \in Samples :
           /\ s \in Mine(b) => sum'[s] + Pending(b, th, s)' = IF s < at'[th] THEN 1 ELSE 0
           /\ s \notin Mine(b) => Pending(b, th, s)' = 0
  PROVE  Counted'
<1>1. UNCHANGED <<status, runner, waits>>
  BY DEF pool
<1>2. \A v \in Workers \ {th} :
        step'[v] = step[v] /\ at'[v] = at[v] /\ faccum'[v] = faccum[v]
  BY DEF Position, Shape, Counted, SumsTyped
<1>3. status[b] = "running" /\ \A c \in Blocks : runner[c] = th => c = b
  BY DEF Position, Shape
<1>4. \A c \in Blocks \ {b} : \A s \in Samples : s \in Mine(c) => s \notin Mine(b)
  BY Disjoint DEF Position, Shape
<1>5. NoOthers'
  <2>1. \A s \in Samples : s \in Mine(b) => s < num
    BY BlockEnd, ParallelAssumption DEF Mine, Position, Shape, NumAssumption
  <2> QED BY <2>1, ParallelAssumption
          DEF Counted, NoOthers, Position, Shape, NumAssumption, Samples
<1>6. SumOfBlocks'
  BY <1>1, <1>3, <1>4, BlocksStay DEF Counted, SumOfBlocks
<1>7. SumOfWorkers'
  <2>1. ASSUME NEW c \in Blocks, NEW v \in Workers, NEW s \in Samples, runner[c] = v
        PROVE  /\ s \in Mine(c) => sum'[s] + Pending(c, v, s)' = IF s < at'[v] THEN 1 ELSE 0
               /\ s \notin Mine(c) => Pending(c, v, s)' = 0
    <3>1. CASE c = b
      BY <2>1, <3>1
    <3>2. CASE c # b
      <4>1. v # th
        BY <1>3, <2>1, <3>2
      <4>2. Pending(c, v, s)' = Pending(c, v, s) /\ at'[v] = at[v]
        BY <1>2, <4>1, BlocksStay DEF Pending
      <4>3. s \in Mine(c) => sum'[s] = sum[s]
        BY <1>4, <3>2
      <4> QED BY <2>1, <4>2, <4>3 DEF Counted, SumOfWorkers
    <3> QED BY <3>1, <3>2
  <2> QED BY <1>1, <2>1, BlocksStay DEF SumOfWorkers
<1>8. CallerWaits'
  BY <1>1, BlocksStay DEF Counted, CallerWaits
<1> QED BY <1>5, <1>6, <1>7, <1>8 DEF Counted

LEMMA CountedOracleReturns ==
  ASSUME Position, Counted, NEW th \in Workers, OracleReturns(th) PROVE Counted'
<1>1. PICK b \in Blocks : b = Block(th) /\ runner[b] = th /\ step[th] = "oracle"
  BY OwnBlock DEF OracleReturns, Position
<1>2. at[th] < End(b) /\ Begin(b) <= at[th] /\ at[th] \in Nat
  BY <1>1 DEF Position, Progress, Shape
<1>3. /\ UNCHANGED <<pool, num, buffer, call, seen, sum, accum_mutex>>
      /\ at' = [at EXCEPT ![th] = @ + 1]
      /\ faccum' = [faccum EXCEPT ![th] =
           IF Buffered(b) THEN Sum(@, Just(at[th])) ELSE Just(at[th])]
      /\ step' = [step EXCEPT ![th] =
           IF Buffered(b) /\ at[th] + 1 < End(b) THEN "oracle" ELSE "lock"]
  <2>1. UNCHANGED <<pool, num, buffer, call, seen, sum, accum_mutex>>
    BY DEF OracleReturns
  <2>2. CASE Buffered(b)
    BY <1>1, <2>2 DEF OracleReturns
  <2>3. CASE ~Buffered(b)
    BY <1>1, <2>3 DEF OracleReturns
  <2> QED BY <2>1, <2>2, <2>3
<1>4. at[th] \in Samples /\ at[th] \in Mine(b)
  BY <1>1, <1>2, BlockEnd, ParallelAssumption
     DEF Mine, Samples, Position, Shape, NumAssumption
<1>5. /\ Just(at[th]) \in [Samples -> Int]
      /\ \A s \in Samples : Just(at[th])[s] = IF s = at[th] THEN 1 ELSE 0
  BY <1>4 DEF Just, None
<1>6. faccum[th] \in [Samples -> Int] /\ faccum \in [Workers -> [Samples -> Int]]
  BY DEF Counted, SumsTyped
<1>7. /\ Sum(faccum[th], Just(at[th])) \in [Samples -> Int]
      /\ \A s \in Samples : Sum(faccum[th], Just(at[th]))[s] =
                              faccum[th][s] + Just(at[th])[s]
  BY <1>5, <1>6 DEF Sum
<1>8. SumsTyped'
  BY <1>3, <1>5, <1>6, <1>7 DEF Counted, SumsTyped
<1>9. /\ step'[th] \in {"oracle", "lock"} /\ (step'[th] = "oracle" => Buffered(b))
      /\ at'[th] = at[th] + 1
      /\ step' = [step EXCEPT ![th] = step'[th]]
      /\ at' = [at EXCEPT ![th] = at'[th]]
  BY <1>3 DEF Position, Shape
<1>10. /\ faccum' = [faccum EXCEPT ![th] = faccum'[th]]
       /\ Buffered(b) => faccum'[th] = Sum(faccum[th], Just(at[th]))
       /\ ~Buffered(b) => faccum'[th] = Just(at[th])
  <2> DEFINE f == IF Buffered(b) THEN Sum(faccum[th], Just(at[th])) ELSE Just(at[th])
  <2>1. faccum' = [faccum EXCEPT ![th] = f]
    BY <1>3
  <2> HIDE DEF f
  <2>2. faccum'[th] = f /\ faccum' = [faccum EXCEPT ![th] = faccum'[th]]
    BY <1>6, <2>1
  <2> QED BY <2>2 DEF f
<1>11. SumIsSeen'
  BY <1>3, <1>9 DEF Counted, SumIsSeen, Position, Shape
<1>12. ASSUME NEW s \in Samples
       PROVE  /\ s \in Mine(b) => sum'[s] + Pending(b, th, s)' = IF s < at'[th] THEN 1 ELSE 0
              /\ s \notin Mine(b) => Pending(b, th, s)' = 0
  <2>1. Pending(b, th, s)' = faccum'[th][s]
    BY <1>3, <1>9, <1>1, BlocksStay DEF Pending
  <2>2. Pending(b, th, s) = IF Buffered(b) THEN faccum[th][s] ELSE 0
    BY <1>1 DEF Pending
  <2>3. faccum'[th][s] = Pending(b, th, s) + (IF s = at[th] THEN 1 ELSE 0)
    BY <1>5, <1>6, <1>7, <1>10, <2>2
  <2>4. /\ s \in Mine(b) => sum[s] + Pending(b, th, s) = IF s < at[th] THEN 1 ELSE 0
        /\ s \notin Mine(b) => Pending(b, th, s) = 0
    BY <1>1, <1>12 DEF Counted, SumOfWorkers
  <2>5. sum'[s] = sum[s] /\ sum[s] \in Int /\ Pending(b, th, s) \in Int /\ s \in Int
    BY <1>3, <1>6, <2>2, ParallelAssumption DEF Counted, SumsTyped, Samples
  <2>6. s < at'[th] <=> s < at[th] \/ s = at[th]
    BY <1>2, <1>9, <2>5
  <2>7. CASE s = at[th]
    BY <1>2, <1>4, <2>1, <2>3, <2>4, <2>5, <2>6, <2>7
  <2>8. CASE s # at[th]
    BY <2>1, <2>3, <2>4, <2>5, <2>6, <2>8
  <2> QED BY <2>7, <2>8
<1>13. \A s \in Samples : sum'[s] = sum[s]
  BY <1>3
<1> QED BY <1>1, <1>3, <1>8, <1>9, <1>10, <1>11, <1>12, <1>13, CountedInBlock

LEMMA CountedLock ==
  ASSUME Position, Counted, NEW th \in Workers, Lock(th) PROVE Counted'
<1>1. PICK b \in Blocks : b = Block(th) /\ runner[b] = th /\ step[th] = "lock"
  BY OwnBlock DEF Lock, Position
<1>2. /\ UNCHANGED <<pool, num, buffer, call, at, faccum, sum>>
      /\ accum_mutex = Nobody /\ accum_mutex' = th
      /\ seen' = [seen EXCEPT ![th] = sum]
      /\ step' = [step EXCEPT ![th] = "add"]
  BY DEF Lock, Free
<1>3. /\ step'[th] = "add" /\ step' = [step EXCEPT ![th] = step'[th]]
      /\ \A v \in Workers \ {th} : step'[v] = step[v]
  BY <1>2 DEF Position, Shape
<1>4. SumsTyped' /\ at' = [at EXCEPT ![th] = at'[th]]
      /\ faccum' = [faccum EXCEPT ![th] = faccum'[th]]
  BY <1>2 DEF Counted, SumsTyped, Position, Shape
<1>5. SumIsSeen'
  <2>1. \A v \in Workers : step[v] # "add"
    BY <1>2, ParallelAssumption DEF Counted, SumIsSeen
  <2>2. seen'[th] = sum'
    BY <1>2 DEF Counted, SumsTyped
  <2> QED BY <1>2, <1>3, <2>1, <2>2 DEF SumIsSeen
<1>6. \A s \in Samples : Pending(b, th, s)' = Pending(b, th, s)
  BY <1>1, <1>2, <1>3 DEF Pending
<1>7. \A s \in Samples :
        /\ s \in Mine(b) => sum[s] + Pending(b, th, s) = IF s < at[th] THEN 1 ELSE 0
        /\ s \notin Mine(b) => Pending(b, th, s) = 0
  BY <1>1 DEF Counted, SumOfWorkers
<1>8. \A s \in Samples :
        /\ s \notin Mine(b) => sum'[s] = sum[s]
        /\ s \in Mine(b) => sum'[s] + Pending(b, th, s)' = IF s < at'[th] THEN 1 ELSE 0
        /\ s \notin Mine(b) => Pending(b, th, s)' = 0
  BY <1>2, <1>6, <1>7
<1>9. UNCHANGED <<pool, num, buffer, call>>
  BY <1>2
<1> QED BY <1>1, <1>3, <1>4, <1>5, <1>8, <1>9, CountedInBlock

LEMMA CountedAddTo ==
  ASSUME Position, Counted, NEW th \in Workers, AddTo(th) PROVE Counted'
<1>1. PICK b \in Blocks : b = Block(th) /\ runner[b] = th /\ step[th] = "add"
  BY OwnBlock DEF AddTo, Position
<1>2. /\ UNCHANGED <<pool, num, buffer, call, at, faccum, seen>>
      /\ sum' = Sum(seen[th], faccum[th])
      /\ step' = [step EXCEPT ![th] = IF at[th] < End(b) THEN "oracle" ELSE "end"]
  BY <1>1 DEF AddTo
<1>3. step'[th] = (IF at[th] < End(b) THEN "oracle" ELSE "end")
      /\ (\A v \in Workers \ {th} : step'[v] = step[v])
      /\ step' = [step EXCEPT ![th] = step'[th]]
  BY <1>2 DEF Position, Shape
<1>4. sum \in [Samples -> Int] /\ faccum \in [Workers -> [Samples -> Int]]
      /\ seen[th] = sum /\ accum_mutex = th
  BY <1>1 DEF Counted, SumsTyped, SumIsSeen
<1>5. sum' \in [Samples -> Int] /\ \A s \in Samples : sum'[s] = sum[s] + faccum[th][s]
  BY <1>2, <1>4 DEF Sum
<1>6. SumsTyped' /\ at' = [at EXCEPT ![th] = at'[th]]
      /\ faccum' = [faccum EXCEPT ![th] = faccum'[th]]
  BY <1>2, <1>4, <1>5 DEF Counted, SumsTyped, Position, Shape
<1>7. SumIsSeen'
  BY <1>2, <1>3, <1>4 DEF Counted, SumIsSeen
<1>8. /\ at[th] < End(b) => ~Buffered(b)
      /\ at[th] <= End(b)
  BY <1>1, BlockEnd DEF Position, Progress, Shape
<1>9. ASSUME NEW s \in Samples
      PROVE  /\ s \notin Mine(b) => sum'[s] = sum[s]
             /\ s \in Mine(b) => sum'[s] + Pending(b, th, s)' = IF s < at'[th] THEN 1 ELSE 0
             /\ s \notin Mine(b) => Pending(b, th, s)' = 0
  <2>1. Pending(b, th, s) = faccum[th][s]
    BY <1>1 DEF Pending
  <2>2. Pending(b, th, s)' = 0
    BY <1>1, <1>2, <1>3, <1>8, BlocksStay DEF Pending
  <2>3. /\ s \in Mine(b) => sum[s] + Pending(b, th, s) = IF s < at[th] THEN 1 ELSE 0
        /\ s \notin Mine(b) => Pending(b, th, s) = 0
    BY <1>1, <1>9 DEF Counted, SumOfWorkers
  <2> QED BY <1>2, <1>4, <1>5, <2>1, <2>2, <2>3
<1> QED BY <1>1, <1>2, <1>3, <1>6, <1>7, <1>9, CountedInBlock

LEMMA CountedFinish ==
  ASSUME Position, Counted, NEW th \in Workers, Finish(th) PROVE Counted'
<1> DEFINE b == Block(th)
<1>1. b \in Blocks /\ runner[b] = th /\ step[th] = "end"
  BY OwnBlock DEF Finish, Position
<1>2. /\ status' = [status EXCEPT ![b] = "done"]
      /\ runner' = [runner EXCEPT ![b] = Nobody]
      /\ step' = [step EXCEPT ![th] = "idle"]
      /\ UNCHANGED <<waits, num, buffer, call, at, faccum, seen, sum, accum_mutex>>
  BY DEF Finish, Pool!Finish, Pool!Moves
<1> HIDE DEF b
<1>3. /\ \A c \in Blocks \ {b} : runner'[c] = runner[c] /\ status'[c] = status[c]
      /\ runner'[b] = Nobody /\ status'[b] = "done"
      /\ \A v \in Workers \ {th} : step'[v] = step[v]
      /\ step'[th] = "idle"
  BY <1>1, <1>2 DEF Position, Shape
<1>4. SumsTyped' /\ NoOthers' /\ SumIsSeen'
  BY <1>2, <1>3 DEF Counted, SumsTyped, NoOthers, SumIsSeen
<1>5. SumOfBlocks'
  <2>1. ASSUME NEW s \in Samples, s \in Mine(b) PROVE sum[s] = 1
    <3>1. s < at[th]
      BY <1>1, <2>1, BlockEnd DEF Position, Progress, Shape, Mine
    <3>2. Pending(b, th, s) = 0
      BY <1>1 DEF Pending
    <3>3. sum[s] + Pending(b, th, s) = 1
      BY <1>1, <2>1, <3>1 DEF Counted, SumOfWorkers
    <3> QED BY <3>2, <3>3 DEF Counted, SumsTyped
  <2> QED BY <1>2, <1>3, <2>1, BlocksStay DEF Counted, SumOfBlocks
<1>6. SumOfWorkers'
  <2>1. ASSUME NEW c \in Blocks, NEW v \in Workers, runner'[c] = v
        PROVE  c # b /\ runner[c] = v /\ v # th
    BY <1>1, <1>3, <2>1, ParallelAssumption DEF Position, Shape
  <2>2. ASSUME NEW c \in Blocks, NEW v \in Workers, NEW s \in Samples, runner'[c] = v
        PROVE  Pending(c, v, s)' = Pending(c, v, s)
    BY <1>2, <1>3, <2>1, <2>2, BlocksStay DEF Pending
  <2> QED BY <1>2, <2>1, <2>2, BlocksStay DEF Counted, SumOfWorkers
<1>7. CallerWaits'
  BY <1>2, <1>3, BlocksStay DEF Counted, CallerWaits, BlocksNeeded
<1> QED BY <1>4, <1>5, <1>6, <1>7 DEF Counted

LEMMA CountedNext == Position /\ Counted /\ [Next]_vars => Counted'
<1>1. ASSUME Position, Counted, UNCHANGED vars PROVE Counted'
  BY <1>1, BlocksStay DEF vars, pool, work, Counted, SumsTyped, SumOfBlocks,
     SumOfWorkers, NoOthers, SumIsSeen, CallerWaits, Pending
<1> QED BY <1>1, CountedCaller, CountedStart, CountedOracleReturns, CountedLock,
           CountedAddTo, CountedFinish DEF Next, Work

(* The subgradient of a round has every sample once, however the workers'
   updates interleave. *)
THEOREM RoundsAddUp == FairSpec => []EverySampleOnce
<1>1. ASSUME Position, Counted PROVE EverySampleOnce
  <2> SUFFICES ASSUME call = "done" PROVE
        /\ sum = [s \in Samples |-> IF s < num THEN 1 ELSE 0]
        /\ \A th \in Workers : step[th] = "idle"
    BY DEF EverySampleOnce
  <2>1. \A b \in BlocksNeeded : status[b] = "done" /\ b \in Blocks
    BY <1>1 DEF Counted, CallerWaits, BlocksNeeded
  <2>2. ASSUME NEW s \in Samples PROVE sum[s] = IF s < num THEN 1 ELSE 0
    <3>1. s \in Nat /\ num \in Nat
      BY <1>1, ParallelAssumption DEF Samples, Position, Shape, NumAssumption
    <3>2. CASE s < num
      <4>1. PICK b \in BlocksNeeded : s \in Mine(b)
        BY <1>1, <3>1, <3>2, Covered DEF Position, Shape
      <4> QED BY <1>1, <2>1, <2>2, <3>2, <4>1 DEF Counted, SumOfBlocks
    <3>3. CASE ~(s < num)
      BY <1>1, <3>1, <3>3 DEF Counted, NoOthers
    <3> QED BY <3>2, <3>3
  <2>3. sum \in [Samples -> Int]
    BY <1>1 DEF Counted, SumsTyped
  <2>4. \A th \in Workers : step[th] = "idle"
    BY <1>1, <2>1, OwnBlock DEF Position
  <2> QED BY <2>2, <2>3, <2>4
<1>2. Init => Position /\ Counted
  BY PositionInit, CountedInit
<1>3. Position /\ Counted /\ [Next]_vars => (Position /\ Counted)'
  BY PositionNext, CountedNext
<1> QED BY <1>1, <1>2, <1>3, PTL DEF FairSpec
=============================================================================
