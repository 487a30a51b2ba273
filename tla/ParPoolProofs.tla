--------------------------- MODULE ParPoolProofs ---------------------------
(* Proofs about ParPool, for every set of callers and workers, every size  *)
(* of gather and every quota.                                              *)
EXTENDS ParPoolInv, FiniteSetTheorems, SequenceTheorems, WellFoundedInduction, TLAPS

-----------------------------------------------------------------------------
(* The queue.                                                              *)

Distinct(q) == \A j, k \in 1..Len(q) : j # k => q[j] # q[k]

(* vis_py_unqueue removes exactly the tasks it is asked to.                *)
LEMMA UnqueueRemoves ==
  ASSUME queue \in Seq(Tasks), Distinct(queue), NEW T, Unqueue(T)
  PROVE  /\ queue' \in Seq(Tasks)
         /\ Distinct(queue')
         /\ \A x : Queued(x)' <=> Queued(x) /\ x \notin T
<1> DEFINE K == {k \in 1..Len(queue) : queue[k] \notin T}
           N == 1..Cardinality(K)
<1>1. PICK f \in [N -> K] :
        /\ \A j, k \in N : j < k => f[j] < f[k]
        /\ \A k \in K : \E j \in N : f[j] = k
        /\ queue' = [j \in N |-> queue[f[j]]]
  BY DEF Unqueue
<1>2. Cardinality(K) \in Nat
  <2>1. Len(queue) \in Nat /\ IsFiniteSet(1..Len(queue))
    BY FS_Interval
  <2>2. K \in SUBSET (1..Len(queue))
    OBVIOUS
  <2>3. IsFiniteSet(K)
    BY <2>1, <2>2, FS_Subset
  <2>4. QED
    BY <2>3, FS_CardinalityType
<1> DEFINE n == Cardinality(K)
<1>3. n \in Nat /\ N = 1..n /\ f \in [1..n -> K]
  BY <1>2
<1>a. \A k \in K : k \in 1..Len(queue) /\ queue[k] \notin T /\ queue[k] \in Tasks
  BY ElementOfSeq
<1>b. \A j, k \in 1..n : j < k => f[j] < f[k]
  BY <1>1
<1>c. \A k \in K : \E j \in 1..n : f[j] = k
  BY <1>1
<1> HIDE DEF n, N, K
<1>4. \A j \in 1..n : f[j] \in 1..Len(queue) /\ queue[f[j]] \notin T /\ queue[f[j]] \in Tasks
  BY <1>3, <1>a
<1>5. queue' = [j \in 1..n |-> queue[f[j]]]
  BY <1>1, <1>3
<1>6. queue' \in Seq(Tasks) /\ Len(queue') = n
  BY <1>3, <1>4, <1>5
<1>7. \A j \in 1..n : queue'[j] = queue[f[j]]
  BY <1>5
<1>8. Distinct(queue')
  <2> SUFFICES ASSUME NEW j \in 1..n, NEW k \in 1..n, j # k
               PROVE  queue'[j] # queue'[k]
    BY <1>6 DEF Distinct
  <2>1. f[j] # f[k]
    <3>1. f[j] < f[k] \/ f[k] < f[j]
      BY <1>b, <1>3
    <3>2. f[j] \in Int /\ f[k] \in Int
      BY <1>4
    <3>3. QED
      BY <3>1, <3>2
  <2>2. QED
    BY <2>1, <1>4, <1>7 DEF Distinct
<1>9. ASSUME NEW x PROVE Queued(x)' <=> Queued(x) /\ x \notin T
  <2>1. ASSUME Queued(x)' PROVE Queued(x) /\ x \notin T
    BY <2>1, <1>4, <1>6, <1>7 DEF Queued
  <2>2. ASSUME Queued(x), x \notin T PROVE Queued(x)'
    <3>1. PICK k \in K : queue[k] = x
      BY <2>2 DEF Queued, K
    <3>2. PICK j \in 1..n : f[j] = k
      BY <3>1, <1>c
    <3>3. QED
      BY <3>1, <3>2, <1>6, <1>7 DEF Queued
  <2>3. QED
    BY <2>1, <2>2
<1>10. QED
  BY <1>6, <1>8, <1>9

(* A worker takes the head and nothing else.                               *)
LEMMA TailRemoves ==
  ASSUME queue \in Seq(Tasks), Distinct(queue), queue # <<>>, queue' = Tail(queue)
  PROVE  /\ queue' \in Seq(Tasks)
         /\ Distinct(queue')
         /\ Head(queue) \in Tasks /\ Queued(Head(queue))
         /\ \A x : Queued(x)' <=> Queued(x) /\ x # Head(queue)
<1>1. /\ queue' \in Seq(Tasks) /\ Len(queue') = Len(queue) - 1
      /\ \A k \in 1..Len(queue') : queue'[k] = queue[k + 1]
      /\ Head(queue) = queue[1] /\ Len(queue) \in Nat /\ Len(queue) >= 1
  BY HeadTailProperties
<1>2. Distinct(queue')
  BY <1>1 DEF Distinct
<1>3. Head(queue) \in Tasks /\ Queued(Head(queue))
  BY <1>1 DEF Queued
<1>4. ASSUME NEW x PROVE Queued(x)' <=> Queued(x) /\ x # Head(queue)
  <2>1. ASSUME Queued(x)' PROVE Queued(x) /\ x # Head(queue)
    <3>1. PICK k \in 1..Len(queue') : queue'[k] = x
      BY <2>1 DEF Queued
    <3>2. k + 1 \in 1..Len(queue) /\ k + 1 # 1 /\ queue[k + 1] = x
      BY <3>1, <1>1
    <3>3. QED
      BY <3>2, <1>1 DEF Queued, Distinct
  <2>2. ASSUME Queued(x), x # Head(queue) PROVE Queued(x)'
    <3>1. PICK k \in 1..Len(queue) : queue[k] = x
      BY <2>2 DEF Queued
    <3>2. k # 1 /\ k - 1 \in 1..Len(queue') /\ queue'[k - 1] = x
      BY <2>2, <3>1, <1>1
    <3>3. QED
      BY <3>2 DEF Queued
  <2>3. QED
    BY <2>1, <2>2
<1>5. QED
  BY <1>1, <1>2, <1>3, <1>4

LEMMA FunctionIsSeq ==
  ASSUME NEW S, NEW n \in Nat, NEW f \in [1..n -> S]
  PROVE  f \in Seq(S) /\ Len(f) = n
<1>1. f \in Seq(S)
  BY SeqDef
<1>2. Len(f) \in Nat /\ DOMAIN f = 1..Len(f) /\ DOMAIN f = 1..n
  BY <1>1, LenProperties
<1>3. QED
  BY <1>1, <1>2

(* n tasks of one caller, from s + 1 on, stand behind the others.          *)
Appended(c, s, n) ==
  /\ s \in Nat /\ n \in Nat /\ s + n <= Count
  /\ \A i \in Positions : i > s => ~Queued(<<c, i>>)
  /\ queue' \in Seq(Tasks) /\ Len(queue') = Len(queue) + n
  /\ \A k \in 1..Len(queue) : queue'[k] = queue[k]
  /\ \A k \in 1..n : queue'[Len(queue) + k] = <<c, s + k>>

(* The submit loop adds n tasks of one caller behind the others.           *)
LEMMA SubmitAdds ==
  ASSUME queue \in Seq(Tasks), Distinct(queue),
         NEW c \in Callers, NEW s, NEW n, Appended(c, s, n)
  PROVE  /\ Distinct(queue')
         /\ \A x : Queued(x)' <=> Queued(x) \/ \E i \in (s + 1)..(s + n) : x = <<c, i>>
<1>2. s \in Nat /\ n \in Nat /\ s + n <= Count /\ queue' \in Seq(Tasks)
  BY DEF Appended
<1>3. Len(queue') = Len(queue) + n
  BY DEF Appended
<1>4. Len(queue) \in Nat
  OBVIOUS
<1>5. \A i \in Positions : i > s => ~Queued(<<c, i>>)
  BY DEF Appended
<1>6. \A k \in 1..Len(queue) : queue'[k] = queue[k]
  BY DEF Appended
<1>7. \A k \in 1..n : queue'[Len(queue) + k] = <<c, s + k>>
  BY DEF Appended
<1> USE <1>2
<1>8. \A k \in 1..Len(queue') : k > Len(queue) => queue'[k] = <<c, s + (k - Len(queue))>>
  <2> SUFFICES ASSUME NEW k \in 1..Len(queue'), k > Len(queue)
               PROVE  queue'[k] = <<c, s + (k - Len(queue))>>
    OBVIOUS
  <2>1. k - Len(queue) \in 1..n /\ Len(queue) + (k - Len(queue)) = k
    BY <1>3, <1>4
  <2>2. queue'[Len(queue) + (k - Len(queue))] = <<c, s + (k - Len(queue))>>
    BY <2>1, <1>7
  <2>3. QED
    BY <2>1, <2>2
<1>9. ASSUME NEW k \in 1..Len(queue), NEW i \in (s + 1)..(s + n) PROVE queue[k] # <<c, i>>
  <2>1. i \in Positions /\ i > s
    BY ParAssumption DEF Positions
  <2>2. ~Queued(<<c, i>>)
    BY <2>1, <1>5
  <2>3. QED
    BY <2>2 DEF Queued
<1>d. ASSUME NEW j \in 1..Len(queue'), NEW k \in 1..Len(queue'), j < k
      PROVE  queue'[j] # queue'[k]
  <2>1. CASE k <= Len(queue)
    BY <1>d, <2>1, <1>3, <1>4, <1>6 DEF Distinct
  <2>2. CASE j <= Len(queue) /\ k > Len(queue)
    <3>1. queue'[k] = <<c, s + (k - Len(queue))>> /\ s + (k - Len(queue)) \in (s + 1)..(s + n)
      BY <2>2, <1>3, <1>4, <1>8
    <3>2. j \in 1..Len(queue) /\ queue'[j] = queue[j]
      BY <2>2, <1>4, <1>6
    <3>3. queue[j] # <<c, s + (k - Len(queue))>>
      BY <3>1, <3>2, <1>9
    <3>4. QED
      BY <3>1, <3>2, <3>3
  <2>3. CASE j > Len(queue)
    BY <1>d, <2>3, <1>3, <1>4, <1>8
  <2>4. QED
    BY <2>1, <2>2, <2>3, <1>3, <1>4
<1>10. Distinct(queue')
  <2> SUFFICES ASSUME NEW j \in 1..Len(queue'), NEW k \in 1..Len(queue'), j # k
               PROVE  queue'[j] # queue'[k]
    BY DEF Distinct
  <2>1. j < k \/ k < j
    BY <1>3, <1>4
  <2>2. QED
    BY <2>1, <1>d
<1>11. ASSUME NEW x PROVE Queued(x)' <=> Queued(x) \/ \E i \in (s + 1)..(s + n) : x = <<c, i>>
  <2>1. ASSUME NEW k \in 1..Len(queue'), queue'[k] = x
        PROVE  Queued(x) \/ \E i \in (s + 1)..(s + n) : x = <<c, i>>
    <3>1. CASE k <= Len(queue)
      BY <2>1, <3>1, <1>3, <1>4, <1>6 DEF Queued
    <3>2. CASE k > Len(queue)
      <4>1. x = <<c, s + (k - Len(queue))>>
        BY <2>1, <3>2, <1>8
      <4>3. s + (k - Len(queue)) \in (s + 1)..(s + n)
        BY <3>2, <1>3, <1>4
      <4>2. QED
        BY <4>1, <4>3
    <3>3. QED
      BY <3>1, <3>2, <1>3, <1>4
  <2>2. ASSUME Queued(x) PROVE Queued(x)'
    BY <2>2, <1>3, <1>4, <1>6 DEF Queued
  <2>3. ASSUME NEW i \in (s + 1)..(s + n), x = <<c, i>> PROVE Queued(x)'
    <3>1. i - s \in 1..n /\ Len(queue) + (i - s) \in 1..Len(queue')
      BY <1>3, <1>4
    <3>2. queue'[Len(queue) + (i - s)] = <<c, s + (i - s)>>
      BY <3>1, <1>7
    <3>4. s + (i - s) = i
      OBVIOUS
    <3>3. QED
      BY <2>3, <3>1, <3>2, <3>4 DEF Queued
  <2>4. QED
    BY <2>1, <2>2, <2>3 DEF Queued
<1>12. QED
  BY <1>10, <1>11
-----------------------------------------------------------------------------
(* The invariant holds at the start.                                       *)
LEMMA InitInv == Init => IndInv
<1> SUFFICES ASSUME Init PROVE IndInv
  OBVIOUS
<1> USE ParAssumption DEF Init, Threads
<1>1. TypeOK
  <2>1. /\ pc \in [Threads -> CallerPcs \cup WorkerPcs]
        /\ \A c \in Callers : pc[c] \in CallerPcs
        /\ \A w \in Workers : pc[w] \in WorkerPcs
    BY DEF CallerPcs, WorkerPcs
  <2>2. queue \in Seq(Tasks)
    BY EmptySeq
  <2>3. /\ finished \in [Callers -> [Positions -> BOOLEAN]]
        /\ runner \in [Callers -> [Positions -> Threads \cup {None}]]
        /\ result \in [Callers -> [Positions -> Endings \cup {None}]]
    OBVIOUS
  <2>4. answer \in [Callers -> {None, <<"values">>, <<"interrupt">>} \cup ({"raise"} \X Positions)]
    OBVIOUS
  <2>5. /\ gil \in Threads \cup {None}
        /\ held \in [Threads -> Tasks \cup {None}]
        /\ started \in BOOLEAN
        /\ pending \in [Threads -> BOOLEAN]
        /\ running_thread \in Callers \cup {None}
        /\ target \in Callers \cup {None}
    OBVIOUS
  <2>6. /\ index \in [Callers -> Nat]
        /\ submitted \in [Callers -> Nat]
        /\ done \in [Callers -> Int]
        /\ outstanding \in [Callers -> Int]
        /\ issued \in [Callers -> Nat]
        /\ seen \in [Callers -> Nat]
    OBVIOUS
  <2>7. saturated \in [Callers -> BOOLEAN] /\ stopped \in [Callers -> BOOLEAN]
        /\ interrupted \in [Callers -> BOOLEAN]
    OBVIOUS
  <2> HIDE DEF Init
  <2>8. QED
    BY <2>1, <2>2, <2>3, <2>4, <2>5, <2>6, <2>7 DEF TypeOK
<1>2. \A x : ~Queued(x)
  BY EmptySeq DEF Queued
<1>3. HoldInv /\ ClaimedOnce
  BY <1>2 DEF HoldInv, ClaimedOnce
<1>4. LiveInv
  BY <1>2 DEF LiveInv, IsLive, Tasks, Positions
<1>5. CountInv
  <2>1. ASSUME NEW c \in Callers PROVE Cardinality(Live(c)) = 0
    <3>1. Live(c) = {}
      BY DEF Live
    <3>2. QED
      BY <3>1, FS_EmptySet
  <2>2. QED
    BY <2>1 DEF CountInv
<1>6. BlankInv /\ RunnerInv /\ StopInv /\ SeenInv
  BY DEF BlankInv, RunnerInv, StopInv, SeenInv, Positions
<1>7. LoopInv
  BY DEF LoopInv, Registered, InLoop, InDrain, Positions
<1>8. QED
  BY <1>1, <1>3, <1>4, <1>5, <1>6, <1>7 DEF IndInv

-----------------------------------------------------------------------------
(* What a step leaves alone.                                               *)

LEMMA LiveSame ==
  ASSUME submitted' = submitted, finished' = finished
  PROVE  \A c \in Callers : Live(c)' = Live(c)
BY DEF Live

LEMMA QueuedSame ==
  ASSUME queue' = queue
  PROVE  \A x : Queued(x)' <=> Queued(x)
BY DEF Queued

(* RunnerInv speaks of the threads inside a thunk only.                    *)
LEMMA RunnerFrame ==
  ASSUME TypeOK, RunnerInv, runner' = runner,
         \A t \in Threads : /\ pc'[t] = "thunk" <=> pc[t] = "thunk"
                            /\ pc[t] = "thunk" => held'[t] = held[t]
  PROVE  RunnerInv'
<1>1. ASSUME NEW c \in Callers, NEW i \in Positions, runner[c][i] # None
      PROVE  pc'[runner[c][i]] = "thunk" /\ held'[runner[c][i]] = <<c, i>>
  <2>1. runner[c][i] \in Threads
    BY <1>1 DEF TypeOK
  <2>2. QED
    BY <1>1, <2>1 DEF RunnerInv
<1>2. ASSUME NEW t \in Threads, pc'[t] = "thunk",
             NEW c \in Callers, NEW i \in Positions, held'[t] = <<c, i>>
      PROVE  runner[c][i] = t
  BY <1>2 DEF RunnerInv
<1>3. QED
  BY <1>1, <1>2 DEF RunnerInv

(* A quiet step moves threads between places the invariant does not tell   *)
(* apart, and touches neither the queue nor a batch.                       *)
QuietMove(c) ==
  /\ Registered(c)' <=> Registered(c)
  /\ pc'[c] \in InLoop => pc[c] \in InLoop
  /\ pc'[c] = "regain" => finished[c][index[c]] \/ stopped[c]
  /\ pc'[c] \in InDrain => index[c] > Count \/ stopped[c]
  /\ pc'[c] = "drained" => outstanding[c] = 0
  /\ pc'[c] = "submit" => pc[c] = "submit"

LEMMA QuietInv ==
  ASSUME IndInv, TypeOK', SeenInv',
         UNCHANGED <<held, queue, index, batchVars, taskVars>>,
         \A t \in Threads : pc'[t] # pc[t] =>
           pc[t] \notin {"claimed", "thunk"} /\ pc'[t] \notin {"claimed", "thunk"},
         \A c \in Callers : pc'[c] # pc[c] => QuietMove(c)
  PROVE  IndInv'
<1> USE DEF IndInv, batchVars, taskVars
<1>1. HoldInv'
  BY DEF HoldInv, Threads
<1>2. ClaimedOnce' /\ LiveInv'
  BY QueuedSame DEF ClaimedOnce, LiveInv, IsLive
<1>3. CountInv'
  BY LiveSame DEF CountInv, QuietMove
<1>4. BlankInv'
  BY DEF BlankInv, QuietMove, Registered
<1>5. RunnerInv'
  BY RunnerFrame
<1>6. LoopInv'
  BY DEF LoopInv, QuietMove, Registered
<1>7. StopInv'
  BY DEF StopInv
<1>8. QED
  BY <1>1, <1>2, <1>3, <1>4, <1>5, <1>6, <1>7

(* The part of the type invariant about where the threads are.             *)
PcType ==
  /\ pc \in [Threads -> CallerPcs \cup WorkerPcs]
  /\ \A c \in Callers : pc[c] \in CallerPcs
  /\ \A w \in Workers : pc[w] \in WorkerPcs

(* A caller goes to one of its places.                                     *)
LEMMA PcTypeKept ==
  ASSUME TypeOK, NEW c \in Callers, NEW p \in CallerPcs, pc' = [pc EXCEPT ![c] = p]
  PROVE  PcType'
<1>1. PcType
  BY DEF TypeOK, PcType
<1>2. c \in Threads /\ c \notin Workers
  BY ParAssumption DEF Threads
<1>3. /\ pc' \in [Threads -> CallerPcs \cup WorkerPcs]
      /\ \A t \in Threads : pc'[t] = IF t = c THEN p ELSE pc[t]
  BY <1>1, <1>2 DEF PcType
<1>4. \A d \in Callers : pc'[d] \in CallerPcs
  BY <1>1, <1>3 DEF PcType, Threads
<1>5. \A w \in Workers : pc'[w] \in WorkerPcs
  BY <1>1, <1>2, <1>3 DEF PcType, Threads
<1>6. QED
  BY <1>3, <1>4, <1>5 DEF PcType

(* The caller finds its task settled, or waits.                            *)
LEMMA WaitOrGoOnInv ==
  ASSUME IndInv, NEW c \in Callers, pc[c] \in {"look", "parked", "woken"},
         WaitOrGoOn(c), saturated' = saturated,
         UNCHANGED <<gil, started, batchVars, taskVars, index, answer, pending, hostVars>>
  PROVE  IndInv'
<1> USE DEF IndInv
<1>1. PICK p \in {"regain", "parked"} :
        /\ pc' = [pc EXCEPT ![c] = p]
        /\ p = "regain" => finished[c][index[c]] \/ stopped[c]
  BY DEF WaitOrGoOn
<1>2. UNCHANGED <<held, queue>>
  BY DEF WaitOrGoOn
<1>3. TypeOK'
  <2>1. p \in CallerPcs
    BY DEF CallerPcs
  <2>2. PcType'
    BY <1>1, <2>1, PcTypeKept
  <2>3. UNCHANGED <<gil, held, queue, started, submitted, done, outstanding, stopped, interrupted,
                    finished, runner, result, index, saturated, answer, pending,
                    running_thread, target, issued, seen>>
    BY <1>2 DEF batchVars, taskVars, hostVars
  <2>4. TypeOK
    OBVIOUS
  <2> HIDE DEF IndInv
  <2>5. QED
    BY <2>2, <2>3, <2>4 DEF TypeOK, PcType
<1>4. SeenInv'
  BY DEF SeenInv, batchVars, hostVars
<1>5. \A s \in Threads : pc'[s] # pc[s] =>
        pc[s] \notin {"claimed", "thunk"} /\ pc'[s] \notin {"claimed", "thunk"}
  BY <1>1 DEF TypeOK
<1>6. \A d \in Callers : pc'[d] # pc[d] => QuietMove(d)
  <2>1. \A d \in Callers : pc'[d] # pc[d] => d = c /\ pc'[d] = p
    BY <1>1 DEF TypeOK, Threads
  <2> HIDE DEF IndInv
  <2>2. QuietMove(c) \/ pc'[c] = pc[c]
    BY <1>1, <2>1 DEF QuietMove, Registered, InLoop, InDrain
  <2>3. QED
    BY <2>1, <2>2
<1>7. QED
  BY <1>2, <1>3, <1>4, <1>5, <1>6, QuietInv

(* What a batch counts as outstanding is never negative.                   *)
LEMMA OutstandingNat ==
  ASSUME TypeOK, CountInv, NEW c \in Callers
  PROVE  IsFiniteSet(Live(c)) /\ outstanding[c] \in Nat
<1>1. IsFiniteSet(1..submitted[c])
  <2>1. PICK b \in Int : b = submitted[c]
    BY DEF TypeOK
  <2>2. IsFiniteSet(1..b)
    BY FS_Interval
  <2>3. QED
    BY <2>1, <2>2
<1>2. Live(c) \in SUBSET (1..submitted[c])
  BY DEF Live
<1>3. IsFiniteSet(Live(c))
  BY <1>1, <1>2, FS_Subset
<1>4. QED
  BY <1>3, FS_CardinalityType DEF CountInv

(* The steps that are quiet.                                               *)
LEMMA QuietSteps ==
  ASSUME IndInv
  PROVE  /\ \A c \in Callers :
              \/ BeginRun(c) \/ EndRun(c) \/ LandInBlock(c) \/ Recheck(c)
              \/ LeaveLoop(c) \/ DrainRecheck(c)
              => IndInv'
         /\ \A w \in Workers : WorkerWaits(w) => IndInv'
         /\ \A t \in Threads : DropGil(t) \/ TakeGil(t) \/ SwallowInThunk(t) \/ SpuriousWake(t) => IndInv'
         /\ ReadTarget => IndInv'
<1> USE ParAssumption DEF IndInv, Threads, gilVars, batchVars, taskVars, loopVars, hostVars
<1>1. ASSUME NEW c \in Callers, BeginRun(c) PROVE IndInv'
  <2>1. TypeOK'
    BY <1>1 DEF BeginRun, TypeOK, CallerPcs, WorkerPcs
  <2>2. SeenInv'
    BY <1>1 DEF BeginRun, TypeOK, SeenInv, BlankInv, Registered
  <2>3. \A s \in Threads : pc'[s] # pc[s] =>
          pc[s] \notin {"claimed", "thunk"} /\ pc'[s] \notin {"claimed", "thunk"}
    BY <1>1 DEF BeginRun, TypeOK
  <2>4. \A d \in Callers : pc'[d] # pc[d] => QuietMove(d)
    BY <1>1 DEF BeginRun, TypeOK, QuietMove, Registered, InLoop, InDrain, LoopInv, CountInv
  <2>5. UNCHANGED <<held, queue, index, batchVars, taskVars>>
    BY <1>1 DEF BeginRun
  <2>6. QED
    BY <2>1, <2>2, <2>3, <2>4, <2>5, QuietInv
<1>2. ASSUME NEW c \in Callers, EndRun(c) PROVE IndInv'
  <2>1. TypeOK'
    BY <1>2 DEF EndRun, TypeOK, CallerPcs, WorkerPcs
  <2>2. SeenInv'
    <3>1. /\ seen' = seen /\ issued' = issued /\ interrupted' = interrupted
          /\ \A d \in Callers : pending'[d] => pending[d]
      BY <1>2 DEF EndRun, TypeOK
    <3>2. \A d \in Callers : seen[d] \in Nat /\ issued[d] \in Nat
      BY DEF TypeOK
    <3>3. QED
      BY <3>1, <3>2 DEF SeenInv
  <2>3. \A s \in Threads : pc'[s] # pc[s] =>
          pc[s] \notin {"claimed", "thunk"} /\ pc'[s] \notin {"claimed", "thunk"}
    BY <1>2 DEF EndRun, TypeOK
  <2>4. \A d \in Callers : pc'[d] # pc[d] => QuietMove(d)
    BY <1>2 DEF EndRun, TypeOK, QuietMove, Registered, InLoop, InDrain, LoopInv, CountInv
  <2>5. UNCHANGED <<held, queue, index, batchVars, taskVars>>
    BY <1>2 DEF EndRun
  <2>6. QED
    BY <2>1, <2>2, <2>3, <2>4, <2>5, QuietInv
<1>3. ASSUME NEW c \in Callers, LandInBlock(c) PROVE IndInv'
  <2>1. TypeOK'
    BY <1>3, SMTT(30) DEF LandInBlock, TypeOK, CallerPcs, WorkerPcs
  <2>2. SeenInv'
    BY <1>3, SMTT(30) DEF LandInBlock, TypeOK, SeenInv, BlankInv, Registered
  <2>3. \A s \in Threads : pc'[s] # pc[s] =>
          pc[s] \notin {"claimed", "thunk"} /\ pc'[s] \notin {"claimed", "thunk"}
    BY <1>3 DEF LandInBlock, TypeOK
  <2>4. \A d \in Callers : pc'[d] # pc[d] => QuietMove(d)
    BY <1>3 DEF LandInBlock, TypeOK, QuietMove, Registered, InLoop, InDrain, LoopInv, CountInv
  <2>5. UNCHANGED <<held, queue, index, batchVars, taskVars>>
    BY <1>3 DEF LandInBlock
  <2>6. QED
    BY <2>1, <2>2, <2>3, <2>4, <2>5, QuietInv
<1>4. ASSUME NEW c \in Callers, Recheck(c) PROVE IndInv'
  <2>1. /\ pc[c] = "woken" /\ WaitOrGoOn(c) /\ saturated' = saturated
        /\ UNCHANGED <<gil, started, batchVars, taskVars, index, answer, pending, hostVars>>
    BY <1>4 DEF Recheck, loopVars
  <2>2. QED
    BY <2>1, WaitOrGoOnInv
<1>5. ASSUME NEW c \in Callers, LeaveLoop(c) PROVE IndInv'
  <2>1. TypeOK'
    BY <1>5 DEF LeaveLoop, TypeOK, CallerPcs, WorkerPcs
  <2>2. SeenInv'
    BY <1>5 DEF LeaveLoop, TypeOK, SeenInv, BlankInv, Registered
  <2>3. \A s \in Threads : pc'[s] # pc[s] =>
          pc[s] \notin {"claimed", "thunk"} /\ pc'[s] \notin {"claimed", "thunk"}
    BY <1>5 DEF LeaveLoop, TypeOK
  <2>4. \A d \in Callers : pc'[d] # pc[d] => QuietMove(d)
    BY <1>5 DEF LeaveLoop, TypeOK, QuietMove, Registered, InLoop, InDrain, LoopInv, CountInv
  <2>5. UNCHANGED <<held, queue, index, batchVars, taskVars>>
    BY <1>5 DEF LeaveLoop
  <2>6. QED
    BY <2>1, <2>2, <2>3, <2>4, <2>5, QuietInv
<1>6. ASSUME NEW c \in Callers, DrainRecheck(c) PROVE IndInv'
  <2>1. TypeOK'
    BY <1>6 DEF DrainRecheck, TypeOK, CallerPcs, WorkerPcs
  <2>2. SeenInv'
    BY <1>6 DEF DrainRecheck, TypeOK, SeenInv, BlankInv, Registered
  <2>3. \A s \in Threads : pc'[s] # pc[s] =>
          pc[s] \notin {"claimed", "thunk"} /\ pc'[s] \notin {"claimed", "thunk"}
    BY <1>6 DEF DrainRecheck, TypeOK
  <2>4. \A d \in Callers : pc'[d] # pc[d] => QuietMove(d)
    BY <1>6, OutstandingNat, SMTT(30) DEF DrainRecheck, TypeOK, QuietMove, Registered, InLoop, InDrain, LoopInv, CountInv
  <2>5. UNCHANGED <<held, queue, index, batchVars, taskVars>>
    BY <1>6 DEF DrainRecheck
  <2>6. QED
    BY <2>1, <2>2, <2>3, <2>4, <2>5, QuietInv
<1>7. ASSUME NEW w \in Workers, WorkerWaits(w) PROVE IndInv'
  <2>1. TypeOK'
    BY <1>7 DEF WorkerWaits, TypeOK, CallerPcs, WorkerPcs
  <2>2. SeenInv'
    BY <1>7 DEF WorkerWaits, TypeOK, SeenInv, BlankInv, Registered
  <2>3. \A s \in Threads : pc'[s] # pc[s] =>
          pc[s] \notin {"claimed", "thunk"} /\ pc'[s] \notin {"claimed", "thunk"}
    BY <1>7 DEF WorkerWaits, TypeOK
  <2>4. \A d \in Callers : pc'[d] # pc[d] => QuietMove(d)
    BY <1>7 DEF WorkerWaits, TypeOK, QuietMove, Registered, InLoop, InDrain, LoopInv, CountInv
  <2>5. UNCHANGED <<held, queue, index, batchVars, taskVars>>
    BY <1>7 DEF WorkerWaits
  <2>6. QED
    BY <2>1, <2>2, <2>3, <2>4, <2>5, QuietInv
<1>8. ASSUME NEW t \in Threads, DropGil(t) PROVE IndInv'
  <2>1. TypeOK'
    BY <1>8 DEF DropGil, InPython, TypeOK, CallerPcs, WorkerPcs
  <2>2. SeenInv'
    BY <1>8 DEF DropGil, InPython, TypeOK, SeenInv, BlankInv, Registered
  <2>3. \A s \in Threads : pc'[s] # pc[s] =>
          pc[s] \notin {"claimed", "thunk"} /\ pc'[s] \notin {"claimed", "thunk"}
    BY <1>8 DEF DropGil, InPython, TypeOK
  <2>4. \A d \in Callers : pc'[d] # pc[d] => QuietMove(d)
    BY <1>8 DEF DropGil, InPython, TypeOK, QuietMove, Registered, InLoop, InDrain, LoopInv, CountInv
  <2>5. UNCHANGED <<held, queue, index, batchVars, taskVars>>
    BY <1>8 DEF DropGil, InPython
  <2>6. QED
    BY <2>1, <2>2, <2>3, <2>4, <2>5, QuietInv
<1>9. ASSUME NEW t \in Threads, TakeGil(t) PROVE IndInv'
  <2>1. TypeOK'
    BY <1>9 DEF TakeGil, InPython, TypeOK, CallerPcs, WorkerPcs
  <2>2. SeenInv'
    BY <1>9 DEF TakeGil, InPython, TypeOK, SeenInv, BlankInv, Registered
  <2>3. \A s \in Threads : pc'[s] # pc[s] =>
          pc[s] \notin {"claimed", "thunk"} /\ pc'[s] \notin {"claimed", "thunk"}
    BY <1>9 DEF TakeGil, InPython, TypeOK
  <2>4. \A d \in Callers : pc'[d] # pc[d] => QuietMove(d)
    BY <1>9 DEF TakeGil, InPython, TypeOK, QuietMove, Registered, InLoop, InDrain, LoopInv, CountInv
  <2>5. UNCHANGED <<held, queue, index, batchVars, taskVars>>
    BY <1>9 DEF TakeGil, InPython
  <2>6. QED
    BY <2>1, <2>2, <2>3, <2>4, <2>5, QuietInv
<1>10. ASSUME NEW t \in Threads, SwallowInThunk(t) PROVE IndInv'
  <2>1. TypeOK'
    BY <1>10 DEF SwallowInThunk, TypeOK, CallerPcs, WorkerPcs
  <2>2. SeenInv'
    <3>1. /\ seen' = seen /\ issued' = issued /\ interrupted' = interrupted
          /\ \A d \in Callers : pending'[d] => pending[d]
      BY <1>10 DEF SwallowInThunk, TypeOK
    <3>2. \A d \in Callers : seen[d] \in Nat /\ issued[d] \in Nat
      BY DEF TypeOK
    <3>3. QED
      BY <3>1, <3>2 DEF SeenInv
  <2>3. \A s \in Threads : pc'[s] # pc[s] =>
          pc[s] \notin {"claimed", "thunk"} /\ pc'[s] \notin {"claimed", "thunk"}
    BY <1>10 DEF SwallowInThunk, TypeOK
  <2>4. \A d \in Callers : pc'[d] # pc[d] => QuietMove(d)
    BY <1>10 DEF SwallowInThunk, TypeOK, QuietMove, Registered, InLoop, InDrain, LoopInv, CountInv
  <2>5. UNCHANGED <<held, queue, index, batchVars, taskVars>>
    BY <1>10 DEF SwallowInThunk
  <2>6. QED
    BY <2>1, <2>2, <2>3, <2>4, <2>5, QuietInv
<1>11. ASSUME NEW t \in Threads, SpuriousWake(t) PROVE IndInv'
  <2>1. TypeOK'
    BY <1>11 DEF SpuriousWake, TypeOK, CallerPcs, WorkerPcs
  <2>2. SeenInv'
    BY <1>11 DEF SpuriousWake, TypeOK, SeenInv, BlankInv, Registered
  <2>3. \A s \in Threads : pc'[s] # pc[s] =>
          pc[s] \notin {"claimed", "thunk"} /\ pc'[s] \notin {"claimed", "thunk"}
    BY <1>11 DEF SpuriousWake, TypeOK
  <2>4. \A d \in Callers : pc'[d] # pc[d] => QuietMove(d)
    BY <1>11 DEF SpuriousWake, TypeOK, QuietMove, Registered, InLoop, InDrain, LoopInv, CountInv
  <2>5. UNCHANGED <<held, queue, index, batchVars, taskVars>>
    BY <1>11 DEF SpuriousWake
  <2>6. QED
    BY <2>1, <2>2, <2>3, <2>4, <2>5, QuietInv
<1>12. ASSUME ReadTarget PROVE IndInv'
  <2>1. TypeOK' /\ SeenInv' /\ pc' = pc
    BY <1>12 DEF ReadTarget, TypeOK, SeenInv
  <2>2. UNCHANGED <<held, queue, index, batchVars, taskVars>>
    BY <1>12 DEF ReadTarget
  <2>3. QED
    BY <2>1, <2>2, QuietInv
<1>13. QED
  BY <1>1, <1>2, <1>3, <1>4, <1>5, <1>6, <1>7, <1>8, <1>9, <1>10, <1>11, <1>12

-----------------------------------------------------------------------------
(* A thread takes a queued task: a worker the head, a caller its own.      *)
LEMMA TakesTask ==
  ASSUME IndInv, NEW t \in Threads, NEW x \in Tasks, Queued(x),
         queue' \in Seq(Tasks), Distinct(queue'),
         \A y : Queued(y)' <=> Queued(y) /\ y # x,
         held' = [held EXCEPT ![t] = x],
         pc' = [pc EXCEPT ![t] = "claimed"],
         pc[t] \notin {"claimed", "thunk"},
         t \in Callers => pc[t] \in {"look", "parked", "woken"} /\ x = <<t, index[t]>>,
         saturated' \in [Callers -> BOOLEAN],
         UNCHANGED <<gil, started, batchVars, taskVars, index, answer, pending, hostVars>>
  PROVE  IndInv'
<1> USE ParAssumption DEF IndInv, Threads, batchVars, taskVars, hostVars
<1>0. x # None
  BY DEF Tasks, Positions
<1>1. TypeOK'
  BY DEF TypeOK, CallerPcs, WorkerPcs
<1>2. HoldInv'
  BY <1>0 DEF TypeOK, HoldInv
<1>3. ClaimedOnce'
  <2>1. \A s \in Threads : held[s] # None => held[s] # x
    BY DEF ClaimedOnce
  <2>2. \A r, s \in Threads : r # s /\ held'[r] # None => held'[r] # held'[s]
    BY <2>1, <1>0 DEF ClaimedOnce, TypeOK
  <2>3. ASSUME NEW s \in Threads, NEW y, held'[s] # None, held'[s] = y
        PROVE  ~Queued(y)'
    <3>1. CASE s = t
      BY <3>1, <2>3 DEF TypeOK
    <3>2. CASE s # t
      <4>1. held[s] = y /\ held[s] # None
        BY <3>2, <2>3 DEF TypeOK
      <4>2. ~Queued(y)
        BY <4>1 DEF ClaimedOnce
      <4>3. QED
        BY <4>2
    <3>3. QED
      BY <3>1, <3>2
  <2>4. QED
    BY <2>2, <2>3 DEF ClaimedOnce, Distinct, Queued
<1>4. LiveInv'
  <2>1. \A s \in Threads : held'[s] # None => IsLive(held'[s])
    BY DEF LiveInv, TypeOK, IsLive
  <2>2. \A y \in Tasks : IsLive(y) => Queued(y)' \/ \E s \in Threads : held'[s] = y
    <3> SUFFICES ASSUME NEW y \in Tasks, IsLive(y), y # x
                 PROVE  Queued(y)' \/ \E s \in Threads : held'[s] = y
      BY DEF TypeOK
    <3>1. CASE Queued(y)
      BY <3>1
    <3>2. ASSUME NEW s \in Threads, held[s] = y PROVE held'[s] = y
      <4>1. y # None
        BY DEF Tasks, Positions
      <4>2. held[t] = None
        BY DEF HoldInv
      <4>3. QED
        BY <3>2, <4>1, <4>2 DEF TypeOK
    <3>3. QED
      BY <3>1, <3>2 DEF LiveInv
  <2>3. QED
    BY <2>1, <2>2 DEF LiveInv, IsLive
<1>5. CountInv'
  BY LiveSame DEF CountInv, TypeOK
<1>6. BlankInv'
  BY DEF BlankInv, Registered, TypeOK
<1>7. RunnerInv'
  BY RunnerFrame DEF TypeOK
<1>8. LoopInv'
  BY DEF LoopInv, Registered, InLoop, InDrain, TypeOK
<1>9. StopInv' /\ SeenInv'
  BY DEF StopInv, SeenInv
<1>10. QED
  BY <1>1, <1>2, <1>3, <1>4, <1>5, <1>6, <1>7, <1>8, <1>9

LEMMA WorkerClaimsInv ==
  ASSUME IndInv, NEW w \in Workers, WorkerClaims(w)
  PROVE  IndInv'
<1>1. queue \in Seq(Tasks) /\ Distinct(queue)
  BY DEF IndInv, TypeOK, ClaimedOnce, Distinct
<1>2. /\ queue' \in Seq(Tasks) /\ Distinct(queue')
      /\ Head(queue) \in Tasks /\ Queued(Head(queue))
      /\ \A y : Queued(y)' <=> Queued(y) /\ y # Head(queue)
  BY <1>1, TailRemoves DEF WorkerClaims
<1>3. /\ held' = [held EXCEPT ![w] = Head(queue)]
      /\ pc' = [pc EXCEPT ![w] = "claimed"]
      /\ pc[w] \notin {"claimed", "thunk"}
      /\ w \in Threads /\ w \notin Callers
      /\ saturated' \in [Callers -> BOOLEAN]
      /\ UNCHANGED <<gil, started, batchVars, taskVars, index, answer, pending, hostVars>>
  BY ParAssumption DEF WorkerClaims, Threads, IndInv, TypeOK, loopVars
<1>4. QED
  BY <1>2, <1>3, TakesTask

(* The caller runs its own task: at once when the pool is saturated, or    *)
(* after the wait.                                                         *)
LEMMA ClaimInv ==
  ASSUME IndInv, NEW c \in Callers, pc[c] \in {"look", "parked", "woken"},
         Queued(<<c, index[c]>>), Claim(c), saturated' \in [Callers -> BOOLEAN],
         UNCHANGED <<gil, started, batchVars, taskVars, index, answer, pending, hostVars>>
  PROVE  IndInv'
<1>1. queue \in Seq(Tasks) /\ Distinct(queue)
  BY DEF IndInv, TypeOK, ClaimedOnce, Distinct
<1>2. <<c, index[c]>> \in Tasks
  <2>1. index[c] \in Nat /\ submitted[c] \in Nat /\ index[c] >= 1
        /\ index[c] <= submitted[c] /\ submitted[c] <= Count
    BY DEF IndInv, LoopInv, InLoop, CountInv, TypeOK
  <2>2. QED
    BY <2>1, ParAssumption DEF Tasks, Positions
<1>3. /\ queue' \in Seq(Tasks) /\ Distinct(queue')
      /\ \A y : Queued(y)' <=> Queued(y) /\ y \notin {<<c, index[c]>>}
  BY <1>1, UnqueueRemoves DEF Claim
<1>4. /\ held' = [held EXCEPT ![c] = <<c, index[c]>>]
      /\ pc' = [pc EXCEPT ![c] = "claimed"]
      /\ pc[c] \notin {"claimed", "thunk"}
      /\ c \in Threads
  BY DEF Claim, Threads
<1>5. QED
  BY <1>2, <1>3, <1>4, TakesTask

LEMMA LookInv ==
  ASSUME IndInv, NEW c \in Callers, Look(c) \/ Timeout(c)
  PROVE  IndInv'
<1>1. /\ pc[c] \in {"look", "parked", "woken"}
      /\ UNCHANGED <<gil, started, batchVars, taskVars, index, answer, pending, hostVars>>
      /\ \/ Queued(<<c, index[c]>>) /\ Claim(c)
         \/ WaitOrGoOn(c) /\ saturated' = saturated
      /\ saturated' \in [Callers -> BOOLEAN]
  BY DEF Look, Timeout, loopVars, IndInv, TypeOK
<1>2. QED
  BY <1>1, ClaimInv, WaitOrGoOnInv

-----------------------------------------------------------------------------
(* `par` opens its batch, which is blank.                                  *)
LEMMA OpenBatchInv ==
  ASSUME IndInv, NEW c \in Callers, OpenBatch(c)
  PROVE  IndInv'
<1> USE ParAssumption DEF IndInv, batchVars, taskVars, hostVars
<1>0. PICK made \in SUBSET {w \in Workers : pc[w] = "absent"} :
        pc' = [t \in Threads |-> IF t = c THEN "submit"
                                 ELSE IF t \in made THEN "fetch" ELSE pc[t]]
  BY DEF OpenBatch
<1>a. /\ pc[c] = "block" /\ pc'[c] = "submit"
      /\ \A d \in Callers : d # c => pc'[d] = pc[d]
      /\ \A t \in Threads : pc'[t] \in {"claimed", "thunk"} <=> pc[t] \in {"claimed", "thunk"}
      /\ \A t \in Threads : pc'[t] = "thunk" <=> pc[t] = "thunk"
  BY <1>0 DEF OpenBatch, Threads
<1>b. /\ index' = [index EXCEPT ![c] = 1]
      /\ UNCHANGED <<gil, held, queue, batchVars, taskVars, pending, hostVars>>
  BY DEF OpenBatch
<1>1. TypeOK'
  <2>1. /\ pc' \in [Threads -> CallerPcs \cup WorkerPcs]
        /\ \A d \in Callers : pc'[d] \in CallerPcs
        /\ \A w \in Workers : pc'[w] \in WorkerPcs
    <3>1. \A d \in Callers : pc'[d] \in CallerPcs
      BY <1>a DEF TypeOK, CallerPcs
    <3>2. ASSUME NEW w \in Workers PROVE pc'[w] \in WorkerPcs
      <4>1. w \in Threads /\ w # c
        BY DEF Threads
      <4>2. pc'[w] = "fetch" \/ pc'[w] = pc[w]
        BY <4>1, <1>0
      <4>3. QED
        BY <4>2 DEF TypeOK, WorkerPcs
    <3>3. pc' = [t \in Threads |-> pc'[t]]
      BY <1>0
    <3>4. QED
      BY <3>1, <3>2, <3>3 DEF Threads
  <2>2. started' \in BOOLEAN /\ saturated' \in [Callers -> BOOLEAN]
        /\ answer' \in [Callers -> {None, <<"values">>, <<"interrupt">>} \cup ({"raise"} \X Positions)]
    BY DEF OpenBatch, TypeOK
  <2>3. QED
    BY <2>1, <2>2, <1>b DEF TypeOK
<1>2. HoldInv'
  <2>1. held[c] = None
    BY <1>a DEF HoldInv, Threads
  <2>2. QED
    BY <2>1, <1>a, <1>b DEF HoldInv, TypeOK
<1>3. ClaimedOnce' /\ LiveInv'
  BY <1>b, QueuedSame DEF ClaimedOnce, LiveInv, IsLive
<1>4. CountInv'
  BY <1>a, <1>b, LiveSame DEF CountInv
<1>5. BlankInv'
  BY <1>a, <1>b DEF BlankInv, Registered
<1>6. RunnerInv'
  BY <1>a, <1>b, RunnerFrame
<1>7. LoopInv'
  <2>1. submitted[c] = 0 /\ index'[c] = 1
    BY <1>a, <1>b DEF BlankInv, Registered, TypeOK
  <2>2. QED
    BY <2>1, <1>a, <1>b, SMTT(30) DEF LoopInv, Registered, InLoop, InDrain, Positions, TypeOK
<1>8. StopInv' /\ SeenInv'
  BY <1>b DEF StopInv, SeenInv
<1>9. QED
  BY <1>1, <1>2, <1>3, <1>4, <1>5, <1>6, <1>7, <1>8

(* The caller goes on to its next task.                                    *)
LEMMA RegainInv ==
  ASSUME IndInv, NEW c \in Callers, Regain(c)
  PROVE  IndInv'
<1> USE ParAssumption DEF IndInv, batchVars, taskVars, hostVars, Regain, Threads
<1>1. TypeOK'
  BY SMTT(30) DEF TypeOK, CallerPcs, WorkerPcs
<1>2. HoldInv'
  BY DEF HoldInv, TypeOK
<1>3. ClaimedOnce' /\ LiveInv'
  BY QueuedSame DEF ClaimedOnce, LiveInv, IsLive
<1>4. CountInv'
  BY LiveSame DEF CountInv, TypeOK
<1>5. BlankInv'
  BY DEF BlankInv, Registered, TypeOK
<1>6. RunnerInv'
  BY RunnerFrame DEF TypeOK
<1>7. LoopInv'
  <2>1. /\ index[c] \in Nat /\ submitted[c] \in Nat /\ index[c] >= 1
        /\ index[c] <= submitted[c] /\ submitted[c] <= Count
        /\ index'[c] = index[c] + 1 /\ pc'[c] = "submit"
        /\ finished[c][index[c]] \/ stopped[c]
    BY DEF LoopInv, InLoop, CountInv, TypeOK
  <2>2. \A j \in Positions : j < index'[c] => finished[c][j] \/ stopped[c]
    BY <2>1 DEF LoopInv, Registered, Positions
  <2>3. ASSUME NEW d \in Callers, d # c PROVE pc'[d] = pc[d] /\ index'[d] = index[d]
    BY <2>3 DEF TypeOK
  <2>4. QED
    BY <2>1, <2>2, <2>3 DEF LoopInv, Registered, InLoop, InDrain
<1>8. StopInv' /\ SeenInv'
  BY DEF StopInv, SeenInv
<1>9. QED
  BY <1>1, <1>2, <1>3, <1>4, <1>5, <1>6, <1>7, <1>8

(* A thread starts the thunk of the task it holds.                         *)
LEMMA StartTaskInv ==
  ASSUME IndInv, NEW t \in Threads, StartTask(t)
  PROVE  IndInv'
<1> USE ParAssumption DEF IndInv, batchVars, hostVars, loopVars
<1>0. PICK c \in Callers, i \in Positions : held[t] = <<c, i>>
  BY DEF StartTask, HoldInv, TypeOK, Tasks
<1>a. /\ pc[t] = "claimed" /\ pc' = [pc EXCEPT ![t] = "thunk"] /\ gil' = t
      /\ runner' = [runner EXCEPT ![c][i] = t]
      /\ UNCHANGED <<held, queue, started, batchVars, finished, result, loopVars, pending, hostVars>>
  BY <1>0 DEF StartTask
<1>1. TypeOK'
  BY <1>a DEF TypeOK, Threads, CallerPcs, WorkerPcs
<1>2. HoldInv'
  BY <1>a DEF HoldInv, TypeOK
<1>3. ClaimedOnce' /\ LiveInv'
  BY <1>a, QueuedSame DEF ClaimedOnce, LiveInv, IsLive
<1>4. CountInv'
  BY <1>a, LiveSame DEF CountInv, TypeOK, Threads
<1>5. BlankInv'
  BY <1>a, SMTT(30) DEF BlankInv, Registered, TypeOK
<1>6. RunnerInv'
  <2>1. ASSUME NEW d \in Callers, NEW j \in Positions, runner'[d][j] # None
        PROVE  pc'[runner'[d][j]] = "thunk" /\ held[runner'[d][j]] = <<d, j>>
    <3>1. CASE d = c /\ j = i
      BY <3>1, <1>0, <1>a DEF TypeOK
    <3>2. CASE ~(d = c /\ j = i)
      <4>1. runner'[d][j] = runner[d][j] /\ runner[d][j] \in Threads
        BY <3>2, <2>1, <1>a DEF TypeOK
      <4>2. pc[runner[d][j]] = "thunk" /\ held[runner[d][j]] = <<d, j>>
        BY <4>1, <2>1 DEF RunnerInv
      <4>3. QED
        BY <4>1, <4>2, <1>a DEF TypeOK
    <3>3. QED
      BY <3>1, <3>2
  <2>2. ASSUME NEW s \in Threads, pc'[s] = "thunk",
               NEW d \in Callers, NEW j \in Positions, held[s] = <<d, j>>
        PROVE  runner'[d][j] = s
    <3>1. CASE s = t
      BY <3>1, <2>2, <1>0, <1>a DEF TypeOK
    <3>2. CASE s # t
      <4>1. <<d, j>> # <<c, i>> /\ pc[s] = "thunk"
        <5>1. pc[s] = "thunk"
          BY <3>2, <2>2, <1>a DEF TypeOK
        <5>2. held[s] # None
          BY <5>1 DEF HoldInv
        <5>3. held[s] # held[t]
          BY <3>2, <5>2 DEF ClaimedOnce
        <5>4. QED
          BY <5>1, <5>3, <2>2, <1>0
      <4>2. runner[d][j] = s
        BY <4>1, <2>2 DEF RunnerInv
      <4>3. QED
        BY <4>1, <4>2, <1>a DEF TypeOK
    <3>3. QED
      BY <3>1, <3>2
  <2>3. held' = held
    BY <1>a
  <2> HIDE ParAssumption DEF IndInv
  <2>4. QED
    BY <2>1, <2>2, <2>3 DEF RunnerInv
<1>7. LoopInv'
  BY <1>a, SMTT(30) DEF LoopInv, Registered, InLoop, InDrain, TypeOK
<1>8. StopInv' /\ SeenInv'
  BY <1>a DEF StopInv, SeenInv
<1>9. QED
  BY <1>1, <1>2, <1>3, <1>4, <1>5, <1>6, <1>7, <1>8

-----------------------------------------------------------------------------
(* A broadcast moves only callers, and only from a wait to its wake-up.    *)
LEMMA BroadcastMoves ==
  ASSUME TypeOK
  PROVE  /\ Broadcast(pc) \in [Threads -> CallerPcs \cup WorkerPcs]
         /\ \A c \in Callers : \/ Broadcast(pc)[c] = pc[c]
                               \/ pc[c] = "parked" /\ Broadcast(pc)[c] = "woken"
                               \/ pc[c] = "drainParked" /\ Broadcast(pc)[c] = "drainWoken"
         /\ \A w \in Workers : Broadcast(pc)[w] = pc[w]
<1>1. \A c \in Callers : \/ Broadcast(pc)[c] = pc[c]
                         \/ pc[c] = "parked" /\ Broadcast(pc)[c] = "woken"
                         \/ pc[c] = "drainParked" /\ Broadcast(pc)[c] = "drainWoken"
  BY DEF Broadcast, Threads
<1>2. \A w \in Workers : Broadcast(pc)[w] = pc[w]
  BY ParAssumption DEF Broadcast, Threads
<1>3. \A t \in Threads : Broadcast(pc)[t] \in CallerPcs \cup WorkerPcs
  BY <1>1, <1>2 DEF Threads, TypeOK, CallerPcs
<1>4. QED
  BY <1>1, <1>2, <1>3 DEF Broadcast

(* A thread records its task: run, or skipped because the batch stopped.   *)
LEMMA RecordInv ==
  ASSUME IndInv, NEW t \in Threads, pc[t] \in {"claimed", "thunk"},
         NEW res \in Endings \cup {None}, res = None => stopped[held[t][1]],
         Record(t, res),
         pending' \in [Threads -> BOOLEAN], \A d \in Callers : pending'[d] => pending[d],
         UNCHANGED <<queue, started, submitted, interrupted, saturated, answer, hostVars>>
  PROVE  IndInv'
<1> USE ParAssumption DEF IndInv, hostVars
<1>h. held[t] # None /\ held[t] \in Tasks
  BY DEF HoldInv, TypeOK
<1>0. PICK c \in Callers, i \in Positions : held[t] = <<c, i>>
  BY <1>h DEF Tasks
<1>a. /\ finished' = [finished EXCEPT ![c][i] = TRUE]
      /\ runner' = [runner EXCEPT ![c][i] = None]
      /\ result' = [result EXCEPT ![c][i] = res]
      /\ stopped' = [stopped EXCEPT ![c] = @ \/ res = "stop"]
      /\ done' = [done EXCEPT ![c] = @ + 1]
      /\ outstanding' = [outstanding EXCEPT ![c] = @ - 1]
      /\ held' = [held EXCEPT ![t] = None]
  BY <1>0 DEF Record
<1>b. /\ t \in Callers => /\ pc' = [Broadcast(pc) EXCEPT ![t] = "submit"]
                          /\ index' = [index EXCEPT ![t] = @ + 1] /\ gil' = t
                          /\ c = t /\ i = index[t]
      /\ t \notin Callers => /\ pc' = [Broadcast(pc) EXCEPT ![t] = "fetch"]
                             /\ index' = index /\ gil' = None
  BY <1>0 DEF Record, HoldInv
<1>c. /\ pc' \in [Threads -> CallerPcs \cup WorkerPcs]
      /\ \A d \in Callers : \/ d = t /\ pc'[d] = "submit" /\ pc[d] \in {"claimed", "thunk"}
                            \/ d # t /\ pc'[d] = pc[d]
                            \/ d # t /\ pc[d] = "parked" /\ pc'[d] = "woken"
                            \/ d # t /\ pc[d] = "drainParked" /\ pc'[d] = "drainWoken"
      /\ \A w \in Workers : (w = t /\ pc'[w] = "fetch") \/ (w # t /\ pc'[w] = pc[w])
  <2>1. PICK p \in {"submit", "fetch"} :
          /\ pc' = [Broadcast(pc) EXCEPT ![t] = p]
          /\ t \in Callers => p = "submit"
          /\ t \notin Callers => p = "fetch"
    BY <1>b
  <2>2. pc' \in [Threads -> CallerPcs \cup WorkerPcs]
    BY <2>1, BroadcastMoves DEF CallerPcs, WorkerPcs
  <2>3. \A s \in Threads : pc'[s] = IF s = t THEN p ELSE Broadcast(pc)[s]
    BY <2>1, BroadcastMoves
  <2>4. ASSUME NEW d \in Callers
        PROVE  \/ d = t /\ pc'[d] = "submit" /\ pc[d] \in {"claimed", "thunk"}
               \/ d # t /\ pc'[d] = pc[d]
               \/ d # t /\ pc[d] = "parked" /\ pc'[d] = "woken"
               \/ d # t /\ pc[d] = "drainParked" /\ pc'[d] = "drainWoken"
    <3>1. d \in Threads
      BY DEF Threads
    <3>2. QED
      BY <3>1, <2>1, <2>3, BroadcastMoves
  <2>5. ASSUME NEW w \in Workers
        PROVE  (w = t /\ pc'[w] = "fetch") \/ (w # t /\ pc'[w] = pc[w])
    <3>1. w \in Threads /\ w \notin Callers
      BY DEF Threads
    <3>2. CASE w = t
      <4>1. p = "fetch"
        BY <3>1, <3>2, <2>1
      <4>2. pc'[w] = p
        BY <3>1, <3>2, <2>3
      <4>3. QED
        BY <3>2, <4>1, <4>2
    <3>3. CASE w # t
      <4>1. Broadcast(pc)[w] = pc[w]
        BY BroadcastMoves
      <4>2. QED
        BY <3>1, <3>3, <4>1, <2>3
    <3>4. QED
      BY <3>2, <3>3
  <2>6. QED
    BY <2>2, <2>4, <2>5
<1>d. /\ i <= submitted[c] /\ ~finished[c][i] /\ i \in Live(c)
      /\ submitted[c] \in Nat /\ Registered(c)
  <2>1. i <= submitted[c] /\ ~finished[c][i]
    <3>1. IsLive(held[t])
      BY <1>h DEF LiveInv
    <3>2. QED
      BY <3>1, <1>0 DEF IsLive
  <2>2. QED
    BY <2>1 DEF Live, Positions, BlankInv, TypeOK
<1>e. ASSUME NEW d \in Callers, NEW j \in Positions
      PROVE  /\ finished'[d][j] = IF d = c /\ j = i THEN TRUE ELSE finished[d][j]
             /\ result'[d][j] = IF d = c /\ j = i THEN res ELSE result[d][j]
  <2>1. /\ finished \in [Callers -> [Positions -> BOOLEAN]]
        /\ result \in [Callers -> [Positions -> Endings \cup {None}]]
    BY DEF TypeOK
  <2>2. finished'[d][j] = IF d = c /\ j = i THEN TRUE ELSE finished[d][j]
    BY <1>a, <2>1
  <2>3. result'[d][j] = IF d = c /\ j = i THEN res ELSE result[d][j]
    BY <1>a, <2>1
  <2>4. QED
    BY <2>2, <2>3
<1>1. TypeOK'
  <2>1. /\ \A d \in Callers : pc'[d] \in CallerPcs
        /\ \A w \in Workers : pc'[w] \in WorkerPcs
    BY <1>c DEF TypeOK, CallerPcs, WorkerPcs
  <2>2. /\ finished' \in [Callers -> [Positions -> BOOLEAN]]
        /\ runner' \in [Callers -> [Positions -> Threads \cup {None}]]
        /\ result' \in [Callers -> [Positions -> Endings \cup {None}]]
    BY <1>a DEF TypeOK
  <2>3. index' \in [Callers -> Nat] /\ gil' \in Threads \cup {None}
    <3>1. CASE t \in Callers
      <4>1. index' = [index EXCEPT ![t] = @ + 1] /\ gil' = t
        BY <3>1, <1>b
      <4>2. index \in [Callers -> Nat]
        BY DEF TypeOK
      <4>3. index[t] + 1 \in Nat
        BY <3>1, <4>2
      <4>4. QED
        BY <4>1, <4>2, <4>3
    <3>2. CASE t \notin Callers
      BY <3>2, <1>b DEF TypeOK
    <3>3. QED
      BY <3>1, <3>2
  <2>4. /\ done' \in [Callers -> Int] /\ outstanding' \in [Callers -> Int]
        /\ held' \in [Threads -> Tasks \cup {None}] /\ stopped' \in [Callers -> BOOLEAN]
    BY <1>a DEF TypeOK
  <2>5. QED
    BY <1>c, <2>1, <2>2, <2>3, <2>4 DEF TypeOK
<1>2. HoldInv'
  <2>1. ASSUME NEW s \in Threads PROVE held'[s] # None <=> pc'[s] \in {"claimed", "thunk"}
    BY <1>a, <1>c DEF HoldInv, TypeOK, Threads
  <2>2. ASSUME NEW d \in Callers, held'[d] # None PROVE held'[d] = <<d, index'[d]>>
    BY <2>2, <1>a, <1>b DEF HoldInv, TypeOK, Threads
  <2>3. QED
    BY <2>1, <2>2 DEF HoldInv
<1>3. ClaimedOnce'
  BY <1>a, QueuedSame DEF ClaimedOnce, TypeOK
<1>4. LiveInv'
  <2>1. \A y \in Tasks : IsLive(y)' <=> IsLive(y) /\ y # <<c, i>>
    BY <1>a, SMTT(30) DEF IsLive, TypeOK, Tasks
  <2>2. \A s \in Threads : held'[s] # None => held'[s] = held[s] /\ held[s] # <<c, i>>
    BY <1>0, <1>a DEF ClaimedOnce, TypeOK
  <2>3. \A y \in Tasks : Queued(y) => y # <<c, i>>
    <3>1. ~Queued(held[t])
      BY <1>h DEF ClaimedOnce
    <3>2. QED
      BY <3>1, <1>0
  <2>4. \A s \in Threads : held[s] # None /\ held[s] # <<c, i>> => held'[s] = held[s]
    BY <1>0, <1>a DEF TypeOK
  <2>5. \A s \in Threads : held'[s] # None => IsLive(held[s])'
    <3> SUFFICES ASSUME NEW s \in Threads, held'[s] # None PROVE IsLive(held[s])'
      OBVIOUS
    <3>1. PICK y \in Tasks : y = held'[s]
      BY <1>1 DEF TypeOK
    <3>2. IsLive(y)'
      BY <3>1, <2>1, <2>2 DEF LiveInv
    <3>3. QED
      BY <3>1, <3>2 DEF IsLive
  <2>6. ASSUME NEW y \in Tasks, IsLive(y)' PROVE Queued(y)' \/ \E s \in Threads : held'[s] = y
    <3>1. y # None
      BY DEF Tasks, Positions
    <3>2. QED
      BY <3>1, <2>6, <2>1, <2>4, QueuedSame DEF LiveInv
  <2>7. QED
    BY <2>1, <2>3, <2>5, <2>6, QueuedSame DEF LiveInv
<1>5. CountInv'
  <2>1. Live(c)' = Live(c) \ {i}
    BY <1>a, <1>d DEF Live, TypeOK, Positions, CountInv
  <2>2. \A d \in Callers : d # c => Live(d)' = Live(d)
    BY <1>a DEF Live, TypeOK
  <2>3. Cardinality(Live(c)') = Cardinality(Live(c)) - 1
    BY <2>1, <1>d, OutstandingNat, FS_RemoveElement
  <2>4. outstanding[c] # 0
    BY <1>d, OutstandingNat, FS_EmptySet DEF CountInv
  <2>5. \A d \in Callers : pc'[d] = "drained" => pc[d] = "drained" /\ d # c
    BY <1>c, <2>4 DEF CountInv
  <2>6. ASSUME NEW d \in Callers, d # c
        PROVE  outstanding'[d] = outstanding[d] /\ done'[d] = done[d]
    BY <2>6, <1>a DEF TypeOK
  <2>7. outstanding'[c] = outstanding[c] - 1 /\ done'[c] = done[c] + 1
        /\ outstanding[c] \in Int /\ done[c] \in Int
    BY <1>a DEF TypeOK
  <2>8. QED
    BY <2>2, <2>3, <2>5, <2>6, <2>7 DEF CountInv
<1>6. BlankInv'
  <2>1. ASSUME NEW d \in Callers, ~Registered(d)'
        PROVE  submitted'[d] = 0 /\ ~stopped'[d] /\ ~interrupted'[d]
    <3>1. ~Registered(d) /\ d # c
      BY <2>1, <1>c, <1>d DEF Registered
    <3>2. QED
      BY <3>1, <1>a DEF BlankInv, TypeOK
  <2>2. ASSUME NEW d \in Callers, NEW j \in Positions
        PROVE  /\ j > submitted[d] => ~finished'[d][j]
               /\ ~finished'[d][j] => result'[d][j] = None
    <3>1. CASE d = c /\ j = i
      <4>1. finished'[d][j] = TRUE
        BY <3>1, <1>e
      <4>2. j <= submitted[d] /\ submitted[d] \in Nat /\ j \in Nat
        BY <3>1, <1>d DEF Positions
      <4>3. QED
        BY <4>1, <4>2
    <3>2. CASE ~(d = c /\ j = i)
      <4>1. BlankInv
        OBVIOUS
      <4> HIDE ParAssumption DEF IndInv
      <4>2. finished'[d][j] = finished[d][j] /\ result'[d][j] = result[d][j]
        BY <3>2, <1>e
      <4>3. QED
        BY <4>1, <4>2 DEF BlankInv
    <3>3. QED
      BY <3>1, <3>2
  <2>3. QED
    BY <2>1, <2>2 DEF BlankInv
<1>7. RunnerInv'
  <2>1. ASSUME NEW d \in Callers, NEW j \in Positions, runner'[d][j] # None
        PROVE  pc'[runner'[d][j]] = "thunk" /\ held'[runner'[d][j]] = <<d, j>>
    <3>1. ~(d = c /\ j = i) /\ runner'[d][j] = runner[d][j] /\ runner[d][j] \in Threads
      <4>1. runner \in [Callers -> [Positions -> Threads \cup {None}]]
        BY DEF TypeOK
      <4>2. runner' = [runner EXCEPT ![c][i] = None]
        BY <1>a
      <4> HIDE ParAssumption DEF IndInv
      <4>3. runner'[d][j] = IF d = c /\ j = i THEN None ELSE runner[d][j]
        BY <4>1, <4>2
      <4>4. QED
        BY <4>1, <4>3, <2>1
    <3>2. pc[runner[d][j]] = "thunk" /\ held[runner[d][j]] = <<d, j>>
      <4>1. RunnerInv /\ runner[d][j] # None
        BY <3>1, <2>1
      <4> HIDE ParAssumption DEF IndInv
      <4>2. QED
        BY <4>1 DEF RunnerInv
    <3>3. runner[d][j] # t
      BY <3>1, <3>2, <1>0
    <3>4. QED
      BY <3>1, <3>2, <3>3, <1>a, <1>c DEF TypeOK, Threads
  <2>2. ASSUME NEW s \in Threads, pc'[s] = "thunk",
               NEW d \in Callers, NEW j \in Positions, held'[s] = <<d, j>>
        PROVE  runner'[d][j] = s
    <3>1. s # t /\ pc[s] = "thunk" /\ held[s] = <<d, j>>
      BY <2>2, <1>a, <1>c DEF TypeOK, Threads
    <3>2. runner[d][j] = s
      BY <3>1 DEF RunnerInv
    <3>3. ~(d = c /\ j = i)
      BY <3>1, <1>0 DEF ClaimedOnce, HoldInv
    <3>4. QED
      BY <3>2, <3>3, <1>a DEF TypeOK
  <2>3. QED
    BY <2>1, <2>2 DEF RunnerInv
<1>8. LoopInv'
  <2>1. \A d \in Callers, j \in Positions : finished[d][j] => finished'[d][j]
    BY <1>a DEF TypeOK
  <2>2. \A d \in Callers : stopped[d] => stopped'[d]
    BY <1>a DEF TypeOK
  <2>3. ASSUME NEW d \in Callers, d # t PROVE index'[d] = index[d]
    BY <2>3, <1>b DEF TypeOK
  <2>4. \A d \in Callers : index[d] \in Nat /\ submitted[d] \in Nat
    BY DEF TypeOK
  <2>5. ASSUME NEW d \in Callers, d # t
        PROVE  /\ Registered(d)' => \A j \in Positions : j < index'[d] => finished'[d][j] \/ stopped'[d]
               /\ index'[d] >= 1 /\ index'[d] <= Count + 1
               /\ pc'[d] = "submit" => index'[d] <= submitted'[d] + 1
               /\ pc'[d] \in InLoop => index'[d] <= submitted'[d]
               /\ pc'[d] = "regain" => finished'[d][index'[d]] \/ stopped'[d]
               /\ pc'[d] \in InDrain => index'[d] > Count \/ stopped'[d]
    <3>1. pc'[d] = "regain" => index[d] \in Positions
      BY <2>5, <2>4, <1>c DEF LoopInv, InLoop, CountInv, Positions
    <3>2. QED
      BY <3>1, <2>1, <2>2, <2>3, <2>4, <2>5, <1>c DEF LoopInv, Registered, InLoop, InDrain
  <2>6. ASSUME t \in Callers
        PROVE  /\ pc'[t] = "submit" /\ index'[t] = index[t] + 1
               /\ index[t] <= submitted[t] /\ submitted[t] <= Count /\ index[t] >= 1
               /\ \A j \in Positions : j < index'[t] => finished'[t][j] \/ stopped'[t]
    <3>1. pc'[t] = "submit" /\ index'[t] = index[t] + 1 /\ finished'[t][index[t]] = TRUE
      BY <2>6, <1>a, <1>b, <1>c DEF TypeOK
    <3>2. index[t] <= submitted[t] /\ submitted[t] <= Count /\ index[t] >= 1
      BY <2>6 DEF LoopInv, InLoop, CountInv
    <3>3. \A j \in Positions : j < index[t] => finished[t][j] \/ stopped[t]
      BY <2>6 DEF LoopInv, Registered
    <3>4. QED
      BY <2>1, <2>2, <2>4, <2>6, <3>1, <3>2, <3>3 DEF Positions
  <2>7. QED
    BY <2>4, <2>5, <2>6 DEF LoopInv, Registered, InLoop, InDrain
<1>9. StopInv'
  <2>1. stopped[held[t][1]] => stopped[c]
    BY <1>0
  <2>2. \A d \in Callers : stopped'[d] <=> stopped[d] \/ (d = c /\ res = "stop")
    BY <1>a DEF TypeOK
  <2>3. result[c][i] = None
    BY <1>d DEF BlankInv
  <2>4. ASSUME NEW d \in Callers, stopped'[d], ~interrupted[d]
        PROVE  \E j \in Positions : result'[d][j] = "stop"
    <3>1. CASE d = c /\ res = "stop"
      BY <3>1, <1>e
    <3>2. CASE stopped[d]
      <4>1. PICK j \in Positions : result[d][j] = "stop"
        BY <2>4, <3>2 DEF StopInv
      <4>2. ~(d = c /\ j = i)
        BY <4>1, <2>3 DEF Endings
      <4>3. QED
        BY <4>1, <4>2, <1>e
    <3>3. QED
      BY <3>1, <3>2, <2>4, <2>2
  <2>5. ASSUME NEW d \in Callers, NEW j \in Positions, finished'[d][j], result'[d][j] = None
        PROVE  stopped'[d]
    <3>1. CASE d = c /\ j = i
      <4>1. res = None
        BY <3>1, <1>e, <2>5
      <4>2. stopped[c]
        BY <4>1, <2>1
      <4>3. QED
        BY <4>2, <3>1, <2>2
    <3>2. CASE ~(d = c /\ j = i)
      <4>1. StopInv
        OBVIOUS
      <4> HIDE ParAssumption DEF IndInv
      <4>2. finished'[d][j] = finished[d][j] /\ result'[d][j] = result[d][j]
        BY <3>2, <1>e
      <4>3. stopped[d]
        BY <4>1, <4>2, <2>5 DEF StopInv
      <4>4. QED
        BY <4>3, <2>2
    <3>3. QED
      BY <3>1, <3>2
  <2>6. \A d \in Callers : interrupted[d] => stopped'[d]
    BY <2>2 DEF StopInv
  <2>7. QED
    BY <2>4, <2>5, <2>6 DEF StopInv
<1>10. SeenInv'
  <2>1. \A d \in Callers : seen[d] \in Nat /\ issued[d] \in Nat
    BY DEF TypeOK
  <2>2. QED
    BY <2>1 DEF SeenInv
<1>11. QED
  BY <1>1, <1>2, <1>3, <1>4, <1>5, <1>6, <1>7, <1>8, <1>9, <1>10


LEMMA RecordSteps ==
  ASSUME IndInv, NEW t \in Threads,
         SkipTask(t) \/ UnwindThunk(t) \/ \E res \in Results : EndThunk(t, res)
  PROVE  IndInv'
<1> USE DEF IndInv
<1>1. pending \in [Threads -> BOOLEAN] /\ \A d \in Callers : d \in Threads
  BY DEF TypeOK, Threads
<1>2. CASE SkipTask(t)
  <2>1. /\ pc[t] \in {"claimed", "thunk"} /\ stopped[held[t][1]] /\ Record(t, None)
        /\ UNCHANGED <<queue, started, submitted, interrupted, saturated, answer, hostVars>>
        /\ pending' = pending
    BY <1>2 DEF SkipTask
  <2>2. QED
    BY <1>1, <2>1, RecordInv
<1>3. CASE UnwindThunk(t)
  <2>1. /\ pc[t] \in {"claimed", "thunk"} /\ Record(t, "stop")
        /\ UNCHANGED <<queue, started, submitted, interrupted, saturated, answer, hostVars>>
        /\ pending' = [pending EXCEPT ![t] = FALSE]
    BY <1>3 DEF UnwindThunk
  <2>2. pending' \in [Threads -> BOOLEAN] /\ \A d \in Callers : pending'[d] => pending[d]
    BY <1>1, <2>1
  <2>3. "stop" \in Endings /\ "stop" # None
    BY ParAssumption DEF Endings
  <2>4. QED
    BY <2>1, <2>2, <2>3, RecordInv
<1>4. ASSUME NEW res \in Results, EndThunk(t, res) PROVE IndInv'
  <2>1. /\ pc[t] \in {"claimed", "thunk"} /\ Record(t, res)
        /\ UNCHANGED <<queue, started, submitted, interrupted, saturated, answer, hostVars>>
        /\ pending' = [pending EXCEPT ![t] = @ /\ t \in Callers]
    BY <1>4 DEF EndThunk
  <2>2. pending' \in [Threads -> BOOLEAN] /\ \A d \in Callers : pending'[d] => pending[d]
    BY <1>1, <2>1
  <2>3. res \in Endings /\ res # None
    BY ParAssumption
  <2>4. QED
    BY <2>1, <2>2, <2>3, RecordInv
<1>5. QED
  BY <1>2, <1>3, <1>4

-----------------------------------------------------------------------------
(* The submit loop keeps the quota, and queues the task it stands at.      *)
LEMMA RoomBounds ==
  ASSUME IndInv, NEW c \in Callers, pc[c] = "submit", index[c] <= Count, ~stopped[c]
  PROVE  /\ Room(c) \in Nat
         /\ submitted[c] + Room(c) <= Count
         /\ outstanding[c] + Room(c) <= Quota
         /\ index[c] <= submitted[c] + Room(c)
<1> USE ParAssumption DEF IndInv
<1>1. /\ submitted[c] \in Nat /\ done[c] \in Int /\ outstanding[c] \in Nat /\ index[c] \in Nat
      /\ submitted[c] <= Count /\ submitted[c] = done[c] + outstanding[c]
      /\ outstanding[c] <= Quota /\ index[c] <= submitted[c] + 1
  BY OutstandingNat DEF TypeOK, CountInv, LoopInv
<1>2. submitted[c] - done[c] = outstanding[c]
  BY <1>1
<1>3. ASSUME index[c] = submitted[c] + 1 PROVE outstanding[c] = 0
  <2>1. \A j \in Positions : j < index[c] => finished[c][j]
    BY DEF LoopInv, Registered
  <2>2. \A j \in 1..submitted[c] : j \in Positions /\ j < index[c]
    BY <1>1, <1>3 DEF Positions
  <2>3. Live(c) = {}
    BY <2>1, <2>2 DEF Live
  <2>4. QED
    BY <2>3, FS_EmptySet DEF CountInv
<1>4. Room(c) = IF Count - submitted[c] < Quota - outstanding[c]
                THEN Count - submitted[c]
                ELSE IF Quota > outstanding[c] THEN Quota - outstanding[c] ELSE 0
  BY <1>2 DEF Room
<1>5. QED
  <2> HIDE DEF IndInv
  <2>1. CASE index[c] = submitted[c] + 1
    <3>1. outstanding[c] = 0
      BY <2>1, <1>3
    <3>2. QED
      BY <2>1, <3>1, <1>1, <1>4
  <2>2. CASE index[c] <= submitted[c]
    BY <2>2, <1>1, <1>4
  <2>3. QED
    BY <2>1, <2>2, <1>1

LEMMA SubmitInv ==
  ASSUME IndInv, NEW c \in Callers, Submit(c)
  PROVE  IndInv'
<1> USE ParAssumption DEF IndInv
<1>s. PICK n, s : n = Room(c) /\ s = submitted[c]
  OBVIOUS
<1>0. /\ pc[c] = "submit" /\ index[c] <= Count /\ ~stopped[c]
      /\ queue' = queue \o [k \in 1..n |-> <<c, s + k>>]
      /\ submitted' = [submitted EXCEPT ![c] = @ + n]
      /\ outstanding' = [outstanding EXCEPT ![c] = @ + n]
      /\ UNCHANGED <<held, started, done, stopped, interrupted, taskVars, loopVars, pending, hostVars>>
      /\ gil' = None
  BY <1>s DEF Submit
<1>a. PICK S \in SUBSET Workers :
        /\ \A w \in S : pc[w] = "parked"
        /\ pc' = [t \in Threads |-> IF t = c THEN "look" ELSE IF t \in S THEN "woken" ELSE pc[t]]
  BY DEF Submit, Signalled
<1>b. /\ n \in Nat /\ s \in Nat /\ s + n <= Count
      /\ outstanding[c] + n <= Quota /\ index[c] <= s + n
  BY <1>s, <1>0, RoomBounds DEF TypeOK
<1>c. /\ pc'[c] = "look"
      /\ \A d \in Callers : d # c => pc'[d] = pc[d]
      /\ \A w \in Workers : pc'[w] = pc[w] \/ (pc[w] = "parked" /\ pc'[w] = "woken")
      /\ pc' \in [Threads -> CallerPcs \cup WorkerPcs]
  <2>1. c \in Threads /\ \A d \in Callers : d \notin S /\ d \in Threads
    BY DEF Threads
  <2>2. \A w \in Workers : w # c /\ w \in Threads
    BY DEF Threads
  <2>3. \A w \in Workers : pc'[w] = pc[w] \/ (pc[w] = "parked" /\ pc'[w] = "woken")
    BY <1>a, <2>2
  <2>4. pc'[c] = "look" /\ \A d \in Callers : d # c => pc'[d] = pc[d]
    BY <1>a, <2>1
  <2>5. \A t \in Threads : pc'[t] \in CallerPcs \cup WorkerPcs
    BY <1>a DEF TypeOK, CallerPcs, WorkerPcs
  <2>6. QED
    BY <1>a, <2>3, <2>4, <2>5
<1>d. \A t \in Threads : /\ pc'[t] \in {"claimed", "thunk"} <=> pc[t] \in {"claimed", "thunk"}
                         /\ pc'[t] = "thunk" <=> pc[t] = "thunk"
  BY <1>0, <1>c DEF Threads
<1>e. \A d \in Callers : /\ submitted'[d] = IF d = c THEN s + n ELSE submitted[d]
                         /\ outstanding'[d] = IF d = c THEN outstanding[c] + n ELSE outstanding[d]
                         /\ submitted[d] \in Nat /\ outstanding[d] \in Int
  BY <1>0, <1>s DEF TypeOK
<1>f. \A i \in Positions : i > s => ~Queued(<<c, i>>) /\ ~finished[c][i]
  <2> SUFFICES ASSUME NEW i \in Positions, i > s PROVE ~Queued(<<c, i>>) /\ ~finished[c][i]
    OBVIOUS
  <2>1. ~finished[c][i]
    BY <1>s DEF BlankInv
  <2>2. <<c, i>> \in Tasks /\ ~IsLive(<<c, i>>)
    BY <1>b, <1>s DEF Tasks, IsLive, Positions
  <2>3. QED
    BY <2>1, <2>2 DEF LiveInv
<1>g. /\ queue' \in Seq(Tasks) /\ Distinct(queue')
      /\ \A x : Queued(x)' <=> Queued(x) \/ \E i \in (s + 1)..(s + n) : x = <<c, i>>
  <2>1. queue \in Seq(Tasks) /\ Distinct(queue)
    BY DEF TypeOK, ClaimedOnce, Distinct
  <2>2. \A i \in Positions : i > s => ~Queued(<<c, i>>)
    BY <1>f
  <2> DEFINE add == [k \in 1..n |-> <<c, s + k>>]
  <2>3. queue' = queue \o add
    BY <1>0
  <2>4. n \in Nat /\ s \in Nat /\ s + n <= Count
    BY <1>b
  <2>5. \A k \in 1..n : add[k] = <<c, s + k>> /\ <<c, s + k>> \in Tasks
    BY <2>4 DEF Tasks, Positions
  <2>6. add \in Seq(Tasks) /\ Len(add) = n
    <3>1. add \in [1..n -> Tasks]
      BY <2>5
    <3>2. QED
      BY <3>1, <2>4, FunctionIsSeq
  <2> HIDE DEF IndInv, add
  <2>7. /\ queue' \in Seq(Tasks) /\ Len(queue') = Len(queue) + n
        /\ \A k \in 1..(Len(queue) + n) :
             queue'[k] = IF k <= Len(queue) THEN queue[k] ELSE add[k - Len(queue)]
    <3>1. PICK q \in Seq(Tasks), a \in Seq(Tasks) : q = queue /\ a = add
      BY <2>1, <2>6
    <3>2. /\ q \o a \in Seq(Tasks) /\ Len(q \o a) = Len(q) + Len(a)
          /\ \A k \in 1..(Len(q) + Len(a)) :
               (q \o a)[k] = IF k <= Len(q) THEN q[k] ELSE a[k - Len(q)]
      BY ConcatProperties
    <3>3. Len(a) = n /\ queue' = q \o a
      BY <2>3, <2>6, <3>1
    <3>4. QED
      BY <3>1, <3>2, <3>3
  <2>8. Len(queue) \in Nat
    BY <2>1
  <2>9. \A k \in 1..Len(queue) : queue'[k] = queue[k]
    BY <2>4, <2>7, <2>8
  <2>10. ASSUME NEW k \in 1..n PROVE queue'[Len(queue) + k] = <<c, s + k>>
    <3>1. /\ Len(queue) + k \in 1..(Len(queue) + n)
          /\ ~(Len(queue) + k <= Len(queue))
          /\ (Len(queue) + k) - Len(queue) = k
      BY <2>4, <2>8
    <3>2. queue'[Len(queue) + k] = add[(Len(queue) + k) - Len(queue)]
      BY <3>1, <2>7
    <3>3. QED
      BY <3>1, <3>2, <2>5
  <2>11. QED
    <3>1. Appended(c, s, n)
      BY <2>2, <2>4, <2>7, <2>9, <2>10 DEF Appended
    <3>2. queue' \in Seq(Tasks)
      BY <2>7
    <3>3. QED
      BY <2>1, <3>1, <3>2, SubmitAdds
<1>1. TypeOK'
  <2>1. /\ \A d \in Callers : pc'[d] \in CallerPcs
        /\ \A w \in Workers : pc'[w] \in WorkerPcs
    <3>1. /\ \A d \in Callers : pc[d] \in CallerPcs
          /\ \A w \in Workers : pc[w] \in WorkerPcs
      BY DEF TypeOK
    <3>2. "look" \in CallerPcs /\ "woken" \in WorkerPcs
      BY DEF CallerPcs, WorkerPcs
    <3> HIDE ParAssumption DEF IndInv
    <3>3. \A d \in Callers : pc'[d] \in CallerPcs
      BY <3>1, <3>2, <1>c
    <3>4. \A w \in Workers : pc'[w] \in WorkerPcs
      BY <3>1, <3>2, <1>c
    <3>5. QED
      BY <3>3, <3>4
  <2>2. submitted' \in [Callers -> Nat] /\ outstanding' \in [Callers -> Int]
    <3>1. submitted \in [Callers -> Nat] /\ outstanding \in [Callers -> Int] /\ n \in Nat
      BY <1>b DEF TypeOK
    <3>2. /\ submitted' = [submitted EXCEPT ![c] = @ + n]
          /\ outstanding' = [outstanding EXCEPT ![c] = @ + n]
      BY <1>0
    <3> HIDE ParAssumption DEF IndInv
    <3>3. QED
      BY <3>1, <3>2
  <2>3. TypeOK /\ gil' \in Threads \cup {None}
    BY <1>0
  <2>4. UNCHANGED <<held, started, done, stopped, interrupted, finished, runner, result,
                    index, saturated, answer, pending, running_thread, target, issued, seen>>
    BY <1>0 DEF taskVars, loopVars, hostVars
  <2>5. queue' \in Seq(Tasks)
    BY <1>g
  <2>6. pc' \in [Threads -> CallerPcs \cup WorkerPcs]
    BY <1>c
  <2> HIDE ParAssumption DEF IndInv
  <2>7. QED
    BY <2>1, <2>2, <2>3, <2>4, <2>5, <2>6 DEF TypeOK
<1>2. HoldInv'
  BY <1>0, <1>d DEF HoldInv, loopVars
<1>h. \A y \in Tasks : IsLive(y)' <=> IsLive(y) \/ \E i \in (s + 1)..(s + n) : y = <<c, i>>
  <2> SUFFICES ASSUME NEW d \in Callers, NEW j \in Positions, NEW y, y = <<d, j>>
               PROVE  IsLive(y)' <=> IsLive(y) \/ \E i \in (s + 1)..(s + n) : y = <<c, i>>
    BY DEF Tasks
  <2> HIDE DEF IndInv
  <2>1. IsLive(y)' <=> j <= submitted'[d] /\ ~finished[d][j]
    BY <1>0 DEF IsLive, taskVars
  <2>2. IsLive(y) <=> j <= submitted[d] /\ ~finished[d][j]
    BY DEF IsLive
  <2>3. CASE d # c
    BY <2>1, <2>2, <2>3, <1>e
  <2>4. CASE d = c
    <3>1. j \in Nat /\ submitted[c] = s
      BY <1>s DEF Positions
    <3>2. CASE j <= s
      BY <2>1, <2>2, <2>4, <3>1, <3>2, <1>b, <1>e
    <3>3. CASE j > s
      <4>1. ~finished[c][j]
        BY <3>3, <1>f
      <4>2. IsLive(y)' <=> j <= s + n
        BY <2>1, <2>4, <4>1, <1>e
      <4>3. j <= s + n <=> j \in (s + 1)..(s + n)
        BY <3>1, <3>3, <1>b
      <4>4. ~IsLive(y)
        BY <2>2, <2>4, <3>1, <3>3, <1>b
      <4>5. (\E i \in (s + 1)..(s + n) : y = <<c, i>>) <=> j \in (s + 1)..(s + n)
        BY <2>4
      <4>6. QED
        BY <4>2, <4>3, <4>4, <4>5
    <3>4. QED
      BY <3>1, <3>2, <3>3, <1>b
  <2>5. QED
    BY <2>3, <2>4
<1>i. ASSUME NEW y, NEW t \in Threads, held[t] = y, held[t] # None
      PROVE  y \in Tasks /\ IsLive(y) /\ ~Queued(y) /\ \A i \in (s + 1)..(s + n) : y # <<c, i>>
  <2>1. y \in Tasks /\ IsLive(y) /\ ~Queued(y)
    BY <1>i DEF LiveInv, ClaimedOnce, TypeOK
  <2>2. \A i \in (s + 1)..(s + n) : y # <<c, i>>
    BY <2>1, <1>b, <1>s DEF IsLive
  <2>3. QED
    BY <2>1, <2>2
<1>3. ClaimedOnce'
  <2>1. \A t, u \in Threads : t # u /\ held[t] # None => held[t] # held[u]
    BY DEF ClaimedOnce
  <2>2. ASSUME NEW t \in Threads, NEW y, held[t] = y, y # None PROVE ~Queued(y)'
    BY <2>2, <1>g, <1>i
  <2>3. QED
    <3>1. \A t \in Threads : held[t] # None => ~Queued(held[t])'
      BY <2>2, <1>0 DEF Queued
    <3>2. held' = held /\ \A j, k \in 1..Len(queue') : j # k => queue'[j] # queue'[k]
      BY <1>0, <1>g DEF Distinct
    <3>3. QED
      BY <2>1, <3>1, <3>2 DEF ClaimedOnce, Queued
<1>4. LiveInv'
  <2>1. ASSUME NEW t \in Threads, NEW y, held[t] = y, y # None PROVE IsLive(y)'
    BY <2>1, <1>h, <1>i
  <2>2. \A y \in Tasks : Queued(y)' => IsLive(y)'
    BY <1>g, <1>h DEF LiveInv
  <2>3. \A y \in Tasks : IsLive(y)' => Queued(y)' \/ \E t \in Threads : held[t] = y
    BY <1>g, <1>h DEF LiveInv
  <2>4. QED
    BY <2>1, <2>2, <2>3, <1>0 DEF LiveInv, IsLive
<1>5. CountInv'
  <2>1. \A d \in Callers : d # c => Live(d)' = Live(d)
    BY <1>0, <1>e DEF Live, taskVars
  <2> DEFINE new == (s + 1)..(s + n)
  <2>2. Live(c)' = Live(c) \cup new
    <3>1. Live(c)' = {i \in 1..(s + n) : ~finished[c][i]}
      BY <1>0, <1>e DEF Live, taskVars
    <3>2. Live(c) = {i \in 1..s : ~finished[c][i]}
      BY <1>s DEF Live
    <3>3. \A i \in new : i \in Positions /\ i > s
      BY <1>b DEF Positions
    <3>4. \A i \in new : ~finished[c][i]
      BY <3>3, <1>f
    <3> HIDE DEF IndInv
    <3>5. 1..(s + n) = (1..s) \cup new
      BY <1>b
    <3>6. QED
      BY <3>1, <3>2, <3>4, <3>5
  <2>3. Live(c) \cap new = {}
    BY <1>b, <1>s DEF Live
  <2>4. IsFiniteSet(new) /\ Cardinality(new) = n
    <3>1. s + 1 \in Int /\ s + n \in Int
      BY <1>b
    <3>2. IsFiniteSet(new) /\ Cardinality(new) = IF s + 1 > s + n THEN 0 ELSE (s + n) - (s + 1) + 1
      BY <3>1, FS_Interval
    <3>3. QED
      BY <3>2, <1>b
  <2>5. IsFiniteSet(Live(c)) /\ outstanding[c] \in Nat /\ outstanding[c] = Cardinality(Live(c))
    BY OutstandingNat DEF CountInv
  <2> HIDE DEF new
  <2>6. Cardinality(Live(c) \cup new) = outstanding[c] + n
    <3>1. Cardinality(Live(c) \cup new) = Cardinality(Live(c)) + Cardinality(new) - Cardinality(Live(c) \cap new)
      BY <2>4, <2>5, FS_Union
    <3>2. Cardinality(Live(c) \cap new) = 0
      BY <2>3, FS_EmptySet
    <3>3. QED
      BY <3>1, <3>2, <2>4, <2>5, <1>b
  <2>7. done' = done /\ done[c] \in Int /\ s = done[c] + outstanding[c]
    BY <1>0, <1>s DEF CountInv, TypeOK
  <2>8. /\ submitted'[c] <= Count
        /\ submitted'[c] = done'[c] + outstanding'[c]
        /\ outstanding'[c] = Cardinality(Live(c)')
        /\ outstanding'[c] <= Quota
        /\ pc'[c] # "drained"
    BY <2>2, <2>5, <2>6, <2>7, <1>b, <1>c, <1>e
  <2>9. ASSUME NEW d \in Callers, d # c
        PROVE  /\ submitted'[d] <= Count
               /\ submitted'[d] = done'[d] + outstanding'[d]
               /\ outstanding'[d] = Cardinality(Live(d)')
               /\ outstanding'[d] <= Quota
               /\ pc'[d] = "drained" => outstanding'[d] = 0
    BY <2>9, <2>1, <2>7, <1>c, <1>e DEF CountInv
  <2>10. QED
    BY <2>8, <2>9 DEF CountInv
<1>6. BlankInv'
  <2>1. ASSUME NEW d \in Callers, ~Registered(d)'
        PROVE  submitted'[d] = 0 /\ ~stopped[d] /\ ~interrupted[d]
    BY <2>1, <1>c, <1>e DEF BlankInv, Registered
  <2>2. ASSUME NEW d \in Callers, NEW j \in Positions
        PROVE  /\ j > submitted'[d] => ~finished[d][j]
               /\ ~finished[d][j] => result[d][j] = None
    BY <1>b, <1>e, <1>f, <1>s DEF BlankInv, Positions
  <2>3. QED
    BY <2>1, <2>2, <1>0 DEF BlankInv, taskVars
<1>7. RunnerInv'
  BY <1>0, <1>d, RunnerFrame DEF taskVars
<1>8. LoopInv'
  <2>1. \A d \in Callers : index[d] \in Nat
    BY DEF TypeOK
  <2>2. /\ \A j \in Positions : j < index[c] => finished[c][j] \/ stopped[c]
        /\ index[c] >= 1 /\ index[c] <= Count + 1
    BY <1>0 DEF LoopInv, Registered
  <2>3. index[c] <= submitted'[c]
    BY <1>b, <1>e
  <2>4. ASSUME NEW d \in Callers, d # c PROVE pc'[d] = pc[d] /\ submitted'[d] = submitted[d]
    BY <2>4, <1>c, <1>e
  <2>5. index' = index /\ finished' = finished /\ stopped' = stopped
    BY <1>0 DEF loopVars, taskVars
  <2>6. QED
    BY <2>2, <2>3, <2>4, <2>5, <1>c DEF LoopInv, Registered, InLoop, InDrain
<1>9. StopInv' /\ SeenInv'
  BY <1>0 DEF StopInv, SeenInv, taskVars, hostVars
<1>10. QED
  BY <1>1, <1>2, <1>3, <1>4, <1>5, <1>6, <1>7, <1>8, <1>9

-----------------------------------------------------------------------------
(* The first of several positions exists.                                  *)
LEMMA LeastElement ==
  ASSUME NEW S \in SUBSET Nat, S # {}
  PROVE  First(S) \in S
<1>1. PICK R : IsWellFoundedOn(R, Nat) /\ \A x, y \in Nat : x < y => <<x, y>> \in R
  <2> DEFINE Q == OpToRel(<, Nat)
  <2>1. IsWellFoundedOn(Q, Nat)
    BY NatLessThanWellFounded
  <2>2. \A x, y \in Nat : x < y => <<x, y>> \in Q
    BY DEF OpToRel
  <2> HIDE DEF Q
  <2>3. QED
    BY <2>1, <2>2
<1>2. S \subseteq Nat /\ IsWellFoundedOn(R, Nat)
  BY <1>1
<1>3. PICK x \in S : \A y \in S : ~(<<y, x>> \in R)
  BY <1>2, WFMin
<1>4. ASSUME NEW y \in S PROVE x <= y
  <2>1. ~(y < x)
    BY <1>1, <1>3
  <2>2. QED
    BY <2>1
<1>5. QED
  BY <1>4 DEF First

LEMMA ChosenType ==
  ASSUME TypeOK, NEW c \in Callers
  PROVE  Chosen(c) \in {<<"values">>, <<"interrupt">>} \cup ({"raise"} \X Positions)
<1>1. Stops(c) \in SUBSET Nat /\ Stops(c) \in SUBSET Positions
  BY DEF Stops, Positions
<1>2. Errors(c) \in SUBSET Nat /\ Errors(c) \in SUBSET Positions
  BY DEF Errors, Positions
<1>3. Stops(c) # {} => First(Stops(c)) \in Positions
  BY <1>1, LeastElement
<1>4. Errors(c) # {} => First(Errors(c)) \in Positions
  BY <1>2, LeastElement
<1>5. QED
  BY <1>3, <1>4 DEF Chosen

(* With nothing outstanding, nobody holds or queues a task of the batch.   *)
LEMMA NothingLeft ==
  ASSUME IndInv, NEW c \in Callers, outstanding[c] = 0
  PROVE  /\ Live(c) = {}
         /\ \A x \in Tasks : x[1] = c => ~IsLive(x) /\ ~Queued(x)
         /\ \A t \in Threads : ~Holds(t, c)
<1> USE DEF IndInv
<1>1. Live(c) = {}
  BY OutstandingNat, FS_EmptySet DEF CountInv
<1>2. ASSUME NEW d \in Callers, NEW i \in Positions, d = c PROVE ~IsLive(<<d, i>>)
  <2>1. i \in Nat /\ i >= 1 /\ submitted[c] \in Nat
    BY DEF Positions, TypeOK
  <2>2. ~(i <= submitted[c] /\ ~finished[c][i])
    BY <1>1, <2>1 DEF Live
  <2>3. QED
    BY <1>2, <2>2 DEF IsLive
<1>3. \A x \in Tasks : x[1] = c => ~IsLive(x)
  BY <1>2 DEF Tasks
<1>4. \A x \in Tasks : x[1] = c => ~Queued(x)
  BY <1>3 DEF LiveInv
<1>5. ASSUME NEW t \in Threads, Holds(t, c) PROVE FALSE
  <2>1. held[t] \in Tasks /\ held[t][1] = c /\ IsLive(held[t])
    BY <1>5 DEF Holds, TypeOK, LiveInv
  <2>2. QED
    BY <2>1, <1>3
<1>6. QED
  BY <1>1, <1>3, <1>4, <1>5

(* `par` answers: the batch is blank again.                                *)
LEMMA AnswerInv ==
  ASSUME IndInv, NEW c \in Callers, pc[c] \in {"submit", "drained"},
         outstanding[c] = 0, Answer(c)
  PROVE  IndInv'
<1> USE ParAssumption DEF IndInv
<1>0. /\ \A x \in Tasks : x[1] = c => ~IsLive(x) /\ ~Queued(x)
      /\ \A t \in Threads : ~Holds(t, c)
  BY NothingLeft
<1>a. /\ pc' = [pc EXCEPT ![c] = "block"] /\ gil' = c
      /\ UNCHANGED <<held, queue, started, index, saturated, running_thread, target, issued>>
  BY DEF Answer
<1>b. ASSUME NEW d \in Callers, d # c
      PROVE  /\ submitted'[d] = submitted[d] /\ done'[d] = done[d] /\ outstanding'[d] = outstanding[d]
             /\ stopped'[d] = stopped[d] /\ interrupted'[d] = interrupted[d]
             /\ finished'[d] = finished[d] /\ runner'[d] = runner[d] /\ result'[d] = result[d]
  BY <1>b DEF Answer, TypeOK
<1>c. /\ submitted'[c] = 0 /\ done'[c] = 0 /\ outstanding'[c] = 0
      /\ stopped'[c] = FALSE /\ interrupted'[c] = FALSE
      /\ \A i \in Positions : finished'[c][i] = FALSE /\ runner'[c][i] = None /\ result'[c][i] = None
  BY DEF Answer, TypeOK
<1>d. \A t \in Threads : pc'[t] = IF t = c THEN "block" ELSE pc[t]
  BY <1>a DEF TypeOK
<1>e. c \in Threads /\ \A d \in Callers : d \in Threads
  BY DEF Threads
<1>1. TypeOK'
  <2>1. /\ pc' \in [Threads -> CallerPcs \cup WorkerPcs]
        /\ \A d \in Callers : pc'[d] \in CallerPcs
        /\ \A w \in Workers : pc'[w] \in WorkerPcs
    <3>1. pc' \in [Threads -> CallerPcs \cup WorkerPcs]
      BY <1>a DEF TypeOK, CallerPcs
    <3>2. \A d \in Callers : pc'[d] \in CallerPcs
      BY <1>d, <1>e DEF TypeOK, CallerPcs
    <3>3. \A w \in Workers : w \in Threads /\ w # c
      BY DEF Threads
    <3>4. \A w \in Workers : pc'[w] \in WorkerPcs
      BY <1>d, <3>3 DEF TypeOK
    <3>5. QED
      BY <3>1, <3>2, <3>4
  <2>2. /\ finished' \in [Callers -> [Positions -> BOOLEAN]]
        /\ runner' \in [Callers -> [Positions -> Threads \cup {None}]]
        /\ result' \in [Callers -> [Positions -> Endings \cup {None}]]
    BY DEF Answer, TypeOK
  <2>3. /\ submitted' \in [Callers -> Nat] /\ done' \in [Callers -> Int]
        /\ outstanding' \in [Callers -> Int] /\ stopped' \in [Callers -> BOOLEAN]
        /\ interrupted' \in [Callers -> BOOLEAN]
    BY DEF Answer, TypeOK
  <2>4. answer' \in [Callers -> {None, <<"values">>, <<"interrupt">>} \cup ({"raise"} \X Positions)]
    <3>1. PICK v : v = Chosen(c)
      OBVIOUS
    <3>2. v \in {<<"values">>, <<"interrupt">>} \cup ({"raise"} \X Positions)
      BY <3>1, ChosenType
    <3>3. answer' = [answer EXCEPT ![c] = v]
      BY <3>1 DEF Answer
    <3>4. QED
      BY <3>2, <3>3 DEF TypeOK
  <2>5. pending' \in [Threads -> BOOLEAN] /\ seen' \in [Callers -> Nat]
    <3>1. pending' \in [Threads -> BOOLEAN]
      BY DEF Answer, TypeOK
    <3>2. PICK m \in Nat : seen' = [seen EXCEPT ![c] = m]
      <4>1. seen[c] \in Nat /\ seen[c] + 1 \in Nat
        <5>1. seen \in [Callers -> Nat]
          BY DEF TypeOK
        <5> HIDE DEF IndInv
        <5>2. QED
          BY <5>1
      <4>2. seen' = [seen EXCEPT ![c] = IF interrupted[c] THEN seen[c] + 1 ELSE seen[c]]
        BY DEF Answer
      <4>3. QED
        BY <4>1, <4>2
    <3>3. QED
      BY <3>1, <3>2 DEF TypeOK
  <2>6. gil' \in Threads \cup {None}
    BY <1>a, <1>e
  <2>7. QED
    BY <1>a, <2>1, <2>2, <2>3, <2>4, <2>5, <2>6 DEF TypeOK
<1>2. HoldInv'
  <2>1. held[c] = None
    BY <1>e DEF HoldInv
  <2>2. QED
    BY <2>1, <1>a, <1>d DEF HoldInv
<1>3. ClaimedOnce'
  BY <1>a, QueuedSame DEF ClaimedOnce
<1>4. LiveInv'
  <2>1. ASSUME NEW d \in Callers, NEW i \in Positions, NEW y, y = <<d, i>>
        PROVE  IsLive(y)' <=> IsLive(y)
    <3>1. CASE d = c
      <4>1. y \in Tasks /\ ~IsLive(y)
        BY <2>1, <3>1, <1>0 DEF Tasks
      <4>2. ~(i <= submitted'[d])
        BY <3>1, <1>c DEF Positions
      <4>3. QED
        BY <2>1, <4>1, <4>2 DEF IsLive
    <3>2. CASE d # c
      BY <2>1, <3>2, <1>b DEF IsLive
    <3>3. QED
      BY <3>1, <3>2
  <2>2. \A y \in Tasks : IsLive(y)' <=> IsLive(y)
    BY <2>1 DEF Tasks
  <2>3. ASSUME NEW t \in Threads, NEW y, held[t] = y, y # None PROVE IsLive(y)'
    BY <2>2, <2>3 DEF LiveInv, TypeOK
  <2>4. \A y \in Tasks : Queued(y)' <=> Queued(y)
    BY <1>a, QueuedSame
  <2>5. \A t \in Threads : held'[t] # None => IsLive(held[t])'
    BY <2>3, <1>a DEF IsLive
  <2>6. QED
    BY <2>2, <2>4, <2>5, <1>a DEF LiveInv, IsLive
<1>5. CountInv'
  <2>1. Live(c)' = {} /\ \A d \in Callers : d # c => Live(d)' = Live(d)
    <3>1. Live(c)' = {}
      BY <1>c DEF Live
    <3>2. ASSUME NEW d \in Callers, d # c PROVE Live(d)' = Live(d)
      <4>1. submitted'[d] = submitted[d] /\ finished'[d] = finished[d]
        BY <3>2, <1>b
      <4>2. QED
        BY <4>1 DEF Live
    <3>3. QED
      BY <3>1, <3>2
  <2>2. Cardinality(Live(c)') = 0
    BY <2>1, FS_EmptySet
  <2>3. \A d \in Callers : d # c => pc'[d] = pc[d]
    BY <1>d, <1>e
  <2>4. QED
    <3>1. ASSUME NEW d \in Callers, d # c
          PROVE  /\ submitted'[d] <= Count
                 /\ submitted'[d] = done'[d] + outstanding'[d]
                 /\ outstanding'[d] = Cardinality(Live(d)')
                 /\ outstanding'[d] <= Quota
                 /\ pc'[d] = "drained" => outstanding'[d] = 0
      BY <3>1, <2>1, <2>3, <1>b DEF CountInv
    <3>2. /\ submitted'[c] <= Count
          /\ submitted'[c] = done'[c] + outstanding'[c]
          /\ outstanding'[c] = Cardinality(Live(c)')
          /\ outstanding'[c] <= Quota
      BY <2>2, <1>c
    <3>3. QED
      BY <3>1, <3>2, <1>c DEF CountInv
<1>6. BlankInv'
  <2>1. \A d \in Callers : d # c => (Registered(d)' <=> Registered(d))
    BY <1>d, <1>e DEF Registered
  <2>2. ASSUME NEW d \in Callers, d # c
        PROVE  /\ ~Registered(d)' => submitted'[d] = 0 /\ ~stopped'[d] /\ ~interrupted'[d]
               /\ \A i \in Positions : /\ i > submitted'[d] => ~finished'[d][i]
                                       /\ ~finished'[d][i] => result'[d][i] = None
    BY <2>1, <2>2, <1>b DEF BlankInv
  <2>3. QED
    BY <2>2, <1>c DEF BlankInv
<1>7. RunnerInv'
  <2>1. ASSUME NEW d \in Callers, NEW i \in Positions, runner'[d][i] # None
        PROVE  pc'[runner'[d][i]] = "thunk" /\ held[runner'[d][i]] = <<d, i>>
    <3>1. d # c /\ runner'[d][i] = runner[d][i] /\ runner[d][i] \in Threads
      <4>1. d # c
        BY <2>1, <1>c
      <4>2. runner'[d] = runner[d]
        BY <4>1, <1>b
      <4>3. QED
        BY <2>1, <4>1, <4>2 DEF TypeOK
    <3>2. pc[runner[d][i]] = "thunk" /\ held[runner[d][i]] = <<d, i>>
      BY <2>1, <3>1 DEF RunnerInv
    <3>3. QED
      BY <3>1, <3>2, <1>d
  <2>2. ASSUME NEW t \in Threads, pc'[t] = "thunk",
               NEW d \in Callers, NEW i \in Positions, held[t] = <<d, i>>
        PROVE  runner'[d][i] = t
    <3>1. t # c /\ pc[t] = "thunk"
      BY <2>2, <1>d
    <3>2. d # c
      <4>1. held[t] # None
        BY <3>1 DEF HoldInv
      <4>2. QED
        <5>1. held[t][1] = d
          BY <2>2
        <5>2. ~(held[t][1] = c)
          BY <4>1, <1>0 DEF Holds
        <5>3. QED
          BY <5>1, <5>2
    <3>3. QED
      <4>1. runner'[d] = runner[d]
        BY <3>2, <1>b
      <4>2. runner[d][i] = t
        BY <3>1, <2>2 DEF RunnerInv
      <4>3. QED
        BY <4>1, <4>2
  <2>3. QED
    BY <2>1, <2>2, <1>a DEF RunnerInv
<1>8. LoopInv'
  <2>1. \A d \in Callers : d # c => pc'[d] = pc[d]
    BY <1>d, <1>e
  <2>2. ASSUME NEW d \in Callers, d # c
        PROVE  submitted'[d] = submitted[d] /\ finished'[d] = finished[d] /\ stopped'[d] = stopped[d]
    BY <2>2, <1>b
  <2>3. pc'[c] = "block"
    BY <1>d, <1>e
  <2>4. QED
    BY <2>1, <2>2, <2>3, <1>a DEF LoopInv, Registered, InLoop, InDrain
<1>9. StopInv'
  <2>1. ASSUME NEW d \in Callers, d # c
        PROVE  /\ interrupted'[d] => stopped'[d]
               /\ stopped'[d] => interrupted'[d] \/ \E i \in Positions : result'[d][i] = "stop"
               /\ \A i \in Positions : finished'[d][i] /\ result'[d][i] = None => stopped'[d]
    BY <2>1, <1>b DEF StopInv
  <2>2. QED
    BY <2>1, <1>c DEF StopInv
<1>10. SeenInv'
  <2>1. ASSUME NEW d \in Callers PROVE seen[d] \in Nat /\ issued[d] \in Nat
    BY DEF TypeOK
  <2>2. ASSUME NEW d \in Callers, d # c PROVE pending'[d] = pending[d] /\ seen'[d] = seen[d]
    BY <2>2, <1>e DEF Answer, TypeOK
  <2>3. pending'[c] <=> pending[c] /\ ~interrupted[c]
    BY <1>e DEF Answer, TypeOK
  <2>4. seen'[c] = IF interrupted[c] THEN seen[c] + 1 ELSE seen[c]
    BY DEF Answer, TypeOK
  <2>5. IF pending'[c] \/ interrupted'[c] THEN seen'[c] + 1 <= issued[c] ELSE seen'[c] <= issued[c]
    BY <2>1, <2>3, <2>4, <1>c DEF SeenInv
  <2>6. ASSUME NEW d \in Callers, d # c
        PROVE  IF pending'[d] \/ interrupted'[d] THEN seen'[d] + 1 <= issued[d] ELSE seen'[d] <= issued[d]
    BY <2>2, <2>6, <1>b DEF SeenInv
  <2>7. QED
    BY <2>5, <2>6, <1>a DEF SeenInv
<1>11. QED
  BY <1>1, <1>2, <1>3, <1>4, <1>5, <1>6, <1>7, <1>8, <1>9, <1>10

-----------------------------------------------------------------------------
(* A stopped batch takes its queued tasks back.                            *)
LEMMA DrainInv ==
  ASSUME IndInv, NEW c \in Callers, Drain(c)
  PROVE  IndInv'
<1> USE ParAssumption DEF IndInv
<1>0. PICK B : /\ B = IF stopped[c]
                      THEN {i \in 1..submitted[c] : ~finished[c][i] /\ Queued(<<c, i>>)}
                      ELSE {}
               /\ Unqueue({c} \X B)
               /\ finished' = [finished EXCEPT ![c] = [i \in Positions |-> finished[c][i] \/ i \in B]]
               /\ done' = [done EXCEPT ![c] = @ + Cardinality(B)]
               /\ outstanding' = [outstanding EXCEPT ![c] = @ - Cardinality(B)]
               /\ pc' = [pc EXCEPT ![c] = IF outstanding[c] > Cardinality(B)
                                          THEN "drainParked" ELSE "drained"]
  BY DEF Drain
<1>a. /\ pc[c] = "drain"
      /\ UNCHANGED <<gil, held, started, submitted, stopped, interrupted, runner, result, loopVars, pending, hostVars>>
  BY DEF Drain
<1>b. \A i \in B : i \in 1..submitted[c] /\ ~finished[c][i] /\ Queued(<<c, i>>) /\ stopped[c]
  BY <1>0
<1>c. B \subseteq Live(c) /\ B \subseteq Positions
  <2>1. submitted[c] \in Nat /\ submitted[c] <= Count
    BY DEF TypeOK, CountInv
  <2>2. \A i \in 1..submitted[c] : i \in Positions
    BY <2>1 DEF Positions
  <2>3. ASSUME NEW i \in B PROVE i \in 1..submitted[c] /\ ~finished[c][i]
    BY <1>b
  <2>4. QED
    BY <2>2, <2>3 DEF Live
<1>d. /\ IsFiniteSet(B) /\ Cardinality(B) \in Nat /\ Cardinality(B) <= outstanding[c]
      /\ Cardinality(Live(c) \ B) = outstanding[c] - Cardinality(B)
  <2>1. IsFiniteSet(Live(c)) /\ outstanding[c] \in Nat /\ outstanding[c] = Cardinality(Live(c))
    BY OutstandingNat DEF CountInv
  <2>2. B \in SUBSET Live(c) /\ Live(c) \cap B = B
    BY <1>c
  <2>3. IsFiniteSet(B) /\ Cardinality(B) <= Cardinality(Live(c))
    BY <2>1, <2>2, FS_Subset
  <2>4. Cardinality(B) \in Nat
    BY <2>3, FS_CardinalityType
  <2>5. Cardinality(Live(c) \ B) = Cardinality(Live(c)) - Cardinality(Live(c) \cap B)
    BY <2>1, FS_Difference
  <2>6. QED
    BY <2>1, <2>2, <2>3, <2>4, <2>5
<1>e. PICK m \in Nat : m = Cardinality(B)
  BY <1>d
<1>f. PICK p \in {"drainParked", "drained"} :
        pc' = [pc EXCEPT ![c] = p] /\ (p = "drained" => outstanding[c] = m)
  <2>1. outstanding[c] \in Int
    BY DEF TypeOK
  <2>2. pc' = [pc EXCEPT ![c] = IF outstanding[c] > m THEN "drainParked" ELSE "drained"]
    BY <1>0, <1>e
  <2>3. m <= outstanding[c]
    BY <1>d, <1>e
  <2> HIDE DEF IndInv
  <2>4. CASE outstanding[c] > m
    BY <2>2, <2>4
  <2>5. CASE ~(outstanding[c] > m)
    <3>1. outstanding[c] = m
      BY <2>1, <2>3, <2>5, <1>e
    <3>2. QED
      BY <2>2, <2>5, <3>1
  <2>6. QED
    BY <2>4, <2>5
<1>g. /\ c \in Threads
      /\ pc'[c] = p /\ \A t \in Threads : t # c => pc'[t] = pc[t]
  BY <1>f DEF Threads, TypeOK
<1>h. /\ queue' \in Seq(Tasks) /\ Distinct(queue')
      /\ \A x : Queued(x)' <=> Queued(x) /\ x \notin {c} \X B
  <2>1. queue \in Seq(Tasks) /\ Distinct(queue) /\ Unqueue({c} \X B)
    BY <1>0 DEF TypeOK, ClaimedOnce, Distinct
  <2>2. QED
    BY <2>1, UnqueueRemoves
<1>i. /\ \A d \in Callers : d # c => finished'[d] = finished[d]
      /\ \A i \in Positions : finished'[c][i] <=> finished[c][i] \/ i \in B
  BY <1>0 DEF TypeOK
<1>1. TypeOK'
  <2>1. /\ pc' \in [Threads -> CallerPcs \cup WorkerPcs]
        /\ \A d \in Callers : pc'[d] \in CallerPcs
        /\ \A w \in Workers : pc'[w] \in WorkerPcs
    <3>1. p \in CallerPcs
      BY DEF CallerPcs
    <3>2. pc' \in [Threads -> CallerPcs \cup WorkerPcs]
      BY <3>1, <1>f DEF TypeOK
    <3>3. \A d \in Callers : pc'[d] \in CallerPcs
      BY <3>1, <1>g DEF TypeOK, Threads
    <3>4. \A w \in Workers : w \in Threads /\ w # c
      BY DEF Threads
    <3>5. \A w \in Workers : pc'[w] \in WorkerPcs
      BY <3>4, <1>g DEF TypeOK
    <3>6. QED
      BY <3>2, <3>3, <3>5
  <2>2. finished' \in [Callers -> [Positions -> BOOLEAN]]
    <3>1. [i \in Positions |-> finished[c][i] \/ i \in B] \in [Positions -> BOOLEAN]
      OBVIOUS
    <3>2. QED
      BY <3>1, <1>0 DEF TypeOK
  <2>3. done' \in [Callers -> Int] /\ outstanding' \in [Callers -> Int]
    BY <1>0, <1>d DEF TypeOK
  <2>4. QED
    BY <2>1, <2>2, <2>3, <1>a, <1>h DEF TypeOK, loopVars, hostVars
<1>2. HoldInv'
  BY <1>a, <1>g DEF HoldInv, loopVars
<1>3. ClaimedOnce'
  <2>1. ASSUME NEW t \in Threads, NEW y, held[t] = y, y # None PROVE ~Queued(y)'
    BY <2>1, <1>h DEF ClaimedOnce
  <2>2. \A t \in Threads : held[t] # None => ~Queued(held[t])'
    BY <2>1, <1>a DEF Queued
  <2>3. \A j, k \in 1..Len(queue') : j # k => queue'[j] # queue'[k]
    BY <1>h DEF Distinct
  <2>4. \A s, t \in Threads : s # t /\ held[s] # None => held[s] # held[t]
    BY DEF ClaimedOnce
  <2>5. QED
    BY <2>2, <2>3, <2>4, <1>a DEF ClaimedOnce, Queued
<1>4. LiveInv'
  <2>1. ASSUME NEW d \in Callers, NEW i \in Positions, NEW y, y = <<d, i>>
        PROVE  IsLive(y)' <=> IsLive(y) /\ y \notin {c} \X B
    <3>1. IsLive(y)' <=> i <= submitted[d] /\ ~finished'[d][i]
      BY <2>1, <1>a DEF IsLive
    <3>2. IsLive(y) <=> i <= submitted[d] /\ ~finished[d][i]
      BY <2>1 DEF IsLive
    <3>3. CASE d = c
      <4>1. y \in {c} \X B <=> i \in B
        BY <2>1, <3>3
      <4>2. finished'[d][i] <=> finished[d][i] \/ i \in B
        BY <3>3, <1>i
      <4>3. QED
        BY <3>1, <3>2, <4>1, <4>2
    <3>4. CASE d # c
      <4>1. y \notin {c} \X B
        BY <2>1, <3>4
      <4>2. finished'[d] = finished[d]
        BY <3>4, <1>i
      <4>3. QED
        BY <3>1, <3>2, <4>1, <4>2
    <3>5. QED
      BY <3>3, <3>4
  <2>2. \A y \in Tasks : IsLive(y)' <=> IsLive(y) /\ y \notin {c} \X B
    BY <2>1 DEF Tasks
  <2>3. \A y \in {c} \X B : Queued(y)
    BY <1>b
  <2>4. ASSUME NEW t \in Threads, NEW y, held[t] = y, y # None PROVE IsLive(y)'
    <3>1. y \in Tasks /\ IsLive(y) /\ ~Queued(y)
      BY <2>4 DEF LiveInv, TypeOK, ClaimedOnce
    <3>2. QED
      BY <3>1, <2>2, <2>3
  <2>5. \A t \in Threads : held'[t] # None => IsLive(held[t])'
    BY <2>4, <1>a DEF IsLive
  <2>6. \A y \in Tasks : Queued(y)' => IsLive(y)'
    BY <2>2, <1>h DEF LiveInv
  <2>7. \A y \in Tasks : IsLive(y)' => Queued(y)' \/ \E t \in Threads : held'[t] = y
    BY <2>2, <1>h, <1>a DEF LiveInv
  <2>8. QED
    BY <2>5, <2>6, <2>7 DEF LiveInv
<1>5. CountInv'
  <2>1. Live(c)' = Live(c) \ B
    <3>1. \A i \in 1..submitted[c] : i \in Positions
      BY DEF TypeOK, CountInv, Positions
    <3>2. QED
      BY <3>1, <1>a, <1>i DEF Live
  <2>2. \A d \in Callers : d # c => Live(d)' = Live(d)
    BY <1>a, <1>i DEF Live
  <2>3. /\ outstanding'[c] = outstanding[c] - m /\ done'[c] = done[c] + m
        /\ \A d \in Callers : d # c => outstanding'[d] = outstanding[d] /\ done'[d] = done[d]
        /\ outstanding[c] \in Int /\ done[c] \in Int
    BY <1>0, <1>e DEF TypeOK
  <2>4. Cardinality(Live(c)') = outstanding[c] - m
    BY <2>1, <1>d, <1>e
  <2>5. \A d \in Callers : d # c => pc'[d] = pc[d]
    BY <1>g DEF Threads
  <2>6. /\ submitted[c] <= Count
        /\ submitted[c] = done'[c] + outstanding'[c]
        /\ outstanding'[c] = Cardinality(Live(c)')
        /\ outstanding'[c] <= Quota
        /\ pc'[c] = "drained" => outstanding'[c] = 0
    BY <2>3, <2>4, <1>e, <1>f, <1>g DEF CountInv
  <2>7. ASSUME NEW d \in Callers, d # c
        PROVE  /\ submitted[d] <= Count
               /\ submitted[d] = done'[d] + outstanding'[d]
               /\ outstanding'[d] = Cardinality(Live(d)')
               /\ outstanding'[d] <= Quota
               /\ pc'[d] = "drained" => outstanding'[d] = 0
    BY <2>7, <2>2, <2>3, <2>5 DEF CountInv
  <2>8. QED
    BY <2>6, <2>7, <1>a DEF CountInv
<1>6. BlankInv'
  <2>1. \A d \in Callers : Registered(d)' <=> Registered(d)
    BY <1>a, <1>f, <1>g DEF Registered, Threads
  <2>2. ASSUME NEW d \in Callers, NEW i \in Positions
        PROVE  /\ i > submitted[d] => ~finished'[d][i]
               /\ ~finished'[d][i] => result[d][i] = None
    <3>1. CASE d = c
      <4>1. finished'[c][i] <=> finished[c][i] \/ i \in B
        BY <1>i
      <4>2. i \in B => i \in 1..submitted[c]
        BY <1>b
      <4>3. i \in Int /\ submitted[c] \in Int
        BY DEF Positions, TypeOK
      <4>4. QED
        BY <3>1, <4>1, <4>2, <4>3 DEF BlankInv
    <3>2. CASE d # c
      <4>1. finished'[d] = finished[d]
        BY <3>2, <1>i
      <4>2. QED
        BY <4>1 DEF BlankInv
    <3>3. QED
      BY <3>1, <3>2
  <2>3. QED
    BY <2>1, <2>2, <1>a DEF BlankInv
<1>7. RunnerInv'
  <2>1. \A t \in Threads : pc'[t] = "thunk" <=> pc[t] = "thunk"
    BY <1>a, <1>f, <1>g
  <2>2. QED
    BY <2>1, <1>a, RunnerFrame
<1>8. LoopInv'
  <2>1. index' = index /\ stopped' = stopped /\ submitted' = submitted
    BY <1>a DEF loopVars
  <2>2. ASSUME NEW d \in Callers, d # c PROVE finished'[d] = finished[d] /\ pc'[d] = pc[d]
    BY <2>2, <1>g, <1>i DEF Threads
  <2>3. \A i \in Positions : finished[c][i] => finished'[c][i]
    BY <1>i
  <2>4. /\ \A j \in Positions : j < index[c] => finished'[c][j] \/ stopped[c]
        /\ index[c] >= 1 /\ index[c] <= Count + 1 /\ (index[c] > Count \/ stopped[c])
    BY <1>a, <2>3 DEF LoopInv, Registered, InDrain
  <2>5. pc'[c] \notin InLoop /\ pc'[c] # "submit" /\ pc'[c] # "regain"
    BY <1>f, <1>g DEF InLoop
  <2>6. ASSUME NEW d \in Callers, d # c
        PROVE  /\ Registered(d)' => \A j \in Positions : j < index[d] => finished'[d][j] \/ stopped[d]
               /\ index[d] >= 1 /\ index[d] <= Count + 1
               /\ pc'[d] = "submit" => index[d] <= submitted[d] + 1
               /\ pc'[d] \in InLoop => index[d] <= submitted[d]
               /\ pc'[d] = "regain" => finished'[d][index[d]] \/ stopped[d]
               /\ pc'[d] \in InDrain => index[d] > Count \/ stopped[d]
    BY <2>2, <2>6 DEF LoopInv, Registered
  <2>7. QED
    BY <2>1, <2>4, <2>5, <2>6 DEF LoopInv
<1>9. StopInv'
  <2>1. ASSUME NEW d \in Callers, NEW i \in Positions, finished'[d][i], result[d][i] = None
        PROVE  stopped[d]
    <3>1. CASE d = c
      <4>1. finished[c][i] \/ i \in B
        BY <2>1, <3>1, <1>i
      <4>2. QED
        BY <2>1, <3>1, <4>1, <1>b DEF StopInv
    <3>2. CASE d # c
      <4>1. finished'[d] = finished[d]
        BY <3>2, <1>i
      <4>2. QED
        BY <2>1, <4>1 DEF StopInv
    <3>3. QED
      BY <3>1, <3>2
  <2>2. QED
    BY <2>1, <1>a DEF StopInv
<1>10. SeenInv'
  BY <1>a DEF SeenInv, hostVars
<1>11. QED
  BY <1>1, <1>2, <1>3, <1>4, <1>5, <1>6, <1>7, <1>8, <1>9, <1>10

-----------------------------------------------------------------------------
(* A broadcast is quiet.                                                   *)
LEMMA BroadcastQuiet ==
  ASSUME IndInv, pc' = Broadcast(pc)
  PROVE  /\ \A t \in Threads : pc'[t] # pc[t] =>
              pc[t] \notin {"claimed", "thunk"} /\ pc'[t] \notin {"claimed", "thunk"}
         /\ \A c \in Callers : pc'[c] # pc[c] => QuietMove(c)
         /\ \A c \in Callers : Registered(c)' <=> Registered(c)
         /\ pc' \in [Threads -> CallerPcs \cup WorkerPcs]
         /\ \A c \in Callers : pc'[c] \in CallerPcs
         /\ \A w \in Workers : pc'[w] \in WorkerPcs
<1> USE DEF IndInv
<1>1. /\ pc' \in [Threads -> CallerPcs \cup WorkerPcs]
      /\ \A c \in Callers : \/ pc'[c] = pc[c]
                            \/ pc[c] = "parked" /\ pc'[c] = "woken"
                            \/ pc[c] = "drainParked" /\ pc'[c] = "drainWoken"
      /\ \A w \in Workers : pc'[w] = pc[w]
  BY BroadcastMoves
<1>2. \A t \in Threads : pc'[t] # pc[t] =>
        pc[t] \notin {"claimed", "thunk"} /\ pc'[t] \notin {"claimed", "thunk"}
  BY <1>1 DEF Threads
<1>3. \A c \in Callers : Registered(c)' <=> Registered(c)
  BY <1>1 DEF Registered
<1>4. \A c \in Callers : pc'[c] # pc[c] => QuietMove(c)
  BY <1>1, <1>3 DEF QuietMove, InLoop, InDrain, LoopInv
<1>5. \A c \in Callers : pc'[c] \in CallerPcs
  BY <1>1 DEF TypeOK, CallerPcs
<1>6. \A w \in Workers : pc'[w] \in WorkerPcs
  BY <1>1 DEF TypeOK
<1>7. QED
  BY <1>1, <1>2, <1>3, <1>4, <1>5, <1>6

(* The interrupt stops the batch of its target, and leaves an exception in *)
(* no other caller.                                                        *)
LEMMA RaiseInterruptInv ==
  ASSUME IndInv, RaiseInterrupt
  PROVE  IndInv'
<1> USE ParAssumption DEF IndInv
<1>0. PICK g \in Callers : g = target
  BY DEF RaiseInterrupt, TypeOK
<1>a. /\ pc' = Broadcast(pc)
      /\ target' = None
      /\ UNCHANGED <<gil, held, queue, started, submitted, done, outstanding, taskVars, loopVars, running_thread, seen>>
  BY DEF RaiseInterrupt
<1>b. /\ \A t \in Threads : pc'[t] # pc[t] =>
           pc[t] \notin {"claimed", "thunk"} /\ pc'[t] \notin {"claimed", "thunk"}
      /\ \A c \in Callers : pc'[c] # pc[c] => QuietMove(c)
      /\ \A c \in Callers : Registered(c)' <=> Registered(c)
  BY <1>a, BroadcastQuiet
<1>c. /\ pc' \in [Threads -> CallerPcs \cup WorkerPcs]
      /\ \A c \in Callers : pc'[c] \in CallerPcs
      /\ \A w \in Workers : pc'[w] \in WorkerPcs
  BY <1>a, BroadcastQuiet
<1>1. CASE pc[g] = "out"
  <2>1. UNCHANGED <<pending, stopped, interrupted, issued>>
    BY <1>0, <1>1 DEF RaiseInterrupt
  <2>2. TypeOK'
    BY <2>1, <1>a, <1>c DEF TypeOK, taskVars, loopVars
  <2>3. SeenInv'
    BY <2>1, <1>a DEF SeenInv
  <2>4. UNCHANGED <<held, queue, index, batchVars, taskVars>>
    BY <2>1, <1>a DEF batchVars, loopVars
  <2>5. QED
    BY <2>2, <2>3, <2>4, <1>b, QuietInv
<1>2. CASE pc[g] # "out"
  <2>1. /\ pending' = [t \in Threads |-> pending[t] \/ t = g \/ t \in Runners(g)]
        /\ stopped' = [stopped EXCEPT ![g] = @ \/ Registered(g)]
        /\ interrupted' = [interrupted EXCEPT ![g] = @ \/ Registered(g)]
        /\ issued' = [issued EXCEPT ![g] = @ + 1]
    BY <1>0, <1>2 DEF RaiseInterrupt
  <2>2. /\ \A c \in Callers : stopped'[c] <=> stopped[c] \/ (c = g /\ Registered(g))
        /\ \A c \in Callers : interrupted'[c] <=> interrupted[c] \/ (c = g /\ Registered(g))
    BY <2>1 DEF TypeOK
  <2>3. TypeOK'
    <3>1. /\ pending' \in [Threads -> BOOLEAN]
          /\ stopped' \in [Callers -> BOOLEAN] /\ interrupted' \in [Callers -> BOOLEAN]
      BY <2>1 DEF TypeOK
    <3>2. issued' \in [Callers -> Nat]
      BY <2>1 DEF TypeOK
    <3>3. QED
      BY <3>1, <3>2, <1>a, <1>c DEF TypeOK, taskVars, loopVars
  <2>4. HoldInv'
    BY <1>a, <1>b DEF HoldInv, loopVars
  <2>5. ClaimedOnce' /\ LiveInv'
    BY <1>a, QueuedSame DEF ClaimedOnce, LiveInv, IsLive, taskVars
  <2>6. CountInv'
    BY <1>a, <1>b, LiveSame DEF CountInv, QuietMove, taskVars
  <2>7. BlankInv'
    BY <1>a, <1>b, <2>2 DEF BlankInv, taskVars
  <2>8. RunnerInv'
    <3>1. \A t \in Threads : pc'[t] = "thunk" <=> pc[t] = "thunk"
      BY <1>b
    <3>2. QED
      BY <3>1, <1>a, RunnerFrame DEF taskVars
  <2>9. LoopInv'
    <3>1. /\ index' = index /\ finished' = finished /\ submitted' = submitted
          /\ \A c \in Callers : stopped[c] => stopped'[c]
      BY <1>a, <2>2 DEF taskVars, loopVars
    <3>2. QED
      BY <3>1, <1>b DEF LoopInv, QuietMove
  <2>10. StopInv'
    <3>1. result' = result /\ finished' = finished
      BY <1>a DEF taskVars
    <3>2. QED
      BY <3>1, <2>2 DEF StopInv
  <2>11. SeenInv'
    <3>1. \A d \in Callers : seen[d] \in Nat /\ issued[d] \in Nat /\ d \in Threads
      BY DEF TypeOK, Threads
    <3>2. issued'[g] = issued[g] + 1 /\ \A d \in Callers : d # g => issued'[d] = issued[d]
      BY <2>1 DEF TypeOK
    <3>3. ASSUME NEW d \in Callers, d # g PROVE d \notin Runners(g)
      <4>1. SUFFICES ASSUME NEW i \in Positions, runner[g][i] = d PROVE FALSE
        BY DEF Runners
      <4>2. d # None
        OBVIOUS
      <4>3. held[d] = <<g, i>>
        BY <4>1, <4>2 DEF RunnerInv
      <4>4. held[d] # None
        BY <4>3 DEF Positions
      <4>5. held[d] = <<d, index[d]>>
        BY <4>4 DEF HoldInv
      <4>6. QED
        BY <3>3, <4>3, <4>5
    <3>4. ASSUME NEW d \in Callers, d # g PROVE pending'[d] <=> pending[d]
      <4>1. pending'[d] <=> pending[d] \/ d = g \/ d \in Runners(g)
        BY <2>1, <3>1
      <4>2. QED
        BY <4>1, <3>3, <3>4
    <3>5. ASSUME NEW d \in Callers, d # g
          PROVE  IF pending'[d] \/ interrupted'[d] THEN seen[d] + 1 <= issued'[d] ELSE seen[d] <= issued'[d]
      BY <3>2, <3>4, <3>5, <2>2 DEF SeenInv
    <3>6. seen[g] + 1 <= issued'[g]
      <4>1. seen[g] <= issued[g]
        BY <3>1 DEF SeenInv
      <4>2. QED
        BY <4>1, <3>1, <3>2
    <3>7. IF pending'[g] \/ interrupted'[g] THEN seen[g] + 1 <= issued'[g] ELSE seen[g] <= issued'[g]
      BY <3>1, <3>2, <3>6
    <3>8. QED
      BY <3>5, <3>7, <1>a DEF SeenInv
  <2>12. QED
    BY <2>3, <2>4, <2>5, <2>6, <2>7, <2>8, <2>9, <2>10, <2>11
<1>3. QED
  BY <1>1, <1>2

-----------------------------------------------------------------------------
(* The invariant is inductive.                                             *)
LEMMA NextInv == IndInv /\ [Next]_vars => IndInv'
<1> SUFFICES ASSUME IndInv, [Next]_vars PROVE IndInv'
  OBVIOUS
<1>1. ASSUME NEW c \in Callers, CallerStep(c) PROVE IndInv'
  <2>1. CASE Settle(c)
    BY <2>1, AnswerInv DEF Settle
  <2>2. CASE AnswerDrained(c)
    <3>1. outstanding[c] = 0
      BY <2>2 DEF AnswerDrained, IndInv, CountInv
    <3>2. QED
      BY <2>2, <3>1, AnswerInv DEF AnswerDrained
  <2>3. QED
    BY <1>1, <2>1, <2>2, QuietSteps, LookInv, OpenBatchInv, RegainInv, SubmitInv, DrainInv
    DEF CallerStep
<1>2. ASSUME NEW w \in Workers, WorkerStep(w) PROVE IndInv'
  BY <1>2, QuietSteps, WorkerClaimsInv DEF WorkerStep
<1>3. ASSUME NEW t \in Threads, ThreadStep(t) PROVE IndInv'
  BY <1>3, QuietSteps, StartTaskInv, RecordSteps DEF ThreadStep
<1>4. CASE ReadTarget
  BY <1>4, QuietSteps
<1>5. CASE RaiseInterrupt
  BY <1>5, RaiseInterruptInv
<1>6. CASE UNCHANGED vars
  <2>1. /\ UNCHANGED <<held, queue, index, batchVars, taskVars>> /\ pc' = pc
        /\ TypeOK' /\ SeenInv'
    BY <1>6 DEF vars, gilVars, batchVars, taskVars, loopVars, hostVars, IndInv, TypeOK, SeenInv
  <2>2. QED
    BY <2>1, QuietInv
<1>7. QED
  BY <1>1, <1>2, <1>3, <1>4, <1>5, <1>6 DEF Next

(* For every set of callers and workers, every size of gather and every    *)
(* quota, each reachable state of ParPool satisfies the invariant.         *)
THEOREM Invariance == Spec => []IndInv
<1>1. Init => IndInv
  BY InitInv
<1>2. IndInv /\ [Next]_vars => IndInv'
  BY NextInv
<1>3. QED
  BY <1>1, <1>2, PTL DEF Spec

-----------------------------------------------------------------------------
(* Every variable of ParPool keeps its type, so no step of a caller, a     *)
(* worker or the host reads a task or a batch that is not there.           *)
THEOREM TypeCorrect == Spec => []TypeOK
<1>1. IndInv => TypeOK
  BY DEF IndInv
<1>2. QED
  BY <1>1, Invariance, PTL

(* A closed batch has nothing live.                                        *)
LEMMA ClosedIsEmpty == IndInv => NoThunkOutlivesPar
<1> SUFFICES ASSUME IndInv, NEW c \in Callers, ~Registered(c)
             PROVE  /\ \A t \in Threads : ~Holds(t, c)
                    /\ \A i \in Positions : ~Queued(<<c, i>>)
  BY DEF NoThunkOutlivesPar
<1>1. submitted[c] = 0
  BY DEF IndInv, BlankInv
<1>2. Live(c) = {}
  BY <1>1 DEF Live
<1>3. outstanding[c] = 0
  BY <1>2, FS_EmptySet DEF IndInv, CountInv
<1>4. \A x \in Tasks : x[1] = c => ~Queued(x)
  BY <1>3, NothingLeft
<1>5. \A i \in Positions : ~Queued(<<c, i>>)
  BY <1>4 DEF Tasks
<1>6. QED
  BY <1>3, <1>5, NothingLeft

(* "no thunk of this batch runs on once `par` answers": vis_py_par frees   *)
(* its batch only when no worker and no queue entry can still reach it.    *)
THEOREM ThunksEnd == Spec => []NoThunkOutlivesPar
BY ClosedIsEmpty, Invariance, PTL

(* One `par` never has more than its quota queued or running, and its      *)
(* counter is exact whoever finished, skipped or took back the tasks.      *)
THEOREM QuotaHolds == Spec => []QuotaKept
<1>1. IndInv => QuotaKept
  BY DEF IndInv, CountInv, QuotaKept
<1>2. QED
  BY <1>1, Invariance, PTL

(* The task a caller waits for is finished, queued, or held by a worker.   *)
LEMMA WaitedForIsLive == IndInv => WaitsForSomething
<1> SUFFICES ASSUME IndInv, NEW c \in Callers, pc[c] \in {"look", "parked", "woken"},
                    ~finished[c][index[c]], ~Queued(<<c, index[c]>>)
             PROVE  \E w \in Workers : held[w] = <<c, index[c]>>
  BY DEF WaitsForSomething
<1> USE ParAssumption DEF IndInv
<1>1. index[c] \in Nat /\ index[c] >= 1 /\ index[c] <= submitted[c]
      /\ submitted[c] \in Nat /\ submitted[c] <= Count
  BY DEF LoopInv, InLoop, CountInv, TypeOK
<1>2. PICK x : x = <<c, index[c]>>
  OBVIOUS
<1>3. x \in Tasks /\ IsLive(x)
  <2>1. index[c] \in Positions
    BY <1>1 DEF Positions
  <2>2. QED
    BY <1>1, <1>2, <2>1 DEF Tasks, IsLive
<1>4. PICK t \in Threads : held[t] = x
  BY <1>2, <1>3 DEF LiveInv
<1>5. held[t] # None
  BY <1>3, <1>4 DEF Tasks, Positions
<1>6. t \notin Callers
  <2> SUFFICES ASSUME t \in Callers PROVE FALSE
    OBVIOUS
  <2>1. held[t] = <<t, index[t]>>
    BY <1>5 DEF HoldInv
  <2>2. t = c
    BY <2>1, <1>2, <1>4
  <2>3. QED
    BY <2>2, <1>5 DEF HoldInv
<1>7. QED
  BY <1>2, <1>4, <1>6 DEF Threads

(* vis_py_par never waits on a task that nobody will settle.               *)
THEOREM NobodyWaitsInVain == Spec => []WaitsForSomething
BY WaitedForIsLive, Invariance, PTL

(* No task is run twice: a worker's pop, the caller's vis_py_unqueue and   *)
(* the drain never take the same task.                                     *)
THEOREM TasksClaimedOnce == Spec => []ClaimedOnce
<1>1. IndInv => ClaimedOnce
  BY DEF IndInv
<1>2. QED
  BY <1>1, Invariance, PTL

(* One host interrupt is met at most once by the block it was raised in.   *)
THEOREM RaisedOnce == Spec => []InterruptRaisedOnce
<1>1. IndInv => InterruptRaisedOnce
  <2> SUFFICES ASSUME IndInv, NEW c \in Callers PROVE seen[c] <= issued[c]
    BY DEF InterruptRaisedOnce
  <2>1. seen[c] \in Nat /\ issued[c] \in Nat
    BY DEF IndInv, TypeOK
  <2>2. QED
    BY <2>1 DEF IndInv, SeenInv
<1>2. QED
  BY <1>1, Invariance, PTL

-----------------------------------------------------------------------------
(* Which steps close a batch, start a thunk or interrupt a batch.          *)
KeepsOpen == \A c \in Callers : Registered(c) => Registered(c)'
StartsNothing == \A t \in Threads : pc'[t] = "thunk" => pc[t] = "thunk"
InterruptsNothing == \A c \in Callers : interrupted'[c] => interrupted[c]

Plain == KeepsOpen /\ StartsNothing /\ InterruptsNothing

(* A step that moves only one thread is plain if that move is.             *)
LEMMA OneMove ==
  ASSUME TypeOK, NEW t \in Threads, NEW p, pc' = [pc EXCEPT ![t] = p],
         t \in Callers /\ pc[t] \notin {"out", "block"} => p \notin {"out", "block"},
         p # "thunk", interrupted' = interrupted
  PROVE  Plain
<1>1. \A s \in Threads : pc'[s] = IF s = t THEN p ELSE pc[s]
  BY DEF TypeOK
<1>2. KeepsOpen
  BY <1>1 DEF KeepsOpen, Registered, Threads
<1>3. StartsNothing
  BY <1>1 DEF StartsNothing
<1>4. QED
  BY <1>2, <1>3 DEF Plain, InterruptsNothing

LEMMA PlainCallerSteps ==
  ASSUME IndInv, NEW c \in Callers, CallerStep(c), ~Settle(c), ~AnswerDrained(c)
  PROVE  Plain
<1> USE DEF batchVars, gilVars
<1>0. TypeOK /\ c \in Threads
  BY DEF IndInv, Threads
<1>1. CASE BeginRun(c) \/ EndRun(c) \/ LeaveLoop(c) \/ Regain(c)
  BY <1>0, <1>1, OneMove DEF BeginRun, EndRun, LeaveLoop, Regain
<1>2. CASE LandInBlock(c)
  BY <1>2 DEF LandInBlock, Plain, KeepsOpen, StartsNothing, InterruptsNothing, Registered
<1>3. ASSUME Claim(c) \/ WaitOrGoOn(c), interrupted' = interrupted PROVE Plain
  <2>1. PICK p \in {"claimed", "regain", "parked"} : pc' = [pc EXCEPT ![c] = p]
    BY <1>3 DEF Claim, WaitOrGoOn
  <2>2. QED
    BY <2>1, <1>0, <1>3, OneMove
<1>4. CASE Look(c) \/ Recheck(c) \/ Timeout(c)
  BY <1>3, <1>4 DEF Look, Recheck, Timeout
<1>5. CASE Drain(c) \/ DrainRecheck(c)
  <2>1. PICK p \in {"drainParked", "drained"} : pc' = [pc EXCEPT ![c] = p]
    BY <1>5 DEF Drain, DrainRecheck
  <2>2. interrupted' = interrupted
    BY <1>5 DEF Drain, DrainRecheck
  <2>3. QED
    BY <2>1, <2>2, <1>0, OneMove
<1>6. CASE OpenBatch(c)
  <2>1. PICK made \in SUBSET {w \in Workers : pc[w] = "absent"} :
          pc' = [t \in Threads |-> IF t = c THEN "submit"
                                   ELSE IF t \in made THEN "fetch" ELSE pc[t]]
    BY <1>6 DEF OpenBatch
  <2>2. KeepsOpen /\ StartsNothing
    BY <2>1 DEF KeepsOpen, StartsNothing, Registered, Threads
  <2>3. QED
    BY <1>6, <2>2 DEF OpenBatch, Plain, InterruptsNothing
<1>7. CASE Submit(c)
  <2>1. PICK S \in SUBSET Workers :
          pc' = [t \in Threads |-> IF t = c THEN "look" ELSE IF t \in S THEN "woken" ELSE pc[t]]
    BY <1>7 DEF Submit
  <2>2. KeepsOpen /\ StartsNothing
    BY <2>1 DEF KeepsOpen, StartsNothing, Registered, Threads
  <2>3. QED
    BY <1>7, <2>2 DEF Submit, Plain, InterruptsNothing
<1>8. QED
  BY <1>1, <1>2, <1>4, <1>5, <1>6, <1>7 DEF CallerStep

LEMMA BroadcastPlain ==
  ASSUME IndInv, NEW q, q = Broadcast(pc)
  PROVE  /\ \A c \in Callers : pc[c] \notin {"out", "block"} => q[c] \notin {"out", "block"}
         /\ \A t \in Threads : q[t] = "thunk" => pc[t] = "thunk"
         /\ q \in [Threads -> CallerPcs \cup WorkerPcs]
BY BroadcastMoves DEF IndInv, Threads

LEMMA PlainThreadSteps ==
  ASSUME IndInv, NEW t \in Threads, ThreadStep(t), ~StartTask(t)
  PROVE  Plain
<1> USE DEF batchVars, gilVars
<1>0. TypeOK
  BY DEF IndInv
<1>1. CASE DropGil(t) \/ TakeGil(t) \/ SwallowInThunk(t)
  <2>1. pc' = pc /\ interrupted' = interrupted
    BY <1>1 DEF DropGil, TakeGil, SwallowInThunk
  <2>2. QED
    BY <2>1 DEF Plain, KeepsOpen, StartsNothing, InterruptsNothing, Registered
<1>2. CASE SpuriousWake(t)
  <2>1. PICK p \in {"woken", "drainWoken"} : pc' = [pc EXCEPT ![t] = p]
    BY <1>2 DEF SpuriousWake
  <2>2. interrupted' = interrupted
    BY <1>2 DEF SpuriousWake
  <2>3. QED
    BY <2>1, <2>2, <1>0, OneMove
<1>3. ASSUME NEW res, Record(t, res), interrupted' = interrupted PROVE Plain
  <2>1. PICK q : q = Broadcast(pc)
    OBVIOUS
  <2>2. PICK p \in {"submit", "fetch"} : pc' = [q EXCEPT ![t] = p]
    BY <1>3, <2>1 DEF Record
  <2>3. /\ \A c \in Callers : pc[c] \notin {"out", "block"} => q[c] \notin {"out", "block"}
        /\ \A s \in Threads : q[s] = "thunk" => pc[s] = "thunk"
        /\ q \in [Threads -> CallerPcs \cup WorkerPcs]
    BY <2>1, BroadcastPlain
  <2>4. \A s \in Threads : pc'[s] = IF s = t THEN p ELSE q[s]
    BY <2>2, <2>3
  <2>5. KeepsOpen
    BY <2>3, <2>4 DEF KeepsOpen, Registered, Threads
  <2>6. StartsNothing
    BY <2>3, <2>4 DEF StartsNothing
  <2>7. QED
    BY <1>3, <2>5, <2>6 DEF Plain, InterruptsNothing
<1>4. CASE SkipTask(t) \/ UnwindThunk(t) \/ \E res \in Results : EndThunk(t, res)
  BY <1>3, <1>4 DEF SkipTask, UnwindThunk, EndThunk
<1>5. QED
  BY <1>1, <1>2, <1>4 DEF ThreadStep

LEMMA PlainWorkerSteps ==
  ASSUME IndInv, NEW w \in Workers, WorkerStep(w)
  PROVE  Plain
<1>1. w \in Threads /\ w \notin Callers /\ TypeOK
  BY ParAssumption DEF Threads, IndInv
<1>2. PICK p \in {"parked", "claimed"} : pc' = [pc EXCEPT ![w] = p]
  BY DEF WorkerStep, WorkerWaits, WorkerClaims
<1>3. interrupted' = interrupted
  BY DEF WorkerStep, WorkerWaits, WorkerClaims, batchVars
<1>4. QED
  BY <1>1, <1>2, <1>3, OneMove

(* Only the answer closes a batch, only vis_py_task_run starts a thunk and *)
(* only vispython_interrupt interrupts a batch.                            *)
LEMMA StepShape ==
  ASSUME IndInv, [Next]_vars
  PROVE  /\ \A c \in Callers : Registered(c) /\ ~Registered(c)' => Settle(c) \/ AnswerDrained(c)
         /\ \A t \in Threads : pc'[t] = "thunk" /\ pc[t] # "thunk" => StartTask(t)
         /\ \A c \in Callers : interrupted'[c] /\ ~interrupted[c] => RaiseInterrupt /\ target = c
<1> DEFINE Shape == /\ \A c \in Callers : Registered(c) /\ ~Registered(c)' => Settle(c) \/ AnswerDrained(c)
                    /\ \A t \in Threads : pc'[t] = "thunk" /\ pc[t] # "thunk" => StartTask(t)
                    /\ \A c \in Callers : interrupted'[c] /\ ~interrupted[c] => RaiseInterrupt /\ target = c
<1>0. TypeOK
  BY DEF IndInv
<1>1. ASSUME Plain PROVE Shape
  BY <1>1 DEF Plain, KeepsOpen, StartsNothing, InterruptsNothing
<1>2. ASSUME NEW c \in Callers, Settle(c) \/ AnswerDrained(c) PROVE Shape
  <2>1. pc' = [pc EXCEPT ![c] = "block"] /\ interrupted' = [interrupted EXCEPT ![c] = FALSE]
    BY <1>2 DEF Settle, AnswerDrained, Answer
  <2>2. \A s \in Threads : pc'[s] = IF s = c THEN "block" ELSE pc[s]
    BY <2>1, <1>0 DEF TypeOK
  <2>3. \A d \in Callers : Registered(d) /\ ~Registered(d)' => d = c
    BY <2>2 DEF Registered, Threads
  <2>4. \A s \in Threads : pc'[s] = "thunk" => pc[s] = "thunk"
    BY <2>2
  <2>5. \A d \in Callers : interrupted'[d] => interrupted[d]
    BY <2>1, <1>0 DEF TypeOK
  <2>6. QED
    BY <1>2, <2>3, <2>4, <2>5
<1>3. ASSUME NEW t \in Threads, StartTask(t) PROVE Shape
  <2>1. pc' = [pc EXCEPT ![t] = "thunk"] /\ interrupted' = interrupted
    BY <1>3 DEF StartTask, batchVars
  <2>2. \A s \in Threads : pc'[s] = IF s = t THEN "thunk" ELSE pc[s]
    BY <2>1, <1>0 DEF TypeOK
  <2>3. \A d \in Callers : Registered(d) => Registered(d)'
    BY <2>2 DEF Registered, Threads
  <2>4. \A s \in Threads : pc'[s] = "thunk" /\ pc[s] # "thunk" => s = t
    BY <2>2
  <2>5. QED
    BY <1>3, <2>1, <2>3, <2>4
<1>4. ASSUME RaiseInterrupt PROVE Shape
  <2>1. pc' = Broadcast(pc)
    BY <1>4 DEF RaiseInterrupt
  <2>2. \A d \in Callers : Registered(d) => Registered(d)'
    BY <2>1, BroadcastPlain DEF Registered
  <2>3. \A s \in Threads : pc'[s] = "thunk" => pc[s] = "thunk"
    BY <2>1, BroadcastPlain
  <2>4. \A d \in Callers : interrupted'[d] /\ ~interrupted[d] => target = d
    BY <1>4, <1>0 DEF RaiseInterrupt, TypeOK
  <2>5. QED
    BY <1>4, <2>2, <2>3, <2>4
<1>5. ASSUME ReadTarget \/ UNCHANGED vars PROVE Shape
  <2>1. pc' = pc /\ interrupted' = interrupted
    BY <1>5 DEF ReadTarget, vars, gilVars, batchVars
  <2>2. Plain
    BY <2>1 DEF Plain, KeepsOpen, StartsNothing, InterruptsNothing, Registered
  <2>3. QED
    BY <2>2, <1>1
<1> HIDE DEF Shape
<1>6. ASSUME NEW c \in Callers, CallerStep(c) PROVE Shape
  BY <1>1, <1>2, <1>6, PlainCallerSteps
<1>7. ASSUME NEW t \in Threads, ThreadStep(t) PROVE Shape
  BY <1>1, <1>3, <1>7, PlainThreadSteps
<1>8. ASSUME NEW w \in Workers, WorkerStep(w) PROVE Shape
  BY <1>1, <1>8, PlainWorkerSteps
<1>9. Shape
  BY <1>4, <1>5, <1>6, <1>7, <1>8 DEF Next
<1>10. QED
  BY <1>9 DEF Shape

-----------------------------------------------------------------------------
(* What the loop has settled by the time `par` answers.                    *)
LEMMA AnswerIsWhole ==
  ASSUME IndInv, NEW c \in Callers, Settle(c) \/ AnswerDrained(c)
  PROVE  AnswerStep(c)
<1> USE DEF IndInv
<1>1. /\ outstanding[c] = 0 /\ Registered(c) /\ (index[c] > Count \/ stopped[c])
      /\ answer' = [answer EXCEPT ![c] = Chosen(c)]
  BY DEF Settle, AnswerDrained, Answer, CountInv, LoopInv, InDrain, Registered
<1>2. answer'[c] = Chosen(c)
  BY <1>1 DEF TypeOK
<1>3. \A i \in 1..submitted[c] : finished[c][i]
  <2>1. Live(c) = {}
    BY <1>1, NothingLeft
  <2>2. QED
    BY <2>1 DEF Live
<1>4. ASSUME ~stopped[c], NEW i \in Positions PROVE result[c][i] \in Endings /\ result[c][i] # None
  <2>1. i < index[c]
    BY <1>1, <1>4, ParAssumption DEF Positions, TypeOK
  <2>2. finished[c][i]
    BY <1>1, <1>4, <2>1 DEF LoopInv
  <2>3. result[c][i] # None
    BY <1>4, <2>2 DEF StopInv
  <2>4. QED
    BY <2>3 DEF TypeOK
<1>5. ASSUME Chosen(c) = <<"values">>, NEW i \in Positions PROVE result[c][i] = "value"
  <2>1. Stops(c) = {} /\ ~interrupted[c] /\ Errors(c) = {}
    BY <1>5 DEF Chosen
  <2>2. result[c][i] # "stop" /\ result[c][i] # "error"
    BY <2>1 DEF Stops, Errors
  <2>3. ~stopped[c]
    BY <2>1 DEF StopInv, Stops
  <2>4. QED
    BY <1>4, <2>2, <2>3 DEF Endings
<1>6. ASSUME interrupted[c], NEW v, v = Chosen(c)
      PROVE  v = <<"interrupt">> \/ result[c][v[2]] = "stop"
  <2>1. CASE Stops(c) = {}
    BY <1>6, <2>1 DEF Chosen
  <2>2. CASE Stops(c) # {}
    <3>1. Stops(c) \in SUBSET Nat
      BY DEF Stops, Positions
    <3>2. First(Stops(c)) \in Stops(c)
      BY <3>1, <2>2, LeastElement
    <3>3. PICK k : k = First(Stops(c)) /\ k \in Stops(c)
      BY <3>2
    <3>4. v = <<"raise", k>>
      BY <1>6, <2>2, <3>3 DEF Chosen
    <3>5. result[c][k] = "stop"
      BY <3>3 DEF Stops
    <3>6. QED
      BY <3>4, <3>5
  <2>3. QED
    BY <2>1, <2>2
<1>7. QED
  BY <1>2, <1>3, <1>4, <1>5, <1>6 DEF AnswerStep

(* Values are answered only when every thunk ran to a value; a failure is  *)
(* raised only when every thunk that started has ended; a thunk left unrun *)
(* means the batch was stopped.                                            *)
THEOREM WholeAnswers == Spec => AnswersAreWhole
<1>1. ASSUME IndInv, [Next]_vars PROVE [\A c \in Callers : AnswerStep(c)]_vars
  <2>1. ASSUME NEW c \in Callers PROVE AnswerStep(c)
    <3>1. CASE Registered(c) /\ ~Registered(c)'
      BY <1>1, <3>1, StepShape, AnswerIsWhole
    <3>2. CASE ~(Registered(c) /\ ~Registered(c)')
      BY <3>2 DEF AnswerStep
    <3>3. QED
      BY <3>1, <3>2
  <2>2. QED
    BY <2>1
<1>2. QED
  BY <1>1, Invariance, PTL DEF Spec, AnswersAreWhole

(* The interrupt reaches the thunks that run and stops the others.         *)
LEMMA InterruptIsWhole ==
  ASSUME IndInv, [Next]_vars, NEW c \in Callers
  PROVE  InterruptStep(c)
<1> USE DEF IndInv
<1>1. ASSUME interrupted'[c], ~interrupted[c], NEW t \in Threads, pc[t] = "thunk", Holds(t, c)
      PROVE  pending'[t]
  <2>1. RaiseInterrupt /\ target = c
    BY <1>1, StepShape
  <2>2. PICK d \in Callers, i \in Positions : held[t] = <<d, i>>
    <3>1. held[t] \in Tasks
      BY <1>1 DEF Holds, TypeOK
    <3>2. QED
      BY <3>1 DEF Tasks
  <2>3. held[t] = <<c, i>>
    BY <1>1, <2>2 DEF Holds
  <2>4. runner[c][i] = t
    BY <1>1, <2>3 DEF RunnerInv
  <2>5. t # None
    BY ParAssumption DEF Threads
  <2>6. t = c \/ t \in Runners(c)
    BY <2>4, <2>5 DEF Runners
  <2>7. pc[c] # "out"
    BY <1>1, <2>1 DEF RaiseInterrupt
  <2>8. pending' = [s \in Threads |-> pending[s] \/ s = c \/ s \in Runners(c)]
    BY <2>1, <2>7 DEF RaiseInterrupt
  <2>9. QED
    BY <2>6, <2>8
<1>2. ASSUME interrupted[c], NEW t \in Threads, pc'[t] = "thunk", Holds(t, c), pc[t] # "thunk"
      PROVE  FALSE
  <2>1. StartTask(t)
    BY <1>2, StepShape
  <2>2. ~stopped[held[t][1]] /\ held[t][1] = c
    BY <1>2, <2>1 DEF StartTask, Holds
  <2>3. stopped[c]
    BY <1>2 DEF StopInv
  <2>4. QED
    BY <2>2, <2>3
<1>3. QED
  BY <1>1, <1>2 DEF InterruptStep

(* "each thunk is either named here or finds its batch stopped and never   *)
(* starts": vispython_interrupt misses no thunk of the batch it stops.     *)
THEOREM InterruptMissesNone == Spec => InterruptReachesThunks
<1>1. ASSUME IndInv, [Next]_vars PROVE [\A c \in Callers : InterruptStep(c)]_vars
  BY <1>1, InterruptIsWhole
<1>2. QED
  BY <1>1, Invariance, PTL DEF Spec, InterruptReachesThunks

-----------------------------------------------------------------------------
(* The refinement.  Shown is what Gather sees of a thunk, and a step that  *)
(* changes none of what Gather sees is a stutter.                          *)
Shown(c, i) == IF runner[c][i] # None THEN "running"
               ELSE IF result[c][i] # None THEN result[c][i] ELSE "waiting"

LEMMA Unseen ==
  ASSUME \A c \in Callers : Registered(c)' <=> Registered(c),
         \A c \in Callers, i \in Positions : Shown(c, i)' = Shown(c, i),
         stopped' = stopped, interrupted' = interrupted, answer' = answer
  PROVE  UNCHANGED G!gatherVars
BY DEF G!gatherVars, Shown

LEMMA GatherInit == Init => G!Init
<1> SUFFICES ASSUME Init PROVE G!Init
  OBVIOUS
<1>1. \A c \in Callers : ~Registered(c)
  BY DEF Init, Registered, Threads
<1>2. \A c \in Callers, i \in Positions : Shown(c, i) = "waiting"
  BY DEF Init, Shown
<1>3. QED
  BY <1>1, <1>2 DEF Init, Shown, G!Init, G!Fresh, G!Positions, Positions

(* What Gather sees of a batch: the thunks that are in a given state. *)
LEMMA GatherWith ==
  ASSUME NEW c \in Callers, NEW s
  PROVE  G!With(c, s) = {i \in Positions : Shown(c, i) = s}
BY DEF G!With, G!Positions, Positions, Shown

Seen == [c \in Callers |-> [i \in Positions |-> Shown(c, i)]]
Gathering == {c \in Callers : Registered(c)}

(* One thunk changes for Gather, and nothing else of the view. *)
LEMMA SeenChanges ==
  ASSUME NEW c \in Callers, NEW i \in Positions, NEW s,
         \A d \in Callers, j \in Positions : Shown(d, j)' = IF d = c /\ j = i THEN s ELSE Shown(d, j)
  PROVE  Seen' = [Seen EXCEPT ![c][i] = s]
<1> DEFINE N == [Seen EXCEPT ![c][i] = s]
<1>1. \A d \in Callers, j \in Positions : N[d][j] = IF d = c /\ j = i THEN s ELSE Shown(d, j)
  BY DEF Seen
<1>2. N \in [Callers -> [Positions -> {N[d][j] : d \in Callers, j \in Positions}]]
  BY DEF Seen
<1>3. \A d \in Callers : N[d] = [j \in Positions |-> N[d][j]]
  BY DEF Seen
<1>4. N = [d \in Callers |-> [j \in Positions |-> N[d][j]]]
  BY <1>3 DEF Seen
<1> HIDE DEF N
<1>5. N = [d \in Callers |-> [j \in Positions |-> Shown(d, j)']]
  BY <1>1, <1>4
<1>6. QED
  BY <1>5 DEF N, Seen

(* Which batches are open after a thread recorded a task or was woken. *)
LEMMA GatheringKept ==
  ASSUME \A c \in Callers : Registered(c)' <=> Registered(c)
  PROVE  Gathering' = Gathering
BY DEF Gathering

(* A task that is held or queued is one of an open batch. *)
LEMMA HeldIsOpen ==
  ASSUME IndInv, NEW t \in Threads, NEW c \in Callers, NEW i \in Positions, held[t] = <<c, i>>
  PROVE  Registered(c) /\ i \in Live(c) /\ ~finished[c][i] /\ result[c][i] = None
<1>1. held[t] # None
  BY ParAssumption DEF Positions, Tasks
<1>2. i <= submitted[c] /\ ~finished[c][i]
  <2>1. IsLive(<<c, i>>)
    BY <1>1 DEF IndInv, LiveInv
  <2>2. QED
    BY <2>1 DEF IsLive
<1>3. submitted[c] \in Nat /\ i \in 1..submitted[c]
  BY <1>2 DEF IndInv, TypeOK, Positions
<1>4. Registered(c)
  BY <1>3 DEF IndInv, BlankInv
<1>5. result[c][i] = None
  BY <1>2 DEF IndInv, BlankInv
<1>6. QED
  BY <1>2, <1>3, <1>4, <1>5 DEF Live

LEMMA HasTask ==
  ASSUME IndInv, NEW t \in Threads, pc[t] \in {"claimed", "thunk"}
  PROVE  \E c \in Callers, i \in Positions : held[t] = <<c, i>>
<1>1. held[t] \in Tasks
  BY DEF IndInv, HoldInv, TypeOK
<1>2. QED
  BY <1>1 DEF Tasks

(* The thunks Gather sees running are live, the claimed ones are not among *)
(* them.                                                                   *)
LEMMA RunningIsLive ==
  ASSUME IndInv, NEW c \in Callers, NEW i \in Positions, runner[c][i] # None
  PROVE  i \in Live(c) /\ \A t \in Threads : held[t] = <<c, i>> => t = runner[c][i] /\ pc[t] = "thunk"
<1>1. runner[c][i] \in Threads /\ pc[runner[c][i]] = "thunk" /\ held[runner[c][i]] = <<c, i>>
  BY DEF IndInv, TypeOK, RunnerInv
<1>2. <<c, i>> # None
  BY ParAssumption DEF Positions
<1>3. QED
  BY <1>1, <1>2, HeldIsOpen DEF IndInv, ClaimedOnce

(* Gather and ParPool count with the same Cardinality. *)
LEMMA SameCount ==
  ASSUME NEW S
  PROVE  G!Cardinality(S) = Cardinality(S)
BY DEF G!Cardinality, Cardinality

(* The actions of Gather, said with Seen and Gathering. *)
LEMMA GatherStart ==
  ASSUME NEW c \in Callers, NEW i \in Positions, c \in Gathering, ~stopped[c], Seen[c][i] = "waiting",
         Cardinality(G!With(c, "running")) < Quota, Seen' = [Seen EXCEPT ![c][i] = "running"],
         UNCHANGED <<Gathering, stopped, interrupted, answer>>
  PROVE  G!Start(c, i)
BY SameCount DEF G!Start, Seen, Gathering, Shown

LEMMA StartsInGather ==
  ASSUME IndInv, NEW t \in Threads, StartTask(t)
  PROVE  G!Next
<1> USE DEF IndInv
<1>1. PICK c \in Callers, i \in Positions : held[t] = <<c, i>>
  BY DEF StartTask, HoldInv, TypeOK, Tasks
<1>2. /\ ~stopped[c] /\ runner' = [runner EXCEPT ![c][i] = t] /\ pc' = [pc EXCEPT ![t] = "thunk"]
      /\ result' = result /\ stopped' = stopped /\ interrupted' = interrupted /\ answer' = answer
      /\ pc[t] = "claimed" /\ t # None
  BY <1>1, ParAssumption DEF StartTask, batchVars, loopVars, Threads
<1>3. Registered(c) /\ i \in Live(c) /\ result[c][i] = None
  BY <1>1, HeldIsOpen
<1>4. runner[c][i] = None
  BY <1>1, <1>2, RunningIsLive
<1>5. \A d \in Callers : Registered(d)' <=> Registered(d)
  BY <1>2 DEF Registered, TypeOK, Threads
<1>6. ASSUME NEW d \in Callers, NEW j \in Positions
      PROVE  Shown(d, j)' = IF d = c /\ j = i THEN "running" ELSE Shown(d, j)
  <2>1. CASE d = c /\ j = i
    BY <1>2, <2>1 DEF Shown, TypeOK
  <2>2. CASE ~(d = c /\ j = i)
    <3>1. runner'[d][j] = runner[d][j]
      BY <1>2, <2>2 DEF TypeOK
    <3>2. QED
      BY <1>2, <2>2, <3>1 DEF Shown
  <2>3. QED
    BY <2>1, <2>2
<1>7. Seen' = [Seen EXCEPT ![c][i] = "running"]
  BY <1>6, SeenChanges
<1>8. Cardinality(G!With(c, "running")) < Quota
  <2> DEFINE R == {j \in Positions : Shown(c, j) = "running"}
  <2>1. ASSUME NEW j \in R PROVE runner[c][j] # None
    <3>1. j \in Positions /\ Shown(c, j) = "running"
      OBVIOUS
    <3>2. result[c][j] \in {"value", "error", "stop", None}
      BY <3>1 DEF TypeOK, Endings
    <3>3. QED
      BY <3>1, <3>2 DEF Shown
  <2>2. R \subseteq Live(c) \ {i}
    BY <2>1, <1>4, RunningIsLive
  <2>3. IsFiniteSet(Live(c)) /\ outstanding[c] = Cardinality(Live(c)) /\ outstanding[c] <= Quota
    BY OutstandingNat DEF CountInv
  <2> HIDE DEF R
  <2>4. IsFiniteSet(Live(c) \ {i}) /\ Cardinality(Live(c) \ {i}) = Cardinality(Live(c)) - 1
    BY <1>3, <2>3, FS_RemoveElement
  <2>5. IsFiniteSet(R) /\ Cardinality(R) <= Cardinality(Live(c) \ {i})
    BY <2>2, <2>4, FS_Subset
  <2>6. Cardinality(R) \in Nat /\ Cardinality(Live(c)) \in Nat /\ Quota \in Nat
    BY <2>3, <2>5, FS_CardinalityType, ParAssumption
  <2>7. G!With(c, "running") = R
    BY GatherWith DEF R
  <2>8. QED
    BY <2>3, <2>4, <2>5, <2>6, <2>7
<1>9. Shown(c, i) = "waiting" /\ Gathering' = Gathering /\ c \in Gathering
  BY <1>3, <1>4, <1>5, GatheringKept DEF Shown, Gathering
<1>10. G!Start(c, i)
  <2>1. Seen[c][i] = "waiting"
    BY <1>9 DEF Seen
  <2>2. UNCHANGED <<Gathering, stopped, interrupted, answer>>
    BY <1>2, <1>9
  <2>3. QED
    BY <1>2, <1>7, <1>8, <1>9, <2>1, <2>2, GatherStart
<1>11. i \in G!Positions
  BY DEF G!Positions, Positions
<1>12. QED
  BY <1>10, <1>11 DEF G!Next

LEMMA GatherEnd ==
  ASSUME NEW c \in Callers, NEW i \in Positions, NEW res, Seen[c][i] = "running",
         Seen' = [Seen EXCEPT ![c][i] = res], stopped' = [stopped EXCEPT ![c] = @ \/ res = "stop"],
         UNCHANGED <<Gathering, interrupted, answer>>
  PROVE  G!End(c, i, res)
BY DEF G!End, Seen, Gathering, Shown

(* What Gather sees of the tail of vis_py_task_run. *)
LEMMA RecordSeen ==
  ASSUME IndInv, NEW t \in Threads, NEW c \in Callers, NEW i \in Positions, held[t] = <<c, i>>,
         pc[t] \in {"claimed", "thunk"}, NEW res \in Endings \cup {None}, Record(t, res)
  PROVE  /\ Gathering' = Gathering
         /\ stopped' = [stopped EXCEPT ![c] = @ \/ res = "stop"]
         /\ \A d \in Callers, j \in Positions :
              Shown(d, j)' = IF d = c /\ j = i THEN (IF res # None THEN res ELSE "waiting") ELSE Shown(d, j)
<1> USE DEF IndInv
<1>1. /\ runner' = [runner EXCEPT ![c][i] = None] /\ result' = [result EXCEPT ![c][i] = res]
      /\ stopped' = [stopped EXCEPT ![c] = @ \/ res = "stop"]
      /\ \/ t \in Callers /\ pc' = [Broadcast(pc) EXCEPT ![t] = "submit"]
         \/ t \notin Callers /\ pc' = [Broadcast(pc) EXCEPT ![t] = "fetch"]
  BY DEF Record
<1>2. /\ Broadcast(pc) \in [Threads -> CallerPcs \cup WorkerPcs]
      /\ \A d \in Callers : Broadcast(pc)[d] \in {"out", "block"} <=> pc[d] \in {"out", "block"}
  BY BroadcastMoves
<1>3. \A d \in Callers : Registered(d)' <=> Registered(d)
  <2>1. ASSUME NEW d \in Callers, d # t PROVE pc'[d] = Broadcast(pc)[d]
    BY <1>1, <1>2, <2>1 DEF Threads
  <2>2. t \in Callers => pc'[t] = "submit"
    BY <1>1, <1>2 DEF Threads
  <2>3. QED
    BY <1>2, <2>1, <2>2 DEF Registered
<1>4. runner'[c][i] = None /\ result'[c][i] = res
  BY <1>1 DEF TypeOK
<1>5. ASSUME NEW d \in Callers, NEW j \in Positions, ~(d = c /\ j = i)
      PROVE  runner'[d][j] = runner[d][j] /\ result'[d][j] = result[d][j]
  BY <1>1, <1>5 DEF TypeOK
<1>6. QED
  BY <1>1, <1>3, <1>4, <1>5, GatheringKept DEF Shown

LEMMA EndsInGather ==
  ASSUME IndInv, NEW t \in Threads, UnwindThunk(t) \/ \E res \in Results : EndThunk(t, res)
  PROVE  G!Next
<1> USE DEF IndInv
<1>1. PICK res \in Endings : Record(t, res)
  BY ParAssumption DEF UnwindThunk, EndThunk, Endings
<1>2. pc[t] = "thunk" /\ interrupted' = interrupted /\ answer' = answer
  BY DEF UnwindThunk, EndThunk
<1>3. PICK c \in Callers, i \in Positions : held[t] = <<c, i>>
  BY <1>2, HasTask
<1>4. /\ Gathering' = Gathering
      /\ stopped' = [stopped EXCEPT ![c] = @ \/ res = "stop"]
      /\ \A d \in Callers, j \in Positions :
           Shown(d, j)' = IF d = c /\ j = i THEN (IF res # None THEN res ELSE "waiting") ELSE Shown(d, j)
  BY <1>1, <1>2, <1>3, RecordSeen
<1>5. res # None
  BY ParAssumption
<1>6. Seen' = [Seen EXCEPT ![c][i] = res]
  BY <1>4, <1>5, SeenChanges
<1>7. Seen[c][i] = "running"
  <2>1. runner[c][i] = t /\ t # None
    BY <1>2, <1>3, ParAssumption DEF RunnerInv, Threads
  <2>2. QED
    BY <2>1 DEF Seen, Shown
<1>8. G!End(c, i, res)
  BY <1>2, <1>4, <1>6, <1>7, GatherEnd
<1>9. i \in G!Positions /\ res \in {"value", "error", "stop"}
  BY DEF G!Positions, Positions, Endings
<1>10. QED
  BY <1>8, <1>9 DEF G!Next

(* A task of a stopped batch ends without having started: Gather does not  *)
(* see it.                                                                 *)
LEMMA SkipIsUnseen ==
  ASSUME IndInv, NEW t \in Threads, SkipTask(t)
  PROVE  UNCHANGED G!gatherVars
<1> USE DEF IndInv
<1>1. Record(t, None) /\ pc[t] = "claimed" /\ interrupted' = interrupted /\ answer' = answer
  BY DEF SkipTask
<1>2. PICK c \in Callers, i \in Positions : held[t] = <<c, i>>
  BY <1>1, HasTask
<1>3. /\ Gathering' = Gathering
      /\ stopped' = [stopped EXCEPT ![c] = @ \/ None = "stop"]
      /\ \A d \in Callers, j \in Positions :
           Shown(d, j)' = IF d = c /\ j = i THEN "waiting" ELSE Shown(d, j)
  BY <1>1, <1>2, RecordSeen
<1>4. runner[c][i] = None /\ result[c][i] = None
  BY <1>1, <1>2, RunningIsLive, HeldIsOpen
<1>5. Shown(c, i) = "waiting"
  BY <1>4 DEF Shown
<1>6. stopped' = stopped
  BY <1>3, ParAssumption DEF Endings, TypeOK
<1>7. \A d \in Callers : Registered(d)' <=> Registered(d)
  <2>1. \A d \in Callers : (d \in Gathering)' <=> d \in Gathering
    BY <1>3
  <2>2. QED
    BY <2>1 DEF Gathering
<1>8. QED
  BY <1>1, <1>3, <1>5, <1>6, <1>7, Unseen

-----------------------------------------------------------------------------
LEMMA GatherClose ==
  ASSUME NEW c \in Callers, c \in Gathering, G!With(c, "running") = {}, stopped[c] \/ G!With(c, "waiting") = {},
         Gathering' = Gathering \ {c}, answer' = [answer EXCEPT ![c] = G!Outcome(c)],
         Seen' = [Seen EXCEPT ![c] = G!Fresh], stopped' = [stopped EXCEPT ![c] = FALSE],
         interrupted' = [interrupted EXCEPT ![c] = FALSE]
  PROVE  G!Close(c)
BY DEF G!Close, Seen, Gathering, Shown

(* With nothing outstanding, what Gather sees of a thunk is its result.    *)
LEMMA NothingRuns ==
  ASSUME IndInv, NEW c \in Callers, outstanding[c] = 0, NEW i \in Positions
  PROVE  /\ Shown(c, i) = IF result[c][i] # None THEN result[c][i] ELSE "waiting"
         /\ Shown(c, i) # "running"
         /\ Shown(c, i) = "waiting" <=> result[c][i] = None
         /\ Shown(c, i) \in {"stop", "error"} => Shown(c, i) = result[c][i]
         /\ result[c][i] \in {"stop", "error"} => Shown(c, i) = result[c][i]
<1>1. runner[c][i] = None
  BY NothingLeft, RunningIsLive
<1>2. result[c][i] \in {"value", "error", "stop", None} /\ None \notin {"value", "error", "stop"}
  BY ParAssumption DEF IndInv, TypeOK, Endings
<1>3. QED
  BY <1>1, <1>2 DEF Shown

(* The outcome Gather promises is the one vis_py_par chooses. *)
LEMMA ChosenIsOutcome ==
  ASSUME IndInv, NEW c \in Callers, outstanding[c] = 0
  PROVE  G!Outcome(c) = Chosen(c)
<1>1. G!With(c, "stop") = Stops(c) /\ G!With(c, "error") = Errors(c)
  BY GatherWith, NothingRuns DEF Stops, Errors
<1>2. \A S : G!FirstOf(S) = First(S)
  BY DEF G!FirstOf, First
<1>3. QED
  BY <1>1, <1>2 DEF G!Outcome, Chosen

(* The way out of vis_py_par closes the gather. *)
LEMMA ClosesInGather ==
  ASSUME IndInv, NEW c \in Callers, Settle(c) \/ AnswerDrained(c)
  PROVE  G!Next
<1> USE DEF IndInv
<1>1. /\ outstanding[c] = 0 /\ Registered(c)
      /\ answer' = [answer EXCEPT ![c] = Chosen(c)] /\ pc' = [pc EXCEPT ![c] = "block"]
      /\ stopped' = [stopped EXCEPT ![c] = FALSE] /\ interrupted' = [interrupted EXCEPT ![c] = FALSE]
      /\ runner' = [runner EXCEPT ![c] = [i \in Positions |-> None]]
      /\ result' = [result EXCEPT ![c] = [i \in Positions |-> None]]
  BY DEF Settle, AnswerDrained, Answer, CountInv, Registered
<1>2. ~Registered(c)' /\ \A d \in Callers : d # c => (Registered(d)' <=> Registered(d))
  BY <1>1 DEF Registered, TypeOK, Threads
<1>3. Gathering' = Gathering \ {c} /\ c \in Gathering
  <2>1. Gathering' = {d \in Callers : Registered(d)'}
    BY DEF Gathering
  <2>2. QED
    BY <1>1, <1>2, <2>1 DEF Gathering
<1>4. G!With(c, "running") = {}
  BY <1>1, GatherWith, NothingRuns
<1>5. stopped[c] \/ G!With(c, "waiting") = {}
  <2>1. AnswerStep(c)
    BY AnswerIsWhole
  <2>2. stopped[c] \/ \A i \in Positions : result[c][i] # None
    BY <1>1, <1>2, <2>1 DEF AnswerStep
  <2>3. G!With(c, "waiting") = {i \in Positions : Shown(c, i) = "waiting"}
    BY GatherWith
  <2>4. QED
    BY <1>1, <2>2, <2>3, NothingRuns
<1>6. ASSUME NEW d \in Callers, NEW j \in Positions
      PROVE  Shown(d, j)' = IF d = c THEN "waiting" ELSE Shown(d, j)
  <2>1. d = c => runner'[d][j] = None /\ result'[d][j] = None
    BY <1>1 DEF TypeOK
  <2>2. d # c => runner'[d] = runner[d] /\ result'[d] = result[d]
    BY <1>1 DEF TypeOK
  <2>3. QED
    BY <2>1, <2>2 DEF Shown
<1>7. Seen' = [Seen EXCEPT ![c] = G!Fresh]
  <2>1. Seen' = [d \in Callers |-> IF d = c THEN [j \in Positions |-> "waiting"] ELSE Seen[d]]
    <3>1. Seen' = [d \in Callers |-> [j \in Positions |-> Shown(d, j)']]
      BY DEF Seen
    <3>2. QED
      BY <1>6, <3>1 DEF Seen
  <2>2. G!Fresh = [j \in Positions |-> "waiting"]
    BY DEF G!Fresh, G!Positions, Positions
  <2>3. QED
    BY <2>1, <2>2 DEF Seen
<1>8. answer' = [answer EXCEPT ![c] = G!Outcome(c)]
  BY <1>1, ChosenIsOutcome
<1>9. G!Close(c)
  BY <1>1, <1>3, <1>4, <1>5, <1>7, <1>8, GatherClose
<1>10. QED
  BY <1>9 DEF G!Next

-----------------------------------------------------------------------------
(* With the runners and the results of the thunks unchanged, Gather sees   *)
(* them as before.                                                         *)
LEMMA SeenSame ==
  ASSUME runner' = runner, result' = result
  PROVE  Seen' = Seen /\ \A c \in Callers, i \in Positions : Shown(c, i)' = Shown(c, i)
BY DEF Seen, Shown

LEMMA GatherOpen ==
  ASSUME NEW c \in Callers, c \notin Gathering, Gathering' = Gathering \cup {c},
         answer' = [answer EXCEPT ![c] = None], UNCHANGED <<Seen, stopped, interrupted>>
  PROVE  G!Open(c)
BY DEF G!Open, Seen, Gathering, Shown

LEMMA GatherInterrupt ==
  ASSUME NEW c \in Callers, c \in Gathering, stopped' = [stopped EXCEPT ![c] = TRUE],
         interrupted' = [interrupted EXCEPT ![c] = TRUE], UNCHANGED <<Gathering, Seen, answer>>
  PROVE  G!Interrupt(c)
BY DEF G!Interrupt, Seen, Gathering, Shown

LEMMA OpensInGather ==
  ASSUME IndInv, NEW c \in Callers, OpenBatch(c)
  PROVE  G!Next
<1> USE DEF IndInv
<1>1. /\ pc[c] = "block" /\ answer' = [answer EXCEPT ![c] = None]
      /\ runner' = runner /\ result' = result /\ stopped' = stopped /\ interrupted' = interrupted
  BY DEF OpenBatch, batchVars, taskVars
<1>2. PICK made \in SUBSET {w \in Workers : pc[w] = "absent"} :
        pc' = [t \in Threads |-> IF t = c THEN "submit" ELSE IF t \in made THEN "fetch" ELSE pc[t]]
  BY DEF OpenBatch
<1>3. pc'[c] = "submit" /\ \A d \in Callers : d # c => pc'[d] = pc[d]
  BY <1>2, ParAssumption DEF Threads
<1>4. ~Registered(c) /\ Registered(c)' /\ \A d \in Callers : d # c => (Registered(d)' <=> Registered(d))
  BY <1>1, <1>3 DEF Registered
<1>5. c \notin Gathering /\ Gathering' = Gathering \cup {c}
  <2>1. Gathering' = {d \in Callers : Registered(d)'}
    BY DEF Gathering
  <2>2. QED
    BY <1>4, <2>1 DEF Gathering
<1>6. UNCHANGED <<Seen, stopped, interrupted>>
  BY <1>1, SeenSame
<1>7. G!Open(c)
  BY <1>1, <1>5, <1>6, GatherOpen
<1>8. QED
  BY <1>7 DEF G!Next

(* vispython_interrupt interrupts the gather of the thread it read, or     *)
(* finds none open and changes nothing that Gather sees.                   *)
LEMMA InterruptsInGather ==
  ASSUME IndInv, RaiseInterrupt
  PROVE  G!Next \/ UNCHANGED G!gatherVars
<1> USE DEF IndInv
<1>1. target \in Callers /\ runner' = runner /\ result' = result /\ answer' = answer /\ pc' = Broadcast(pc)
  BY DEF RaiseInterrupt, taskVars, loopVars, TypeOK
<1>2. \A c \in Callers : Registered(c)' <=> Registered(c)
  BY <1>1, BroadcastQuiet
<1>3. Gathering' = Gathering /\ UNCHANGED Seen /\ \A c \in Callers, i \in Positions : Shown(c, i)' = Shown(c, i)
  BY <1>1, <1>2, GatheringKept, SeenSame
<1>4. CASE pc[target] # "out" /\ Registered(target)
  <2>1. /\ stopped' = [stopped EXCEPT ![target] = TRUE]
        /\ interrupted' = [interrupted EXCEPT ![target] = TRUE]
    BY <1>4 DEF RaiseInterrupt
  <2>2. target \in Gathering
    BY <1>1, <1>4 DEF Gathering
  <2>3. UNCHANGED <<Gathering, Seen, answer>>
    BY <1>1, <1>3
  <2>4. G!Interrupt(target)
    BY <1>1, <2>1, <2>2, <2>3, GatherInterrupt
  <2>5. QED
    BY <1>1, <2>4 DEF G!Next
<1>5. CASE ~(pc[target] # "out" /\ Registered(target))
  <2>1. stopped' = stopped /\ interrupted' = interrupted
    <3>1. CASE pc[target] = "out"
      BY <3>1 DEF RaiseInterrupt
    <3>2. CASE pc[target] # "out"
      <4>1. /\ stopped' = [stopped EXCEPT ![target] = @ \/ Registered(target)]
            /\ interrupted' = [interrupted EXCEPT ![target] = @ \/ Registered(target)]
            /\ ~Registered(target)
        BY <1>5, <3>2 DEF RaiseInterrupt
      <4>2. stopped \in [Callers -> BOOLEAN] /\ interrupted \in [Callers -> BOOLEAN]
        BY DEF TypeOK
      <4>3. (stopped[target] \/ Registered(target)) = stopped[target]
            /\ (interrupted[target] \/ Registered(target)) = interrupted[target]
        BY <1>1, <4>1, <4>2
      <4>4. QED
        BY <1>1, <4>1, <4>2, <4>3
    <3>3. QED
      BY <3>1, <3>2
  <2>2. QED
    BY <1>1, <1>2, <1>3, <2>1, Unseen
<1>6. QED
  BY <1>4, <1>5

(* The steps that Gather does not see: queueing, waiting, waking, claiming *)
(* and taking back.                                                        *)
LEMMA HiddenSteps ==
  ASSUME IndInv, runner' = runner, result' = result, stopped' = stopped, interrupted' = interrupted, answer' = answer,
         \A c \in Callers : pc'[c] \in {"out", "block"} <=> pc[c] \in {"out", "block"}
  PROVE  UNCHANGED G!gatherVars
<1>1. \A c \in Callers : Registered(c)' <=> Registered(c)
  BY DEF Registered
<1>2. QED
  BY <1>1, SeenSame, Unseen

LEMMA HiddenCallerSteps ==
  ASSUME IndInv, NEW c \in Callers, CallerStep(c), ~OpenBatch(c), ~Settle(c), ~AnswerDrained(c)
  PROVE  UNCHANGED G!gatherVars
<1>1. runner' = runner /\ result' = result /\ stopped' = stopped /\ interrupted' = interrupted /\ answer' = answer
  BY DEF CallerStep, BeginRun, EndRun, LandInBlock, Submit, Look, Recheck, Timeout, Regain, LeaveLoop, Drain,
         DrainRecheck, batchVars, taskVars, loopVars
<1>2. pc \in [Threads -> CallerPcs \cup WorkerPcs] /\ Callers \cap Workers = {} /\ Threads = Callers \cup Workers
  BY ParAssumption DEF IndInv, TypeOK, Threads
<1>3. CASE Submit(c)
  <2>1. PICK S \in SUBSET Workers :
          pc' = [t \in Threads |-> IF t = c THEN "look" ELSE IF t \in S THEN "woken" ELSE pc[t]]
    BY <1>3 DEF Submit
  <2>2. \A d \in Callers : pc'[d] = IF d = c THEN "look" ELSE pc[d]
    BY <1>2, <2>1
  <2>3. pc[c] = "submit"
    BY <1>3 DEF Submit
  <2>4. QED
    BY <1>1, <2>2, <2>3, HiddenSteps
<1>4. CASE LandInBlock(c)
  BY <1>1, <1>4, HiddenSteps DEF LandInBlock, gilVars
<1>5. CASE ~Submit(c) /\ ~LandInBlock(c)
  <2>1. PICK p : /\ pc' = [pc EXCEPT ![c] = p]
                 /\ p \in {"out", "block"} <=> pc[c] \in {"out", "block"}
    BY <1>5 DEF CallerStep, BeginRun, EndRun, Look, Recheck, Timeout, Regain, LeaveLoop, Drain, DrainRecheck,
                Claim, WaitOrGoOn
  <2>2. \A d \in Callers : pc'[d] = IF d = c THEN p ELSE pc[d]
    BY <1>2, <2>1
  <2>3. QED
    BY <1>1, <2>1, <2>2, HiddenSteps
<1>6. QED
  BY <1>3, <1>4, <1>5

LEMMA HiddenOtherSteps ==
  ASSUME IndInv,
         \/ \E w \in Workers : WorkerStep(w)
         \/ \E t \in Threads : DropGil(t) \/ TakeGil(t) \/ SwallowInThunk(t) \/ SpuriousWake(t)
         \/ ReadTarget
         \/ UNCHANGED vars
  PROVE  UNCHANGED G!gatherVars
<1>1. runner' = runner /\ result' = result /\ stopped' = stopped /\ interrupted' = interrupted /\ answer' = answer
  BY DEF WorkerStep, WorkerWaits, WorkerClaims, DropGil, TakeGil, SwallowInThunk, SpuriousWake, ReadTarget, vars,
         batchVars, taskVars, loopVars
<1>2. pc \in [Threads -> CallerPcs \cup WorkerPcs] /\ Callers \cap Workers = {} /\ Threads = Callers \cup Workers
  BY ParAssumption DEF IndInv, TypeOK, Threads
<1>3. pc' = pc \/ \E t \in Threads : \E p :
        /\ pc' = [pc EXCEPT ![t] = p]
        /\ t \in Callers => pc[t] = "drainParked" /\ p = "drainWoken"
  BY <1>2 DEF WorkerStep, WorkerWaits, WorkerClaims, DropGil, TakeGil, SwallowInThunk, SpuriousWake, ReadTarget, vars,
              gilVars
<1>4. \A c \in Callers : pc'[c] \in {"out", "block"} <=> pc[c] \in {"out", "block"}
  BY <1>2, <1>3
<1>5. QED
  BY <1>1, <1>4, HiddenSteps

(* Every step of the pool is a step of a gather, or one nobody outside     *)
(* sees.                                                                   *)
LEMMA GatherStep ==
  ASSUME IndInv, [Next]_vars
  PROVE  G!Next \/ UNCHANGED G!gatherVars
<1>1. ASSUME NEW c \in Callers, CallerStep(c) PROVE G!Next \/ UNCHANGED G!gatherVars
  BY <1>1, OpensInGather, ClosesInGather, HiddenCallerSteps
<1>2. ASSUME NEW t \in Threads, ThreadStep(t) PROVE G!Next \/ UNCHANGED G!gatherVars
  BY <1>2, StartsInGather, SkipIsUnseen, EndsInGather, HiddenOtherSteps DEF ThreadStep
<1>3. QED
  BY <1>1, <1>2, InterruptsInGather, HiddenOtherSteps DEF Next

(* `par` keeps the promise of Gather, whichever thread runs a thunk: at    *)
(* most a quota runs at once, none starts once the gather is stopped, and  *)
(* it answers only when none runs, with the outcome the first failure, the *)
(* host's interrupt or the values decide.                                  *)
THEOREM PoolImplementsGather == Spec => ImplementsGather
<1>1. Init => G!Init
  BY GatherInit
<1>2. IndInv /\ [Next]_vars => [G!Next]_(G!gatherVars)
  BY GatherStep
<1>3. QED
  BY <1>1, <1>2, Invariance, PTL DEF Spec, ImplementsGather, G!Spec
=============================================================================
