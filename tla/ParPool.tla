------------------------------ MODULE ParPool ------------------------------
(***************************************************************************)
(* `_vis_host.par(thunks)` of native/vispython/vispython.c: the bounded    *)
(* pool of C worker threads, the batch one `par` call owns, the caller     *)
(* that runs a task nobody claimed, and the host's interrupt.              *)
(*                                                                         *)
(* Every section the code runs under `vis_py_pool.lock` is one step.  The  *)
(* lock is never held while a thread waits for the GIL or on a condition,  *)
(* so nothing else can be observed of it.  A section that follows another  *)
(* without giving up the GIL is merged with it when only threads holding   *)
(* the GIL can tell the difference.  What stays apart is what the code     *)
(* leaves apart: the wait on a condition and the wake from it, the wait    *)
(* for the GIL, and the steps of a thunk, which may drop the GIL and take  *)
(* it again.                                                               *)
(*                                                                         *)
(* Each caller has at most one open batch, so the batch is named by its    *)
(* owner and the task is the pair <<owner, position>>.                     *)
(***************************************************************************)
EXTENDS Integers, Sequences, FiniteSets

CONSTANTS
  Callers,       \* host threads that run blocks and call `par`
  Workers,       \* the threads vis_py_pool_start asks for
  Count,         \* thunks in one `par` (fewer than two never reach the pool)
  Quota,         \* vis_py_par_quota
  Results,       \* how a thunk may end: a subset of Endings
  Ending,        \* callers whose thunks end of themselves, in FairSpec
  Swallows,      \* whether a thunk may catch the host's interrupt
  MaxInterrupts, \* bound: host interrupts in a behaviour
  None           \* no thread, no task

Endings == {"value", "error", "stop"}

ASSUME ParAssumption ==
  /\ Callers \cap Workers = {}
  /\ None \notin Callers \cup Workers
  /\ None \notin (Callers \X (1..Count)) \cup Endings
  /\ Count \in Nat /\ Count >= 2
  /\ Quota \in Nat /\ Quota >= 1
  /\ Results \subseteq Endings
  /\ Ending \subseteq Callers
  /\ Swallows \in BOOLEAN
  /\ MaxInterrupts \in Nat
  /\ IsFiniteSet(Callers) /\ IsFiniteSet(Workers)

Threads == Callers \cup Workers
Positions == 1..Count
Tasks == Callers \X Positions

VARIABLES
  gil,            \* the thread holding the GIL, or None
  pc,             \* where each thread is
  held,           \* the task a thread claimed and has not recorded
  queue,          \* vis_py_pool.head .. tail
  started,        \* vis_py_pool.started
  index,          \* the loop variable i of vis_py_par
  saturated,      \* its flag of that name
  submitted,      \* tasks of the batch given to the queue so far
  done,           \* batch->done
  outstanding,    \* batch->outstanding
  stopped,        \* batch->stopped
  interrupted,    \* batch->interrupted
  finished,       \* task->finished
  runner,         \* task->runner
  result,         \* task->value / task->error
  answer,         \* what the last `par` of the caller answered
  pending,        \* an async KeyboardInterrupt waits in the thread state
  running_thread, \* vis_py_running_thread
  target,         \* what vispython_interrupt read from it
  issued,         \* history: interrupts raised in each caller
  seen            \* history: interrupts each caller's block met

gilVars == <<gil, pc, held>>
batchVars == <<submitted, done, outstanding, stopped, interrupted>>
taskVars == <<finished, runner, result>>
loopVars == <<index, saturated, answer>>
hostVars == <<running_thread, target, issued, seen>>
vars == <<gilVars, queue, started, batchVars, taskVars, loopVars, pending, hostVars>>

CallerPcs == {"out", "block", "submit", "look", "parked", "woken", "regain",
              "claimed", "thunk", "drain", "drainParked", "drainWoken", "drained"}
WorkerPcs == {"absent", "fetch", "parked", "woken", "claimed", "thunk"}

(* The batch is on vis_py_pool.batches from the start of `par` to its end. *)
Registered(c) == pc[c] \notin {"out", "block"}

(* A worker in pthread_cond_wait counts as idle until it has the lock      *)
(* back, so a signalled one that has not run yet still counts.             *)
Idle == {w \in Workers : pc[w] \in {"parked", "woken"}}

Queued(t) == \E k \in 1..Len(queue) : queue[k] = t

(* pthread_cond_broadcast(&vis_py_pool.finished).                          *)
Broadcast(p) == [t \in Threads |->
                   IF t \in Callers /\ p[t] = "parked" THEN "woken"
                   ELSE IF t \in Callers /\ p[t] = "drainParked" THEN "drainWoken"
                   ELSE p[t]]

(* n pthread_cond_signal(&vis_py_pool.work): each wakes a waiting worker,  *)
(* as long as there is one.                                                *)
Signalled(S, n) ==
  LET waiting == {w \in Workers : pc[w] = "parked"}
  IN  /\ S \subseteq waiting
      /\ \/ Cardinality(S) = n
         \/ S = waiting /\ Cardinality(waiting) < n

(* vis_py_unqueue of every task in T that is still queued: the rest of the *)
(* queue keeps its order.  (Said with the order-preserving map of the new  *)
(* places to the old ones, and not with a recursive filter.)               *)
Unqueue(T) ==
  LET K == {k \in 1..Len(queue) : queue[k] \notin T}
      N == 1..Cardinality(K)
  IN  \E f \in [N -> K] :
        /\ \A j, k \in N : j < k => f[j] < f[k]
        /\ \A k \in K : \E j \in N : f[j] = k
        /\ queue' = [j \in N |-> queue[f[j]]]

-----------------------------------------------------------------------------
Init ==
  /\ gil = None
  /\ pc = [t \in Threads |-> IF t \in Callers THEN "out" ELSE "absent"]
  /\ held = [t \in Threads |-> None]
  /\ queue = <<>>
  /\ started = FALSE
  /\ index = [c \in Callers |-> 1]
  /\ saturated = [c \in Callers |-> FALSE]
  /\ submitted = [c \in Callers |-> 0]
  /\ done = [c \in Callers |-> 0]
  /\ outstanding = [c \in Callers |-> 0]
  /\ stopped = [c \in Callers |-> FALSE]
  /\ interrupted = [c \in Callers |-> FALSE]
  /\ finished = [c \in Callers |-> [i \in Positions |-> FALSE]]
  /\ runner = [c \in Callers |-> [i \in Positions |-> None]]
  /\ result = [c \in Callers |-> [i \in Positions |-> None]]
  /\ answer = [c \in Callers |-> None]
  /\ pending = [t \in Threads |-> FALSE]
  /\ running_thread = None
  /\ target = None
  /\ issued = [c \in Callers |-> 0]
  /\ seen = [c \in Callers |-> 0]

-----------------------------------------------------------------------------
(* Python code on a thread: a block or a thunk.                            *)

InPython(t) == pc[t] \in {"block", "thunk"}

(* vispython_run_block: take the GIL and name this thread as the one the   *)
(* host runs.                                                              *)
BeginRun(c) ==
  /\ pc[c] = "out" /\ gil = None
  /\ gil' = c
  /\ pc' = [pc EXCEPT ![c] = "block"]
  /\ running_thread' = c
  /\ UNCHANGED <<held, queue, started, batchVars, taskVars, loopVars, pending, target, issued, seen>>

(* The block ends: nobody is running as far as the host can see, and the   *)
(* thread state goes away with whatever was pending in it.                 *)
EndRun(c) ==
  /\ pc[c] = "block" /\ gil = c
  /\ gil' = None
  /\ pc' = [pc EXCEPT ![c] = "out"]
  /\ running_thread' = None
  /\ pending' = [pending EXCEPT ![c] = FALSE]
  /\ UNCHANGED <<held, queue, started, batchVars, taskVars, loopVars, target, issued, seen>>

(* The switch interval, or a host call: Python code gives the GIL up.      *)
DropGil(t) ==
  /\ InPython(t) /\ gil = t
  /\ gil' = None
  /\ UNCHANGED <<pc, held, queue, started, batchVars, taskVars, loopVars, pending, hostVars>>

TakeGil(t) ==
  /\ InPython(t) /\ gil = None
  /\ gil' = t
  /\ UNCHANGED <<pc, held, queue, started, batchVars, taskVars, loopVars, pending, hostVars>>

(* The pending exception lands at a bytecode of the block itself.          *)
LandInBlock(c) ==
  /\ pc[c] = "block" /\ gil = c /\ pending[c]
  /\ pending' = [pending EXCEPT ![c] = FALSE]
  /\ seen' = [seen EXCEPT ![c] = @ + 1]
  /\ UNCHANGED <<gilVars, queue, started, batchVars, taskVars, loopVars, running_thread, target, issued>>

(* It lands in a thunk, and the guest's own handler swallows it.           *)
SwallowInThunk(t) ==
  /\ Swallows
  /\ pc[t] = "thunk" /\ gil = t /\ pending[t]
  /\ pending' = [pending EXCEPT ![t] = FALSE]
  /\ UNCHANGED <<gilVars, queue, started, batchVars, taskVars, loopVars, hostVars>>

-----------------------------------------------------------------------------
(* The tail of vis_py_task_run: thread t records how its task ended.  A    *)
(* worker then gives the GIL back, and with it its thread state; a caller  *)
(* keeps it and goes round its loop.                                       *)
Record(t, res) ==
  LET c == held[t][1]
      i == held[t][2]
  IN  /\ finished' = [finished EXCEPT ![c][i] = TRUE]
      /\ runner' = [runner EXCEPT ![c][i] = None]
      /\ result' = [result EXCEPT ![c][i] = res]
      /\ stopped' = [stopped EXCEPT ![c] = @ \/ res = "stop"]
      /\ done' = [done EXCEPT ![c] = @ + 1]
      /\ outstanding' = [outstanding EXCEPT ![c] = @ - 1]
      /\ held' = [held EXCEPT ![t] = None]
      /\ IF t \in Callers
         THEN /\ pc' = [Broadcast(pc) EXCEPT ![t] = "submit"]
              /\ index' = [index EXCEPT ![t] = @ + 1]
              /\ gil' = t
         ELSE /\ pc' = [Broadcast(pc) EXCEPT ![t] = "fetch"]
              /\ UNCHANGED index
              /\ gil' = None

(* Mutant: the running thunk does not name its thread.                     *)
StartTaskUnnamed(t) ==
  /\ pc[t] = "claimed" /\ gil = None
  /\ ~stopped[held[t][1]]
  /\ gil' = t
  /\ pc' = [pc EXCEPT ![t] = "thunk"]
  /\ UNCHANGED <<held, queue, started, batchVars, taskVars, loopVars, pending, hostVars>>

(* Mutant: a task of a stopped batch is started all the same.              *)
StartTaskUnchecked(t) ==
  /\ pc[t] = "claimed" /\ gil = None
  /\ gil' = t
  /\ runner' = [runner EXCEPT ![held[t][1]][held[t][2]] = t]
  /\ pc' = [pc EXCEPT ![t] = "thunk"]
  /\ UNCHANGED <<held, queue, started, batchVars, finished, result, loopVars, pending, hostVars>>

(* The head of vis_py_task_run, once the thread has the GIL: a task of a   *)
(* stopped batch is recorded without being started.                        *)
StartTask(t) ==
  /\ pc[t] = "claimed" /\ gil = None
  /\ ~stopped[held[t][1]]
  /\ gil' = t
  /\ runner' = [runner EXCEPT ![held[t][1]][held[t][2]] = t]
  /\ pc' = [pc EXCEPT ![t] = "thunk"]
  /\ UNCHANGED <<held, queue, started, batchVars, finished, result, loopVars, pending, hostVars>>

SkipTask(t) ==
  /\ pc[t] = "claimed" /\ gil = None
  /\ stopped[held[t][1]]
  /\ Record(t, None)
  /\ UNCHANGED <<queue, started, submitted, interrupted, saturated, answer, pending, hostVars>>

(* The thunk returns or raises.  A worker's pending exception dies with    *)
(* its thread state, a caller's stays.                                     *)
EndThunk(t, res) ==
  /\ pc[t] = "thunk" /\ gil = t
  /\ Record(t, res)
  /\ pending' = [pending EXCEPT ![t] = @ /\ t \in Callers]
  /\ UNCHANGED <<queue, started, submitted, interrupted, saturated, answer, hostVars>>

(* The host's interrupt lands in the thunk and unwinds it.                 *)
UnwindThunk(t) ==
  /\ pc[t] = "thunk" /\ gil = t /\ pending[t]
  /\ Record(t, "stop")
  /\ pending' = [pending EXCEPT ![t] = FALSE]
  /\ UNCHANGED <<queue, started, submitted, interrupted, saturated, answer, hostVars>>

-----------------------------------------------------------------------------
(* vis_py_worker_main: with nothing queued the worker waits, else it takes *)
(* the head and goes for the GIL.                                          *)
WorkerWaits(w) ==
  /\ pc[w] \in {"fetch", "woken"} /\ queue = <<>>
  /\ pc' = [pc EXCEPT ![w] = "parked"]
  /\ UNCHANGED <<gil, held, queue, started, batchVars, taskVars, loopVars, pending, hostVars>>

(* Mutant: the head is taken and stays the head.                           *)
WorkerClaimsKeepingHead(w) ==
  /\ pc[w] \in {"fetch", "woken"} /\ queue # <<>>
  /\ held' = [held EXCEPT ![w] = Head(queue)]
  /\ pc' = [pc EXCEPT ![w] = "claimed"]
  /\ UNCHANGED <<gil, queue, started, batchVars, taskVars, loopVars, pending, hostVars>>

WorkerClaims(w) ==
  /\ pc[w] \in {"fetch", "woken"} /\ queue # <<>>
  /\ held' = [held EXCEPT ![w] = Head(queue)]
  /\ queue' = Tail(queue)
  /\ pc' = [pc EXCEPT ![w] = "claimed"]
  /\ UNCHANGED <<gil, started, batchVars, taskVars, loopVars, pending, hostVars>>

(* A condition wait may return for no reason at all.                       *)
SpuriousWake(t) ==
  /\ \/ t \in Workers /\ pc[t] = "parked"
     \/ t \in Callers /\ pc[t] = "drainParked"
  /\ pc' = [pc EXCEPT ![t] = IF t \in Workers THEN "woken" ELSE "drainWoken"]
  /\ UNCHANGED <<gil, held, queue, started, batchVars, taskVars, loopVars, pending, hostVars>>

-----------------------------------------------------------------------------
(* vis_py_par on the caller's thread.                                      *)

(* The batch is built and registered.  The first call starts the workers:  *)
(* the machine may give only some of them, and when it gives none `par`    *)
(* raises and the next call tries again.                                   *)
OpenBatch(c) ==
  /\ pc[c] = "block" /\ gil = c
  /\ \E made \in SUBSET {w \in Workers : pc[w] = "absent"} :
       /\ started => made = {}
       /\ started \/ made # {}
       /\ started' = TRUE
       /\ pc' = [t \in Threads |-> IF t = c THEN "submit"
                                   ELSE IF t \in made THEN "fetch" ELSE pc[t]]
  /\ index' = [index EXCEPT ![c] = 1]
  /\ saturated' = [saturated EXCEPT ![c] = FALSE]
  /\ answer' = [answer EXCEPT ![c] = None]
  /\ UNCHANGED <<gil, held, queue, batchVars, taskVars, pending, hostVars>>

(* Mutant: `<=` for `<` in the quota test.                                 *)
RoomOffByOne(c) == IF Count - submitted[c] < Quota + 1 - (submitted[c] - done[c])
                   THEN Count - submitted[c] ELSE Quota + 1 - (submitted[c] - done[c])

(* Mutant: the quota counts what was submitted, finished or not.           *)
RoomForgetsDone(c) == IF submitted[c] >= Quota THEN 0
                      ELSE IF Count < Quota THEN Count - submitted[c] ELSE Quota - submitted[c]

(* How many tasks the submit loop queues now.                              *)
Room(c) == IF Count - submitted[c] < Quota - (submitted[c] - done[c])
           THEN Count - submitted[c]
           ELSE IF Quota > submitted[c] - done[c] THEN Quota - (submitted[c] - done[c]) ELSE 0

(* The submit loop, then PyEval_SaveThread.                                *)
Submit(c) ==
  /\ pc[c] = "submit" /\ gil = c
  /\ index[c] <= Count /\ ~stopped[c]
  /\ LET n == Room(c)
     IN  /\ queue' = queue \o [k \in 1..n |-> <<c, submitted[c] + k>>]
         /\ submitted' = [submitted EXCEPT ![c] = @ + n]
         /\ outstanding' = [outstanding EXCEPT ![c] = @ + n]
         /\ \E S \in SUBSET Workers :
              /\ Signalled(S, n)
              /\ pc' = [t \in Threads |-> IF t = c THEN "look"
                                          ELSE IF t \in S THEN "woken" ELSE pc[t]]
  /\ gil' = None
  /\ UNCHANGED <<held, started, done, stopped, interrupted, taskVars, loopVars, pending, hostVars>>

(* Mutant: the caller runs its task and leaves it queued.                  *)
ClaimLeavingQueued(c) ==
  /\ UNCHANGED queue
  /\ held' = [held EXCEPT ![c] = <<c, index[c]>>]
  /\ pc' = [pc EXCEPT ![c] = "claimed"]

Claim(c) ==
  /\ Unqueue({<<c, index[c]>>})
  /\ held' = [held EXCEPT ![c] = <<c, index[c]>>]
  /\ pc' = [pc EXCEPT ![c] = "claimed"]

(* `while (!claimed && !finished && !stopped)`: go on or wait.             *)
WaitOrGoOn(c) ==
  /\ pc' = [pc EXCEPT ![c] = IF finished[c][index[c]] \/ stopped[c] THEN "regain" ELSE "parked"]
  /\ UNCHANGED <<held, queue>>

(* First look: a saturated pool with nobody idle makes the caller take its *)
(* task straight away.                                                     *)
Look(c) ==
  /\ pc[c] = "look"
  /\ IF saturated[c] /\ Idle = {} /\ Queued(<<c, index[c]>>)
     THEN Claim(c) ELSE WaitOrGoOn(c)
  /\ UNCHANGED <<gil, started, batchVars, taskVars, loopVars, pending, hostVars>>

(* The wait returned because of a broadcast.                               *)
Recheck(c) ==
  /\ pc[c] = "woken"
  /\ WaitOrGoOn(c)
  /\ UNCHANGED <<gil, started, batchVars, taskVars, loopVars, pending, hostVars>>

(* The wait ran into VIS_PY_CALLER_RUNS_MS.  The lock may come back only   *)
(* after a broadcast, so the state it finds may be that of "woken".        *)
Timeout(c) ==
  /\ pc[c] \in {"parked", "woken"}
  /\ IF Queued(<<c, index[c]>>)
     THEN Claim(c) /\ saturated' = [saturated EXCEPT ![c] = TRUE]
     ELSE WaitOrGoOn(c) /\ UNCHANGED saturated
  /\ UNCHANGED <<gil, started, batchVars, taskVars, index, answer, pending, hostVars>>

(* PyEval_RestoreThread with the task settled by somebody else.            *)
Regain(c) ==
  /\ pc[c] = "regain" /\ gil = None
  /\ gil' = c
  /\ index' = [index EXCEPT ![c] = @ + 1]
  /\ pc' = [pc EXCEPT ![c] = "submit"]
  /\ UNCHANGED <<held, queue, started, batchVars, taskVars, saturated, answer, pending, hostVars>>

-----------------------------------------------------------------------------
(* The end of vis_py_par: unlink the batch, choose what to raise, clear    *)
(* the interrupt that is pending here too, free the batch.                 *)

First(S) == CHOOSE i \in S : \A j \in S : i <= j

Stops(c) == {i \in Positions : result[c][i] = "stop"}
Errors(c) == {i \in Positions : result[c][i] = "error"}

(* Mutant: an ordinary failure wins over the host's interrupt.             *)
ChosenErrorFirst(c) ==
  IF Stops(c) # {} THEN <<"raise", First(Stops(c))>>
  ELSE IF Errors(c) # {} THEN <<"raise", First(Errors(c))>>
  ELSE IF interrupted[c] THEN <<"interrupt">>
  ELSE <<"values">>

Chosen(c) ==
  IF Stops(c) # {} THEN <<"raise", First(Stops(c))>>
  ELSE IF interrupted[c] THEN <<"interrupt">>
  ELSE IF Errors(c) # {} THEN <<"raise", First(Errors(c))>>
  ELSE <<"values">>

(* Mutant: the interrupt raised by `par` stays pending in the thread.      *)
AnswerKeepingPending(c) ==
  /\ gil' = c
  /\ pc' = [pc EXCEPT ![c] = "block"]
  /\ answer' = [answer EXCEPT ![c] = Chosen(c)]
  /\ seen' = [seen EXCEPT ![c] = IF interrupted[c] THEN @ + 1 ELSE @]
  /\ submitted' = [submitted EXCEPT ![c] = 0]
  /\ done' = [done EXCEPT ![c] = 0]
  /\ outstanding' = [outstanding EXCEPT ![c] = 0]
  /\ stopped' = [stopped EXCEPT ![c] = FALSE]
  /\ interrupted' = [interrupted EXCEPT ![c] = FALSE]
  /\ finished' = [finished EXCEPT ![c] = [i \in Positions |-> FALSE]]
  /\ runner' = [runner EXCEPT ![c] = [i \in Positions |-> None]]
  /\ result' = [result EXCEPT ![c] = [i \in Positions |-> None]]
  /\ UNCHANGED <<held, queue, started, index, saturated, pending, running_thread, target, issued>>

Answer(c) ==
  /\ gil' = c
  /\ pc' = [pc EXCEPT ![c] = "block"]
  /\ answer' = [answer EXCEPT ![c] = Chosen(c)]
  /\ pending' = [pending EXCEPT ![c] = @ /\ ~interrupted[c]]
  /\ seen' = [seen EXCEPT ![c] = IF interrupted[c] THEN @ + 1 ELSE @]
  /\ submitted' = [submitted EXCEPT ![c] = 0]
  /\ done' = [done EXCEPT ![c] = 0]
  /\ outstanding' = [outstanding EXCEPT ![c] = 0]
  /\ stopped' = [stopped EXCEPT ![c] = FALSE]
  /\ interrupted' = [interrupted EXCEPT ![c] = FALSE]
  /\ finished' = [finished EXCEPT ![c] = [i \in Positions |-> FALSE]]
  /\ runner' = [runner EXCEPT ![c] = [i \in Positions |-> None]]
  /\ result' = [result EXCEPT ![c] = [i \in Positions |-> None]]
  /\ UNCHANGED <<held, queue, started, index, saturated, running_thread, target, issued>>

(* Mutant: a stopped `par` answers without waiting for what still runs.    *)
SettleAtOnce(c) ==
  /\ pc[c] = "submit" /\ gil = c
  /\ index[c] > Count \/ stopped[c]
  /\ Answer(c)

(* The loop is over: everything settled, so the call answers.              *)
Settle(c) ==
  /\ pc[c] = "submit" /\ gil = c
  /\ index[c] > Count \/ stopped[c]
  /\ outstanding[c] = 0
  /\ Answer(c)

(* An interrupt ended the loop early and something is still out: the GIL   *)
(* goes back.                                                              *)
LeaveLoop(c) ==
  /\ pc[c] = "submit" /\ gil = c
  /\ index[c] > Count \/ stopped[c]
  /\ outstanding[c] # 0
  /\ gil' = None
  /\ pc' = [pc EXCEPT ![c] = "drain"]
  /\ UNCHANGED <<held, queue, started, batchVars, taskVars, loopVars, pending, hostVars>>

(* What a stopped batch left queued is taken back unstarted; what still    *)
(* runs is waited for.                                                     *)
Drain(c) ==
  LET back == IF stopped[c]
              THEN {i \in 1..submitted[c] : ~finished[c][i] /\ Queued(<<c, i>>)}
              ELSE {}
  IN  /\ pc[c] = "drain"
      /\ Unqueue({c} \X back)
      /\ finished' = [finished EXCEPT ![c] = [i \in Positions |-> finished[c][i] \/ i \in back]]
      /\ done' = [done EXCEPT ![c] = @ + Cardinality(back)]
      /\ outstanding' = [outstanding EXCEPT ![c] = @ - Cardinality(back)]
      /\ pc' = [pc EXCEPT ![c] = IF outstanding[c] > Cardinality(back)
                                 THEN "drainParked" ELSE "drained"]
      /\ UNCHANGED <<gil, held, started, submitted, stopped, interrupted, runner, result, loopVars, pending, hostVars>>

DrainRecheck(c) ==
  /\ pc[c] = "drainWoken"
  /\ pc' = [pc EXCEPT ![c] = IF outstanding[c] > 0 THEN "drainParked" ELSE "drained"]
  /\ UNCHANGED <<gil, held, queue, started, batchVars, taskVars, loopVars, pending, hostVars>>

AnswerDrained(c) ==
  /\ pc[c] = "drained" /\ gil = None
  /\ Answer(c)

-----------------------------------------------------------------------------
(* vispython_interrupt.  The running thread is read before the GIL is      *)
(* taken; then the exception is left in that thread, every batch it owns   *)
(* is stopped and the threads running its thunks get the exception too.    *)

ReadTarget ==
  /\ target = None /\ running_thread # None
  /\ \A c \in Callers : issued[c] < MaxInterrupts
  /\ target' = running_thread
  /\ UNCHANGED <<gilVars, queue, started, batchVars, taskVars, loopVars, pending, running_thread, issued, seen>>

(* Mutant: the interrupt is raised in the waiting thread only.             *)
RunnersNone(c) == {}

(* The threads vis_py_interrupt_batches names, the owner aside.            *)
Runners(c) == {runner[c][i] : i \in Positions} \ {None, c}

RaiseInterrupt ==
  /\ target # None /\ gil = None
  /\ target' = None
  /\ pc' = Broadcast(pc)
  /\ IF pc[target] = "out"
     THEN UNCHANGED <<pending, stopped, interrupted, issued>>
     ELSE /\ pending' = [t \in Threads |-> pending[t] \/ t = target \/ t \in Runners(target)]
          /\ stopped' = [stopped EXCEPT ![target] = @ \/ Registered(target)]
          /\ interrupted' = [interrupted EXCEPT ![target] = @ \/ Registered(target)]
          /\ issued' = [issued EXCEPT ![target] = @ + 1]
  /\ UNCHANGED <<gil, held, queue, started, submitted, done, outstanding, taskVars, loopVars, running_thread, seen>>

-----------------------------------------------------------------------------
CallerStep(c) ==
  \/ BeginRun(c) \/ EndRun(c) \/ LandInBlock(c)
  \/ OpenBatch(c) \/ Submit(c) \/ Look(c) \/ Recheck(c) \/ Timeout(c) \/ Regain(c)
  \/ Settle(c) \/ LeaveLoop(c) \/ Drain(c) \/ DrainRecheck(c) \/ AnswerDrained(c)

WorkerStep(w) == WorkerWaits(w) \/ WorkerClaims(w)

ThreadStep(t) ==
  \/ DropGil(t) \/ TakeGil(t) \/ SwallowInThunk(t) \/ SpuriousWake(t)
  \/ StartTask(t) \/ SkipTask(t) \/ UnwindThunk(t)
  \/ \E res \in Results : EndThunk(t, res)

Next ==
  \/ \E c \in Callers : CallerStep(c)
  \/ \E w \in Workers : WorkerStep(w)
  \/ \E t \in Threads : ThreadStep(t)
  \/ ReadTarget \/ RaiseInterrupt

Spec == Init /\ [][Next]_vars

(* The operating system runs every thread that can run, CPython makes the  *)
(* GIL's holder drop it at its switch interval and every waiter gets it in *)
(* the end, a timed wait that nothing disturbs times out, an exception     *)
(* left in a thread that keeps getting the GIL is raised there, and the    *)
(* thunks of the callers in Ending end.  No block has to end or to gather  *)
(* and no interrupt has to come.                                           *)
Runs(t) ==
  \/ DropGil(t)
  \/ t \in Workers /\ WorkerStep(t)
  \/ t \in Callers /\ \/ Submit(t) \/ Look(t) \/ Recheck(t) \/ Settle(t) \/ LeaveLoop(t)
                      \/ Drain(t) \/ DrainRecheck(t)
                      \/ pc[t] = "parked" /\ Timeout(t)

GetsGil(t) ==
  \/ TakeGil(t) \/ StartTask(t) \/ SkipTask(t)
  \/ t \in Callers /\ (Regain(t) \/ AnswerDrained(t))

ThunkMoves(t) ==
  \/ UnwindThunk(t)
  \/ \E res \in Results : EndThunk(t, res) /\ held[t][1] \in Ending

Fairness == \A t \in Threads : WF_vars(Runs(t)) /\ SF_vars(GetsGil(t)) /\ SF_vars(ThunkMoves(t))

FairSpec == Spec /\ Fairness

-----------------------------------------------------------------------------
(* What the code promises.                                                 *)

TypeOK ==
  /\ gil \in Threads \cup {None}
  /\ pc \in [Threads -> CallerPcs \cup WorkerPcs]
  /\ \A c \in Callers : pc[c] \in CallerPcs
  /\ \A w \in Workers : pc[w] \in WorkerPcs
  /\ held \in [Threads -> Tasks \cup {None}]
  /\ queue \in Seq(Tasks)
  /\ started \in BOOLEAN
  /\ index \in [Callers -> Nat]
  /\ saturated \in [Callers -> BOOLEAN]
  /\ submitted \in [Callers -> Nat]
  /\ done \in [Callers -> Int]
  /\ outstanding \in [Callers -> Int]
  /\ stopped \in [Callers -> BOOLEAN]
  /\ interrupted \in [Callers -> BOOLEAN]
  /\ finished \in [Callers -> [Positions -> BOOLEAN]]
  /\ runner \in [Callers -> [Positions -> Threads \cup {None}]]
  /\ result \in [Callers -> [Positions -> Endings \cup {None}]]
  /\ answer \in [Callers -> {None, <<"values">>, <<"interrupt">>} \cup ({"raise"} \X Positions)]
  /\ pending \in [Threads -> BOOLEAN]
  /\ running_thread \in Callers \cup {None}
  /\ target \in Callers \cup {None}
  /\ issued \in [Callers -> Nat]
  /\ seen \in [Callers -> Nat]

(* Thread t has claimed a task of caller c's batch.                        *)
Holds(t, c) == held[t] # None /\ held[t][1] = c

(* "no thunk of this batch runs on once `par` answers, and the batch is    *)
(* the call's to free": outside a `par` no thread holds a task of that     *)
(* caller and none is queued, so nothing touches the freed batch.          *)
NoThunkOutlivesPar ==
  \A c \in Callers : ~Registered(c) =>
    /\ \A t \in Threads : ~Holds(t, c)
    /\ \A i \in Positions : ~Queued(<<c, i>>)

(* `quota`: the tasks of one `par` that are queued or running at once.     *)
(* The count of the code is the number of tasks submitted and unfinished.  *)
Live(c) == {i \in 1..submitted[c] : ~finished[c][i]}

QuotaKept ==
  \A c \in Callers : /\ outstanding[c] = Cardinality(Live(c))
                     /\ outstanding[c] <= Quota

(* A caller waits only for a task that somebody will settle: it was        *)
(* submitted, and it is finished, queued or claimed by a worker.  Waiting  *)
(* for one that was never submitted would be waiting for ever.             *)
WaitsForSomething ==
  \A c \in Callers : pc[c] \in {"look", "parked", "woken"} =>
    \/ finished[c][index[c]]
    \/ Queued(<<c, index[c]>>)
    \/ \E w \in Workers : held[w] = <<c, index[c]>>

(* A task is claimed once: by one worker, or by its caller, or still in    *)
(* the queue, never two of these.                                          *)
ClaimedOnce ==
  /\ \A s, t \in Threads : s # t /\ held[s] # None => held[s] # held[t]
  /\ \A t \in Threads : held[t] # None => ~Queued(held[t])
  /\ \A j, k \in 1..Len(queue) : j # k => queue[j] # queue[k]

(* The host's interrupt "is raised once": the block never meets more       *)
(* interrupts than the host raised in it, although one interrupt is left   *)
(* in the caller's thread, in its workers and in the batch.                *)
InterruptRaisedOnce == \A c \in Callers : seen[c] <= issued[c]

(* `par` answers values only when every thunk ran to a value, and raises a *)
(* thunk's failure only when every thunk that started has ended: the step  *)
(* out of `par` finds no task unfinished, none unrun unless the batch was  *)
(* stopped, and no NULL in the list it builds.                             *)
AnswerStep(c) ==
  Registered(c) /\ ~Registered(c)' =>
    /\ \A i \in 1..submitted[c] : finished[c][i]
    /\ answer'[c] = <<"values">> => \A i \in Positions : result[c][i] = "value"
    /\ stopped[c] \/ \A i \in Positions : result[c][i] # None
    /\ interrupted[c] => answer'[c] = <<"interrupt">> \/ result[c][answer'[c][2]] = "stop"

AnswersAreWhole == [][\A c \in Callers : AnswerStep(c)]_vars

(* "each thunk is either named here or finds its batch stopped and never   *)
(* starts": when the host's interrupt stops a batch, every thread then     *)
(* running one of its thunks has the exception, and from then on no        *)
(* thread starts another.                                                  *)
InterruptStep(c) ==
  /\ interrupted'[c] /\ ~interrupted[c] =>
       \A t \in Threads : pc[t] = "thunk" /\ Holds(t, c) => pending'[t]
  /\ interrupted[c] =>
       \A t \in Threads : pc'[t] = "thunk" /\ Holds(t, c) => pc[t] = "thunk"

InterruptReachesThunks == [][\A c \in Callers : InterruptStep(c)]_vars

-----------------------------------------------------------------------------
(* `par` implements the promise of Gather: the pool, the caller that runs  *)
(* tasks itself, the skipping of queued tasks and the drain are all hidden *)
(* behind "a thunk runs between its start and its end".                    *)
G == INSTANCE Gather WITH
       open <- {c \in Callers : Registered(c)},
       status <- [c \in Callers |-> [i \in Positions |->
                    IF runner[c][i] # None THEN "running"
                    ELSE IF result[c][i] # None THEN result[c][i] ELSE "waiting"]]

ImplementsGather == G!Spec

(* Every gather answers: no thunk is forgotten in the queue, no wake-up is *)
(* lost, callers and workers never wait for each other.                    *)
ParReturns == \A c \in Ending : Registered(c) ~> ~Registered(c)

(* The interrupt is the way out of a gather whose thunks never end: a      *)
(* `par` the host interrupted answers once the exceptions it raised in the *)
(* threads running its thunks have landed.                                 *)
InterruptEndsPar == \A c \in Callers : interrupted[c] ~> ~Registered(c)
=============================================================================
