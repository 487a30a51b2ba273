------------------------------ MODULE Budgets ------------------------------
(* What a sandbox may use (vispython.c): threads, counted against a cap    *)
(* when the guest starts one, and the directory entries of a block, one    *)
(* budget shared by reference with the workers of its gathers.  A step     *)
(* marked "no GIL" may happen while another thread is inside the audit     *)
(* hook; all others hold the GIL.                                          *)
EXTENDS Integers, Sequences, FiniteSetsExt

CONSTANTS
  Hosts,       \* host threads that enter the interpreter
  Workers,     \* pool threads the machine can give
  Guests,      \* threads the guest may start
  Caps,        \* caps the host may set; -1 lifts it
  Setting,     \* vis_py_worker_setting, 0 for the default
  Default,     \* VIS_PY_WORKERS
  Most,        \* VIS_PY_WORKERS_MAX
  Entries,     \* VIS_PY_SCAN_ENTRIES
  Budgets,     \* identities of budgets
  Width,       \* thunks of a gather
  MaxDepth,    \* calls nested on one host thread
  None

ASSUME BudgetsAssumption ==
  /\ Caps \subseteq Int \ {0} /\ Setting \in Nat /\ Default \in Nat \ {0} /\ Most \in Nat \ {0}
  /\ Entries \in Nat /\ Width \in Nat \ {0} /\ MaxDepth \in Nat /\ None \notin Budgets
  /\ None \notin [states : Nat, cap : Int, moved : BOOLEAN]
  /\ IsFiniteSet(Hosts) /\ IsFiniteSet(Workers) /\ IsFiniteSet(Guests)
  /\ Hosts \cap Workers = {} /\ Hosts \cap Guests = {} /\ Workers \cap Guests = {}

VARIABLES
  cap,       \* vis_py_thread_cap
  pool,      \* the workers started, {} before the first gather
  worker,    \* [Workers -> where it is]
  job,       \* [Workers -> <<owner, depth>> of the gather it works for]
  guests,    \* guest threads alive
  asking,    \* the hook asking for a thread: the states counted, the cap read,
             \* whether the host has moved the cap since; or None
  denied,    \* its refusal before it has a message: threads alive and the cap
             \* they were compared with; or None
  refused,   \* the last refusal raised, with the cap its message names; or None
  calls,     \* [Hosts -> the calls nested on it]
  current,   \* [Hosts \cup Workers -> vis_py_scan_current]
  before,    \* [Workers -> the current it restores after its task]
  budget     \* [Budgets -> [life, remaining, references, spent]]

hookVars == <<asking, denied, refused>>
threadVars == <<cap, pool, guests, hookVars>>
workVars == <<worker, job, before>>
scanVars == <<calls, current, budget>>
vars == <<threadVars, workVars, scanVars>>

NewBudget == [life |-> "free", remaining |-> 0, references |-> 0, spent |-> 0]

Init ==
  /\ cap \in Caps /\ pool = {} /\ worker = [w \in Workers |-> "none"] /\ job = [w \in Workers |-> None]
  /\ guests = {} /\ asking = None /\ denied = None /\ refused = None
  /\ calls = [h \in Hosts |-> <<>>] /\ current = [t \in Hosts \cup Workers |-> None]
  /\ before = [w \in Workers |-> None] /\ budget = [b \in Budgets |-> NewBudget]

HasGil == asking = None

-----------------------------------------------------------------------------
(* Threads.                                                                *)

WorkerTarget ==
  LET wanted == Min({IF Setting > 0 THEN Setting ELSE Default, Most})
      allowed == IF cap > 0 THEN Min({wanted, cap}) ELSE wanted
  IN Max({allowed, 1})

(* A thread inside the interpreter has a thread state: a host thread with  *)
(* a call, a guest thread, a worker from before it has the GIL until its   *)
(* task is recorded.                                                       *)
States == {h \in Hosts : calls[h] # <<>>} \cup guests \cup {w \in pool : worker[w] \in {"ready", "runs"}}
Idle == {w \in pool : worker[w] = "idle"}

(* Mutant: the workers are counted as if none of them ran a task. *)
CountedWithPool(states) == states + Cardinality(pool)

(* vis_py_live_threads: the states, then the idle workers by hand. *)
Counted(states) == states + Cardinality(Idle)

(* vispython_threads, from any host thread at any time (no GIL). *)
SetCap(c) ==
  /\ cap # c /\ cap' = c
  /\ asking' = IF asking = None THEN None ELSE [asking EXCEPT !.moved = TRUE]
  /\ UNCHANGED <<pool, guests, denied, refused, workVars, scanVars>>

(* The audit hook of a thread start.  It reads the cap without a lock three *)
(* times: to see that there is one, before it walks the thread states...   *)
AskThread ==
  /\ HasGil /\ States # {} /\ Guests # guests /\ cap >= 0
  /\ asking' = [states |-> Cardinality(States), cap |-> cap, moved |-> FALSE]
  /\ UNCHANGED <<cap, pool, guests, denied, refused, workVars, scanVars>>

(* ... to compare, once it has the idle count too: C leaves open whether   *)
(* this operand is read before the walk or after...                        *)
Refuse ==
  /\ asking # None /\ denied = None
  /\ \E bound \in {asking.cap, cap} :
       /\ Counted(asking.states) >= bound
       /\ denied' = [alive |-> Cardinality(States \cup pool), bound |-> bound]
  /\ UNCHANGED <<cap, pool, guests, asking, refused, workVars, scanVars>>

(* ... and to name it in the error it raises. *)
NameCap ==
  /\ denied # None
  /\ refused' = [alive |-> denied.alive, bound |-> denied.bound, named |-> cap, moved |-> asking.moved]
  /\ asking' = None /\ denied' = None
  /\ UNCHANGED <<cap, pool, guests, workVars, scanVars>>

Admit ==
  /\ asking # None /\ denied = None
  /\ \E bound \in {asking.cap, cap} : Counted(asking.states) < bound
  /\ \E g \in Guests \ guests : guests' = guests \cup {g}
  /\ asking' = None
  /\ UNCHANGED <<cap, pool, denied, refused, workVars, scanVars>>

(* Without a cap nothing is counted. *)
AdmitUncapped ==
  /\ HasGil /\ States # {} /\ cap < 0
  /\ \E g \in Guests \ guests : guests' = guests \cup {g}
  /\ UNCHANGED <<cap, pool, hookVars, workVars, scanVars>>

GuestEnds(g) ==
  /\ HasGil /\ g \in guests /\ guests' = guests \ {g}
  /\ UNCHANGED <<cap, pool, hookVars, workVars, scanVars>>

-----------------------------------------------------------------------------
(* Blocks, and the calls nested in them through the host.                  *)

Top(h) == calls[h][Len(calls[h])]
Push(h, call) == calls' = [calls EXCEPT ![h] = Append(@, call)]
Pop(h) == calls' = [calls EXCEPT ![h] = SubSeq(@, 1, Len(@) - 1)]
Running(h) == HasGil /\ calls[h] # <<>> /\ Top(h).kind # "par"
MayEnter(h) == HasGil /\ Len(calls[h]) < MaxDepth /\ (calls[h] = <<>> \/ Running(h))

(* vis_py_scan_release. *)
Release(f, b) ==
  IF b = None THEN f
  ELSE [f EXCEPT ![b].references = @ - 1, ![b].life = IF f[b].references = 1 THEN "freed" ELSE @]

(* vispython_run_block: the outermost block of a thread makes a budget. *)
EnterBlock(h) ==
  /\ MayEnter(h)
  /\ Push(h, [kind |-> "block", previous |-> current[h]])
  /\ IF current[h] # None THEN UNCHANGED <<current, budget>>
     ELSE \E b \in Budgets :
            /\ budget[b].life = "free"
            /\ budget' = [budget EXCEPT ![b] = [life |-> "live", remaining |-> Entries, references |-> 1, spent |-> 0]]
            /\ current' = [current EXCEPT ![h] = b]
  /\ UNCHANGED <<threadVars, workVars>>

LeaveBlock(h) ==
  /\ Running(h) /\ Top(h).kind = "block"
  /\ budget' = IF Top(h).previous = None THEN Release(budget, current[h]) ELSE budget
  /\ current' = [current EXCEPT ![h] = Top(h).previous] /\ Pop(h)
  /\ UNCHANGED <<threadVars, workVars>>

(* vispython_eval and vispython_exec have no budget of their own. *)
EnterEval(h) ==
  /\ MayEnter(h) /\ Push(h, [kind |-> "eval", previous |-> current[h]])
  /\ UNCHANGED <<threadVars, workVars, current, budget>>

LeaveEval(h) ==
  /\ Running(h) /\ Top(h).kind = "eval" /\ Pop(h)
  /\ UNCHANGED <<threadVars, workVars, current, budget>>

(* One directory entry for the thread: scandir's next and listdir. *)
MaySpend(b) == b = None \/ budget[b].remaining > 0
Spend(t) ==
  /\ HasGil /\ IF t \in Hosts THEN Running(t) ELSE worker[t] = "runs"
  /\ current[t] # None /\ MaySpend(current[t])
  /\ budget' = [budget EXCEPT ![current[t]].remaining = @ - 1, ![current[t]].spent = @ + 1]
  /\ UNCHANGED <<threadVars, workVars, calls, current>>

-----------------------------------------------------------------------------
(* Gathers: vis_py_par, its workers and the tasks its caller runs.         *)

(* vis_py_pool_start, then the batch with its reference. *)
OpenPar(h) ==
  /\ Running(h) /\ Len(calls[h]) < MaxDepth
  /\ Push(h, [kind |-> "par", scan |-> current[h], queued |-> Width, left |-> Width])
  /\ budget' = IF current[h] = None THEN budget ELSE [budget EXCEPT ![current[h]].references = @ + 1]
  /\ IF pool # {} THEN UNCHANGED <<pool, worker>>
     ELSE \E ws \in SUBSET Workers \ {{}} :
            /\ Cardinality(ws) <= WorkerTarget
            /\ pool' = ws /\ worker' = [w \in Workers |-> IF w \in ws THEN "awake" ELSE "none"]
  /\ UNCHANGED <<cap, guests, hookVars, job, before, current>>

ClosePar(h) ==
  /\ HasGil /\ calls[h] # <<>> /\ Top(h).kind = "par" /\ Top(h).left = 0
  /\ budget' = Release(budget, Top(h).scan) /\ Pop(h)
  /\ UNCHANGED <<threadVars, workVars, current>>

(* A worker goes idle, or takes a task off the queue (no GIL). *)
GoIdle(w) ==
  /\ worker[w] = "awake" /\ \A h \in Hosts : \A i \in DOMAIN calls[h] : calls[h][i].kind = "par" => calls[h][i].queued = 0
  /\ worker' = [worker EXCEPT ![w] = "idle"]
  /\ UNCHANGED <<threadVars, job, before, scanVars>>

TakeTask(w, h, i) ==
  /\ worker[w] \in {"awake", "idle"}
  /\ i \in DOMAIN calls[h] /\ calls[h][i].kind = "par" /\ calls[h][i].queued > 0
  /\ calls' = [calls EXCEPT ![h][i].queued = @ - 1]
  /\ worker' = [worker EXCEPT ![w] = "claims"] /\ job' = [job EXCEPT ![w] = <<h, i>>]
  /\ UNCHANGED <<threadVars, before, current, budget>>

(* PyGILState_Ensure makes the thread state before it waits (no GIL). *)
MakeState(w) ==
  /\ worker[w] = "claims" /\ worker' = [worker EXCEPT ![w] = "ready"]
  /\ UNCHANGED <<threadVars, job, before, scanVars>>

(* vis_py_task_run swaps the current budget for the batch's and back. *)
StartTask(w) ==
  /\ HasGil /\ worker[w] = "ready"
  /\ worker' = [worker EXCEPT ![w] = "runs"] /\ before' = [before EXCEPT ![w] = current[w]]
  /\ current' = [current EXCEPT ![w] = calls[job[w][1]][job[w][2]].scan]
  /\ UNCHANGED <<threadVars, job, calls, budget>>

(* Mutant: the worker keeps the budget of the block it worked for. *)
EndTaskKeeping(w) ==
  /\ HasGil /\ worker[w] = "runs"
  /\ worker' = [worker EXCEPT ![w] = "awake"] /\ job' = [job EXCEPT ![w] = None]
  /\ calls' = [calls EXCEPT ![job[w][1]][job[w][2]].left = @ - 1]
  /\ before' = [before EXCEPT ![w] = None]
  /\ UNCHANGED <<threadVars, current, budget>>

EndTask(w) ==
  /\ HasGil /\ worker[w] = "runs"
  /\ worker' = [worker EXCEPT ![w] = "awake"] /\ job' = [job EXCEPT ![w] = None]
  /\ calls' = [calls EXCEPT ![job[w][1]][job[w][2]].left = @ - 1]
  /\ current' = [current EXCEPT ![w] = before[w]] /\ before' = [before EXCEPT ![w] = None]
  /\ UNCHANGED <<threadVars, budget>>

(* A task no worker claimed runs on the caller, inside the gather. *)
CallerStarts(h) ==
  /\ HasGil /\ calls[h] # <<>> /\ Top(h).kind = "par" /\ Top(h).queued > 0 /\ Len(calls[h]) < MaxDepth
  /\ calls' = [calls EXCEPT ![h] = Append([calls[h] EXCEPT ![Len(calls[h])].queued = @ - 1],
                                          [kind |-> "task", previous |-> current[h]])]
  /\ current' = [current EXCEPT ![h] = Top(h).scan]
  /\ UNCHANGED <<threadVars, workVars, budget>>

CallerEnds(h) ==
  /\ Running(h) /\ Top(h).kind = "task"
  /\ calls' = [calls EXCEPT ![h] = LET s == SubSeq(calls[h], 1, Len(calls[h]) - 1) IN [s EXCEPT ![Len(s)].left = @ - 1]]
  /\ current' = [current EXCEPT ![h] = Top(h).previous]
  /\ UNCHANGED <<threadVars, workVars, budget>>

-----------------------------------------------------------------------------
Next ==
  \/ AskThread \/ Refuse \/ NameCap \/ Admit \/ AdmitUncapped
  \/ \E c \in Caps : SetCap(c)
  \/ \E g \in Guests : GuestEnds(g)
  \/ \E h \in Hosts :
       \/ EnterBlock(h) \/ LeaveBlock(h) \/ EnterEval(h) \/ LeaveEval(h)
       \/ OpenPar(h) \/ ClosePar(h) \/ CallerStarts(h) \/ CallerEnds(h)
  \/ \E t \in Hosts \cup Workers : Spend(t)
  \/ \E w \in Workers :
       \/ GoIdle(w) \/ MakeState(w) \/ StartTask(w) \/ EndTask(w)
       \/ \E h \in Hosts, i \in 1..MaxDepth : TakeTask(w, h, i)

Spec == Init /\ [][Next]_vars

-----------------------------------------------------------------------------
(* "the sandbox may run %d threads at once and they are all taken": when   *)
(* the hook refuses a thread, as many are alive as the cap it compared     *)
(* with, although the walk over the states and the idle count are not one  *)
(* moment and workers go idle, wake and make their states in between; and  *)
(* unless the host moved the cap under the hook, the number in the message *)
(* is a cap, and that many are alive: "-1 is NO cap" and "a cap of -1      *)
(* lifts it entirely" fail for a hook under which the cap is lifted, and   *)
(* for no other.                                                           *)
RefusalIsHonest ==
  refused # None => /\ refused.alive >= refused.bound
                    /\ refused.moved \/ (refused.named > 0 /\ refused.alive >= refused.named)

(* References to b: the outermost block that made it and the gathers open. *)
Holders(b) == {h \in Hosts : current[h] = b /\ \E i \in DOMAIN calls[h] : calls[h][i].kind = "block"}
Gathers(b) == {g \in Hosts \X (1..MaxDepth) : /\ g[2] \in DOMAIN calls[g[1]]
                                             /\ calls[g[1]][g[2]].kind = "par" /\ calls[g[1]][g[2]].scan = b}
References(b) == Cardinality(Holders(b)) + Cardinality(Gathers(b))

(* "A block owns one entry budget, shared with its native gather workers": *)
(* however blocks, gathers and workers interleave, a budget is freed when  *)
(* its block and its last gather are done and not before, no thread is     *)
(* left with one that was freed, and a block and its workers together      *)
(* visit the entries it was given and no more.                             *)
BudgetIsTheBlocks ==
  /\ \A t \in Hosts \cup Workers : current[t] # None => budget[current[t]].life = "live"
  /\ \A b \in Budgets : /\ budget[b].life = "live" <=> References(b) > 0
                        /\ budget[b].references = References(b)
                        /\ budget[b].life # "free" => budget[b].spent + budget[b].remaining = Entries
                        /\ budget[b].remaining >= 0
=============================================================================
