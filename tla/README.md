# TLA+ models of vis-python-runtime

vis-python-runtime embeds CPython in a JVM. Java threads enter one shared
interpreter through a C library, guest code calls host tools back, gathers run
on a pool of C threads, and the host may interrupt any of it. This directory
models the parts of that machinery in which the order of events decides whether
the program is right, checks the models with TLC on small instances, and proves
the central safety properties with TLAPS for every instance.

Beside the interpreter stands a second native library, `visjail`, which runs
confined processes and the network bridge they reach their host through; its
Linux, macOS and Windows parts are modelled too.

Sources are named relative to the repository: `vispython.c` is
`native/vispython/vispython.c`, the native jails are in `native/visjail/`,
`Interpreter.java` and `JailedProcess.java` are in
`src/java/com/blockether/vispython/`, and the Python files are in
`resources/vis-python/`.

## 1. Inventory

| Component | State | Operations | Hard behaviour | What makes it right |
|---|---|---|---|---|
| **par pool** (`vispython.c` 340-595, 1509-1764, 2981-3056) | queue, batches, tasks, idle count, all under one lock; the GIL; async exceptions in thread states | `par`, worker loop, `vis_py_task_run`, interrupt | three kinds of threads, two locks, two conditions, a timed wait racing a worker's pop, an interrupt at any step, the batch freed by its caller | no thunk outlives its `par`; one claim per task; quota; nobody waits for a task nobody has; one interrupt is raised once; answers are whole; every gather answers |
| **par inline** (1468-1507) | none of its own | the thunks one after the other | the same answer as the pool | the promise of `Gather` |
| **run entry and interrupt** (1340-1386, 1407-1466, 2973-3224) | per-thread session stack, `vis_py_running_thread` | `eval`, `exec`, `run`, `run_block`, host call, interrupt | any thread enters; runs nest through host tools; the slot is shared | the slot names a running thread; a host call is attributed to its own session |
| **answers and host calls** (`vispython.c` 72-160, 1407-1466, 2500-2527; `Interpreter.java` 172-226, 645-699) | per-thread stash, per-thread `PENDING` | `invoke`, `take_result`, `hostUpcall` and its retry | nesting, a retry of what already ran, memory running out | each call gives its own text; no tool runs twice |
| **diagnostic ring** (194-267, 2473-2498, 2528-2564; `Interpreter.java` 466-532) | ring, head, count, dropped, level; the drainer | record, drain, `drainTo` | overwriting while drainers read; drainers replaced in the middle of a pass; sinks that throw | the log never lies by omission; everything is drained or reported |
| **thread cap** (284-340, 410-478, 568-594, 2436-2471) | cap, workers; thread states and idle workers are counted | `threads`, the audit hook's refusal, the start of the pool | the count is taken from two places that change apart | a thread is refused only when that many are alive |
| **scan budget** (300-338, 1053-1157, 3195-3224) | per-block counter, reference count, per-thread current budget | take, spend, release | shared with the workers of a gather; entry points nest | a listing spends its own block's budget; freed once, by the last holder |
| **confinement and trust** (610-1038, 1388-1405, 1798-2145, 2204-2434) | root lists and flags, policy lock, trusted sessions; the files themselves | `confine`, `network`, `trust`, the audit hook, `_vis_fs` read, write, copy, move, remove, mkdir | policy swapped while a hook compares; lock order with the GIL; calls that fail between two steps of a copy | a check answers for one policy; no deadlock; no file is lost |
| **stack diagnostics** (2566-2790) | private file, its identity, a lock | configure, close, dump | a guest may replace the descriptor; calls race | a dump is written to its own file and replaces the last |
| **worker process** (`Worker.java`, `Json.java`) | pending requests, one socket | request, pump, answer | a request registered while the reader fails | every request is answered or fails |
| **jailed processes** (`visjail.c`, `JailedProcess.java`, `Jail*.java`, `Bubblewrap.java`, `Seatbelt.java`) | child, its group, pipes or a terminal, exit future, stream flags | spawn, read, write, close, kill, reap | ready handshake, descriptors inherited by other children, closes and kills that race | every descriptor closed once; a killed process is gone with its group |
| **network bridge** (`network_bridge.c`) | two loops, a control socket, listeners, relays with two buffers and half-close flags | accept, pass, connect, relay, reap | four kinds of processes, blocking writes both ways, partial reads and writes, a payload that ends at any moment | bytes whole and in order; the end told last; no descriptor left behind; the payload's status answered |
| **windows jail** (`visjail_windows.c`, `windows_ui.c`) | workspaces, processes, streams, one table lock; the helper process | create, stage, seal, spawn, read, write, poll, wait, kill, close, destroy | calls block with the lock released while another destroys; a console that closes only while it is read; cleanup that fails | nothing used after it is freed; nothing left behind; exit codes kept; destroy returns |
| **guest runtime** (`vis_runtime.py`, `async_runtime.py`) | futures, locks, queues, timeouts, captured output, code cache | settle, wait in slices, capture, cache | settling twice, process-wide redirection | one settlement; a block's own output |
| **packages, sources, build** | files | extraction, lookup | sequential I/O | - |

The components meet in few places. Java calls down through `Interpreter.invoke`;
C calls up through `Interpreter.hostUpcall`. A block runs between
`vis_py_run_push` and `vis_py_run_pop`; a `par` inside it opens a batch owned by
that thread; the workers run its thunks under the same session name. The
interrupt reads `vis_py_running_thread`, which the run entry writes, and reaches
the workers through the batch. A worker takes its block's scan budget along with
the session name, and its thread state is what the thread cap counts. The audit
hook, which runs wherever Python runs, meets the policy the host swaps. Every
part records in the ring. The jails share nothing with the interpreter: Java
calls `visjail` for a process, its streams and its end, and on Linux the jailed
program reaches a proxy through the bridge.

## 2. Modules

| Module | Models | Actions |
|---|---|---|
| `ParPool` | the pool, `par`, the workers, the interrupt's part in them | one per section under the pool's lock, per wait for the GIL, per wake from a condition |
| `Gather` | what `par` promises, whoever runs the thunks | open, start, end, interrupt, close |
| `ParPoolInv` | the inductive invariant of `ParPool` | |
| `ParPoolProofs` | its theorems | |
| `RunEntry` | entry points, session stack, running thread, interrupt | enter, leave, drop and take the GIL, host call and return, landing of an exception, the two halves of the interrupt |
| `RunEntryProofs` | its theorems | |
| `Boundary` | texts across the boundary, both ways | invoke, answer (fits, waits, raises), fetch; host call, reply (fits, too long), throw, retry, no memory |
| `BoundaryProofs` | its theorems | |
| `LogRing` | the ring and its drainers | set level, begin record, record, drain, wake, accept, throw, replace, stop |
| `Budgets` | thread cap and scan budget | set the cap; ask for a thread, refuse, name the cap, admit; enter and leave blocks; a worker's life; spending |
| `LimitsProofs` | the theorems of `LogRing` and `Budgets`, the two limits that are independent of each other | |
| `Confine` | policies, paths, the audit hook | assemble, add own roots, swap, clear; begin, resolve, compare with writes, with reads |
| `TrustedFs` | trusted sessions and their file operations | one per C-library call that can fail |
| `Sandbox` | `Confine` and `TrustedFs` composed with initialisation and the stack dumps | initialise; configure, close and dump in their steps; a guest's replacement of a descriptor |
| `SandboxProofs` | the theorems of `Confine`, `TrustedFs` and `Sandbox` | |
| `Relay` | one direction of a relayed connection (operators) | |
| `Bridge` | both loops, the control socket, relays, peers and payload | poll, receive, connect, accept, send, leave; a relay's birth, turn and end; the peers |
| `BridgeProofs` | its theorems | |
| `Jail` | `visjail_spawn`, the child, `JailedProcess` | one per system call of the handshake; reap, aim, kill, close |
| `JailProofs` | its theorems | |
| `WinContext` | workspaces of the Windows jail and their helper | create, its failures, publish, stage, seal |
| `WinJail` | processes, streams, wait and destroy on top of `WinContext` | one per section under the table lock |
| `WinJailProofs` | the theorems of `WinContext` and `WinJail` | |
| `MC*` | the instances TLC checks | |

**ParPool.** A batch is named by its owner and a task is the pair of its owner
and its position. `pc` says where a thread stands: a caller in `submit` holds
the GIL and is at the head of the loop of `vis_py_par`; `look`, `parked` and
`woken` are the lock, the timed wait and the return from it; `regain` waits for
the GIL; `claimed` has a task and no GIL yet; `thunk` is Python; the `drain`
places are lines 1688-1705. A worker is `absent` until `vis_py_pool_start`,
and then in `fetch`, `parked`, `woken`, `claimed` or `thunk`. A worker in
`woken` still counts as idle, as in the code, where `idle--` runs only once the
lock is back. Two sections the code runs without giving up the GIL between them
are one step where only a holder of the GIL could see the difference:
`PyEval_SaveThread` and the submit loop, the record of a task and the release
of the worker's thread state, the unlinking and freeing of a batch. Condition
variables wake nobody, the right one or, spuriously, anyone. `seen` and
`issued` count interrupts and are history.

**RunEntry.** `frames` is the true nesting of the runs of a thread; `names` and
`depth` are what the code keeps of it; a host call holds on to a place in that
array, as the C code holds on to a pointer, and the property looks through the
place at the time of the retry. A thread's last run ending takes its thread
state along, and with it a pending exception: every run enters from a thread
other than the one that initialised the interpreter.

**Boundary.** A text is a number and has no length; whether it fits is a choice
of the environment, and so is whether `strdup` and `realloc` find memory. Numbers are reused once no call, stash or `PENDING` holds
them, so that a text met in the wrong place is always recognisable.

**LogRing.** A record is its number. `place` is where a reader of the drained
text believes itself to be, and `astray` that it met a record it did not expect.

**Budgets.** A thread "has the GIL" whenever nobody is inside the audit hook's
count, which is the only place where steps of others come in between: the hook
walks the thread states and then reads the idle count under the pool's lock, and
a worker needs no GIL to go idle or to take a task. The cap is read three times
without a lock, to see that there is one, to compare and for the message, and
`vispython_threads` may set it in between: `AskThread`, `Refuse` and `NameCap`
each read it, and `Refuse` may compare with either value, because C leaves open
whether an operand of `<` is read before or after the walk in the other.
`WorkerTarget` reads it twice too, where nothing else happens in between that
could tell the result from that of one read before or after. `calls` is the nesting of
entry points on a host thread, each with the budget it put aside. Calls and
gathers that do not matter to the budgets have no steps.

**Confine, TrustedFs, Sandbox.** A path is a sequence of components and `Real` is
what `realpath` answers; `Canonical`, `Under` and `RootsSet` do with components
what the code does with strings. A policy has a number, so that the lists a hook
compares with can be told from the ones in force. A hook has a step for each
hold of the lock and one in which `__fspath__` may give the GIL away. A file
operation has a step for each call of the C library that may fail, and what a
buffered stream still holds may be lost when it is closed. In `Sandbox` the
operation holds the GIL to its end, so no hook and no initialisation runs in
between, while a host's policy calls, which need no GIL, do.

**Relay, Bridge.** A byte is its position in its stream. A direction keeps the
buffer and an offset into it, as `struct direction` does. The two loops have the
same shape in the code (`run_inside`, `run_outside`) and are one set of actions
with the loop as a parameter. A descriptor is the connection it belongs to, and
`held` says which process has it: a relay starts with all its parent had. The
control socket of a loop is open as long as the loop or a relay that has not
closed its inherited descriptors lives, which is what a blocked `sendmsg`
depends on. An exit code is any of 0 to 255; a payload's 125 or 137 is the same
number as an answer of the bridge's own, so the properties go by who ended how
and not by the number.

**Jail.** `held` is the descriptors of the host and of each child; a fork copies
the host's, so a second spawn in progress is seen to leak its ends into the
first child until `close_from_three`. A signal goes to the group once the child
leads one, and to nobody before. The ends are made in pairs and in order, so what
a failure leaves is the pairs before it. `Pipe2` says whether a pipe and its
close-on-exec flags are one call, as on Linux; without it `CloexecFails` has
`make_pipe` close the pipe and leave its numbers set (`cut`), and `Cleanup` closes
them again.

**WinContext, WinJail.** A record (`Context`, `Process`, `Stream`) keeps the
fields the code tests and whether it is live, linked or freed. Steps are the
sections under the table lock; a blocked read, a wait, a drain and the closing
of a console are the places between them, and so is the end of a spawn: it
releases the lock, then closes the console of a launch that failed and unpins its
paths (`leaving`, `SpawnReturns`). The C library would let another thread destroy
the workspace meanwhile; `WindowsJail.spawn` and `close` are `synchronized`, which
`Monitor` stands for, and its mutant releases a workspace with a console open. A
native call that may fail is a `Fault`, and a behaviour has at most `MaxFaults` of
them.

Definitions named `Mutant` in a comment are deliberate mistakes in the
definition that follows; no specification uses them. Each property has one that
violates it.

## 3. Runs

| Run | Instance | Checks |
|---|---|---|
| `par_one` | 1 caller, 2 workers, 3 thunks, quota 2, any ending, interrupt, swallowed interrupts | all safety of the pool, `IndInv`, `ImplementsGather` |
| `par_interrupt` | 1 caller, 2 workers, 2 thunks that never end by themselves | `InterruptEndsPar` |
| `par_live` | 2 callers, 1 worker, quota 1 | `ParReturns`, and `ImplementsGather` where batches share queue and worker |
| `run_entry` | 2 threads, nesting 3, stack of depth 2 | `SlotNamesARun`, `UpcallsNameTheirRun` |
| `run_slot` | 2 threads, one run each | violates `ZeroMeansNothingRuns` |
| `log_ring` | 2 writers, 3 slots, 8 records, 2 drainers, a throwing sink | `GapsNameThemselves`, `RingHoldsTheRest`, `EverythingIsDrained` |
| `boundary` | 2 threads, 4 calls deep, 2 keys, memory may run out | `AnswersAreKept`, `ToolRunsOnce`, `PendingIsTheRetrys`, `NoForeignText` |
| `budgets` | 1 host thread with 3 nested calls, 2 workers, 2 guest threads, cap 3 or none, 2 entries | `RefusalIsHonest`, `BudgetIsTheBlocks` |
| `sandbox` | 2 host threads, 2 guest threads, 3 policies, 9 audit events, 4 paths on 2 devices, 2 stack files | `HookAnswersForOnePolicy`, `ConfineReturns`, `FilesSurvive`, `DumpsKeepToTheirFile` |
| `bridge` | one connection whose peers talk, or two each way, or three inbound ones; targets that answer on both sides; control sockets with room for one message; buffers of two bytes; exit codes 0 and 137 | `StreamsIntact`, `EndsAreHonest`, `RelayIsTheLastHolder`, `NotBothBlocked`, `StatusIsThePayloads`, `PayloadEndsBridge` |
| `jail` | a terminal and a piped process in one host without `pipe2`, 2 closing threads, 1 failing call | `DescriptorsExact`, `KilledIsGone` |
| `winjail` | six plans over 2 workspaces, 4 processes, 2 threads; 1 failing call | `ReleasedOwnsNothing`, `NothingForgotten`, `NothingUsedAfterFree`, `FirstWaitAnswers`, `DestroyReturns` |

Why the bounds are enough. Three thunks with quota two is the least instance in
which the submit loop has to come back for more, the caller can be saturated
with a task left, and one thunk runs while another is queued and a third not
submitted. Two callers with one worker is the least in which a batch waits
behind another's task and a caller runs its own. A stack of depth two with three
nested runs has runs with an entry and without one, and pops back into both. Three slots
and eight records wrap the ring twice. Two nested calls down and two up are the
least in which a call returns into one that has used the same stash and the same
`PENDING`. A cap of three with two workers and two guests is met both with and
without the pool. Two policies with reading and writing exchanged, and the lift,
are what a hook's flag, read without the lock, and the lists it compares with in
one hold could mix; the file plans have four
operations in a row over two devices, so a move falls back to its copy. A buffer
of two bytes and streams of two and one give short reads, partial writes and
full ones; two connections each way with room for one message in each control
socket is the least load with which both loops can want to write with both
sockets full. Three inbound ones are the least with which the inside loop forks a
relay and ends, and that relay still has the control socket open while its queue
is full and the outside loop writes the third. A build without `pipe2` has the
failures of one with it and those of `fcntl`. Two spawns at once are what a descriptor needs to leak. The
Windows plans take the interactions one by one, since their product is out of
reach: a console that is read, a console of one workspace while a process is
launched into the other, a console two threads use, a piped process, two
processes ended by one destroy, two creations of which the first may fail. A plan fixes which calls a behaviour makes, never
their order. What the bounds leave open, the proofs close for every invariant,
every action property and the refinement.

`MaxInterrupts`, `MaxNest`, `MaxTexts`, `MaxRecords`, `MaxThrows`, `MaxFaults`,
`MaxSent`, `MaxOut`, `MaxDepth`, `MaxLen` and `Plans` are bounds of the behaviour,
named in the guards; none of them stands for a limit of the code. `Count`,
`Quota`, `Depth`, `Slots`, `Fits`, `Entries`, `Default`, `Most`, `MaxRoots`,
`MaxPath`, `Buffer`, `QueueCap` and `PipeCap` are parameters of the code or of
the system under it.

Deadlock is not checked in `bridge`, `jail`, `winjail` and `sandbox`: all four
come to an end, when the payload has ended, every workspace is destroyed or the
plan is spent. That nobody is stuck before it is what their liveness properties
are for.

## 4. Fairness

`ParPool!FairSpec` assumes what the platform gives. `WF(Runs(t))`: the operating
system runs every thread that can run, and CPython makes the holder of the GIL
drop it at its switch interval. `SF(GetsGil(t))`: a thread that waits for the
GIL gets it in the end; this is strong fairness because the GIL is free again
and again and never steadily. `SF(ThunkMoves(t))`: an exception left in a thread
that keeps getting the GIL is raised there, and the thunks of the callers in
`Ending` end. Nothing says that a block ends, that a `par` is called or that an
interrupt comes. In `par_interrupt` no thunk ends by itself, so the interrupt is
the only way out; thunks that catch it (`Swallows`) are left out there, because
a thunk that swallows `KeyboardInterrupt` and spins on does keep `par` waiting.
A caller's timeout is fair only while it stays parked: each broadcast restarts
the 50 ms, and in the model as in the code it can be put off.

`LogRing!FairSpec` assumes the executor's thread runs, its delay ends and a sink
returns or throws. No writer has to write.

`Bridge!FairSpec` schedules the two loops, and a forked relay until it has closed
the descriptors that are not its own: `getppid`, `prctl` and `close_except` wait
for nobody. A running relay need not move, no peer has to send and the payload
need not end. Without fairness to forked relays `PayloadEndsBridge` fails: the
outside loop stays in `sendmsg` to an inside loop that has ended, because the
relay it forked has the other end open. `Jail!FairSpec` takes a spawn in
progress, a child on its way to its command, the reaper and a destroy in
progress to their next step; a command may run for ever. `WinJail!FairSpec`
schedules the kernel's part (a console closing once its output is read, a
cancelled call returning), the threads inside a call and a create or destroy in
progress. `Sandbox!FairSpec` lets a host's call, a hook and an operation on
files go on whenever they can, which the GIL's and the mutex's waiting justify
because each is held for a bounded number of steps there.

## 5. Proofs

All of them are safety, for every value of the constants that satisfies the
module's named assumption. The assumptions are what the code or the platform
gives: finite sets of threads, disjoint where their kinds differ (`ParAssumption`,
`RunAssumption`, `LogAssumption`, `BudgetsAssumption`, `JailAssumption`), at least two thunks, a quota, a depth and
a ring of at least one, enough texts to tell those in sight apart
(`BoundaryAssumption`), values that stand for "none" and are no thread, path or
process. `JailAssumption` says how the plans of `WinJail` are written: each
process has its workspace and either a console or two pipes. Nothing is assumed of a bound of the behaviour but that it is a number.

**ParPoolProofs.** `Invariance` shows that `IndInv` is inductive, one lemma per
action and group of conjuncts. The properties alone are not: that no thunk
outlives its `par` needs that the counter `outstanding` counts the tasks that
are queued or held (`LiveInv`, `CountInv`), which needs that a held task is held
by a thread between its claim and its record (`HoldInv`) and that nothing is
held twice (`ClaimedOnce`); that a waiting caller waits for something needs
where the loop stands (`LoopInv`); that the exception reaches every running
thunk needs that `task->runner` names exactly the threads in a thunk
(`RunnerInv`); that an interrupt is met once needs which of its copies are still
to come (`SeenInv`); what is answered needs why a batch is stopped (`StopInv`)
and that a new batch is blank (`BlankInv`). From `IndInv` follow `TypeCorrect`,
`ThunksEnd`, `QuotaHolds`, `NobodyWaitsInVain`, `TasksClaimedOnce`,
`RaisedOnce`, and the action properties `WholeAnswers` and
`InterruptMissesNone`.

`PoolImplementsGather` is the refinement: seen from the batches, the pool does
what `Gather` promises. The mapping shows a task of `Gather` as running while
its thunk runs, and as over once its record is made. Every step of the pool is
one of `Gather` or hidden: entering a thunk is a start, and within the quota
because the running thunks are among the live ones that `QuotaKept` bounds; the
record of a task that ran is an end; a task that is claimed of a stopped batch
and never runs is not seen at all; the caller's last step closes, with the
answer `Gather` chooses from the same endings, and after every thunk because
the caller leaves only when nothing of its batch is live.

**RunEntryProofs.** `RunInv` says how the code's session stack follows the true
nesting: the depth is the number of runs, the entries that exist name them, and
what a host call was told is the place of its own run. `SlotIsSound` and
`UpcallsAreTheirs` follow. That the stack may be shallower than the nesting is
why `UpcallsNameTheirRun` cannot be proved from the stack alone.

**BoundaryProofs.** A thread has one stash and one `PENDING` while its calls
nest, so what is shown is that no two calls of a stack use a slot at once.
`CallInv`: a call that waits for the stash (`FetchInv`) or for `PENDING`
(`GrowInv`) is the innermost one, the calls under it being in Python or in a
tool (`StackInv`); the slot holds its own text; and while memory lasts `PENDING`
is empty unless such a call is innermost. `GivenInv` carries what was answered.
From `BoundaryInvariant` follow `AnswersKept`, `ToolOnce`, `PendingForRetry` and
`NoForeign`.

**LimitsProofs.** For the ring, `RingInv` is `TypeOK` with the two properties: what the next
drain reads is what the ring holds, so that the reader is never astray follows
from `RingHoldsTheRest`. Places are computed modulo `Slots`; a place is never
more than one turn away, so two lemmas turn the modulus into a test.

For the cap, `ThreadInv`: what the hook has counted is at most
the thread states there are, because a state goes only with the GIL, which the
hook holds, while the steps without the GIL only add states; an idle worker has
no state, so nobody is counted twice (`CountedOnce`). A hook whose cap was not
moved still has the cap it began with, a number, to compare and to name.
`RefusalsAreHonest` follows: as many are alive as the cap compared with, whatever
it was, and as the one named, if the host left it alone. For the budgets, `BudgetInv`: each call of a thread was entered with
the budget of the thread's outermost block or, under it, with none (`Nested`);
the tasks a gather waits for are in its queue, on workers, or one on its caller
(`Tally`), so a gather that is done has no worker; a worker has a budget only
while it runs a task, that of the gather (`WorkInv`); no two threads have the
same budget (`Apart`); and the count of references is the cardinality of the
holders and gathers (`Accounted`). That the outermost block is the last
reference, so that `OneBudgetPerBlock` holds, needs all of it: every gather of
a budget stands above its block on the one stack that has it.

**SandboxProofs.** Three invariants over three sets of variables. `StackInv`:
the holder of the stack lock finds at the descriptor what it checked, unless the
guest replaced it, and a file holds samples of one dump. `FsInv`: what an
operation has still to put in place is in its buffer or at the path it comes
from, whichever call fails. `ConfineInv`: a thread that compares paths holds
the policy lock, so the lists it reads are in force, and every policy in force
since its hook began is among the ones it is judged by. From `SandboxInvariant`
follow `DumpsStayApart`, `FilesAreNotLost` and `OnePolicyAnswers`.

**BridgeProofs.** Four arguments that share the types only. `TurnInv`: when both
loops are in a turn, one of them has room in its queue or has yet to receive
from it, because a loop receives before it accepts; so not both can be blocked
in a write (`LoopsNotBothBlocked`). `PassInv` and `HeldInv`: a connection moves
along one path and is at one place of it, and a process has open what is at its
place (`LastHolder`). `EndInv`: a loop leaves with the status of what it waited
for, which does not change any more (`AnswerIsThePayloads`). `StreamInv`: a
direction that has read the end has an empty buffer and shut its output in the
same turn (`StreamsKept`, `EndsHonest`).

**JailProofs.** That no end is closed twice is known only from who may still
close it: `StageInv` says what the host has of a process at each stage of its
spawn, `StreamInv` that a stream is closed through its flag or by the one thread
that won it, and that it is open as long as that is to come; `OnceInv` that what
the host closed twice is in `cut`, which is empty with `pipe2`; `ChildInv` what a
command has. `DescriptorsAreExact` follows.

**WinJailProofs.** The properties hold of each other only together: `JailInv` has
six parts. `ContextInv` says what a workspace owns in each stage (`Own`): only a published one has a job, and one whose helper's handles are
closed has no helper left, whichever step of creation or cleanup failed.
`ProcInv` says what a record and the kernel agree on (`Record`): a root that is
gone has an exit code for ever after, a console is the record's or its closing
thread's or nobody's, and a record is freed only after its owner was answered
and it owns nothing; `FirstAnswer` follows. `StreamInv` counts (`Counted`): the
references of a stream are one for its place in the table, one for each thread
in a call and one more for each in the bulk half of a read, so a stream is
freed by the last of them. `TieInv` is what a destroy has got rid of in each of
its stages (`HostTied`), and that a process, a record in the table and a stream
still in use each keep their workspace open: that a thread inside a call
finds its stream and workspace alive (`NothingAfterFree`) needs the count and
the tie, and that a released workspace owns nothing (`WorkspaceReleased`) needs
the stages of the destroy before it. `LeaveInv` is what a spawn that has not
returned keeps: its workspace is published and no destroy of it begins, and only
such a spawn has a console that is nobody's. `TendInv` says who will release a
workspace that owns something (`NothingIsForgotten`): the creation that has the
lock, the next creation, or a destroy.

Each inductive invariant was an invariant of the runs' instances before it was
proved.

Only model-checked: the liveness properties (`ParReturns`, `InterruptEndsPar`,
`EverythingIsDrained`, `PayloadEndsBridge`, `KilledIsGone`, `DestroyReturns`,
`ConfineReturns`), which need fairness and `ENABLED`, out of the prover's reach.
Everything else a passing run checks is a theorem.

## 6. Findings

`run_slot`: the end of every run stores 0 in `vis_py_running_thread`
(`vispython.c` 3081, 3121), also while another host thread, or the run this one
is nested in, still runs. The interrupt then answers `"0"`, against "whatever the
HOST is running right now, and 0 between calls" (2973).

What else the models show, where the code and its comments differ or a property
has to leave something out; no run is about these.

- `vispython_interrupt` reads the slot before it takes the GIL (3043, 3047),
  against "read by `vispython_interrupt` with the GIL held" (2976); the run it
  looked at can have ended and the exception be left in the next run of the same
  thread. `RunEntry` has the two steps.
- The audit hook sees a cap, the host lifts it, and the hook compares its count
  with -1 (`vispython.c` 469): the thread is refused, with "the sandbox may run -1
  threads at once", against "-1 is NO cap" (286) and "A cap of -1 lifts it
  entirely" (2442). In `budgets` such a refusal is reached; `RefusalIsHonest` says
  that it takes a cap moved under the hook. Moved from one number to another, the
  message names one of them and the count was compared with one of them.
- The pool is started without a look at the thread cap (571), against "live
  threads the process may have at once, guest and pool alike" (284): the total
  can reach the cap and the pool's threads on top.
- A policy lifted while a hook runs can refuse a path that both policies allow:
  the flag was read of the old one and the lists are the new one's, empty, against
  "either the policy before a swap or the policy after it" (629-633). Each
  argument of a rename is compared in a hold of its own.
- `_vis_fs.copy` of a file onto itself empties it (1957): it is opened for writing
  before it is read.
- Between the check of the stack file's descriptor and the write the guest can
  replace it (2756, 2761); nothing in the process could exclude that.
- A relay whose parent ends before its first `getppid` (`network_bridge.c` 378)
  takes the new parent for its own and is not killed with the bridge; it runs
  until its peers end.
- Where there is no `pipe2`, `make_pipe` closes both ends of a pipe when it cannot
  set a flag (`visjail.c` 114) and leaves their numbers in the array; the error
  path closes them again (340-343). `DescriptorsExact` exempts exactly these ends.
- `visjail_wait` answers for a process it could get no handle of what it answers
  for an unknown one (`visjail_windows.c` 965, 975). The record is still there for
  another wait, but the reaper of `JailedProcess` waits once.
- `visjail_spawn` closes the console of a failed launch after it released the
  table lock (1364-1366); only the monitor of `WindowsJail` keeps a destroy of the
  workspace out until then.
- `destroy` looks at the exit future and then signals (`JailedProcess.java` 141):
  the reaper can have collected the process in between.

Two more the `Boundary` model shows, where memory runs out; the
properties say "as long as memory lasts" for them, and `NoForeignText` says what
is left. A failed `strdup` in `vis_py_stash` (97) turns a long answer into an
empty one without an error: the length is still returned, and the fetch finds
nothing. A failed `realloc` in `vis_py_host_call` (1441) leaves the reply in
`PENDING`, and the next equal call on that thread is given it without its tool
running.

## 7. Not modelled, and limits

- A `par` inside a thunk that the CALLER runs opens a second batch with the
  same owner; `ParPool` has one batch per caller. A `par` in a worker is run
  inline and changes nothing of the pool.
- Time: the 50 ms of the caller are an event that may come at any moment.
- Failures of `calloc` in `vis_py_par` leave before the batch exists and
  change nothing; they are not steps of the model.
- A thread ident, and a process id, is never used again for another one.
- A move of `_vis_fs` moves files; the rename of a directory is not a step.
- A second `vispython_initialize` after the scan guard failed.
- Access lists, integrity levels, desktops' security and the texts of the
  sandbox policies: what is decided there is data, not order.
- `vispython_windows.h` maps POSIX names onto Windows calls; the programs
  `windows_*_probe.c` and `*_guest.c` are tests.
- The wire format of `Worker.java`, and the Python of `async_runtime.py` and
  `vis_runtime.py`: the hazards known there are listed and have no property.
- Records have no text, and the mirror to stderr is left out.
- The components without a module in section 1.

## 8. Plan

Done: `ParPool`, `Gather`, `RunEntry`, `Boundary`, `LogRing`, `Budgets`,
`Confine`, `TrustedFs`, `Sandbox`, `Relay`, `Bridge`, `Jail`, `WinContext`,
`WinJail`; the proofs of every invariant, action property and refinement that
the runs check.

1. `ParInline`, a second implementation of `Gather`, and `ParNested`: the second
   batch of one owner.
2. `WorkerPeer` (`Worker.java`): request, pump and failure over one socket,
   implementing an abstract "every request is answered once or fails".
3. `FutureCell`, `SyncPrims`, `TimeoutScope` (`async_runtime.py`): settlement
   once, waits in slices, a timeout racing a result; `BlockCapture` and
   `CodeCache` (`vis_runtime.py`).
