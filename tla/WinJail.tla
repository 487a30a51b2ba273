------------------------------ MODULE WinJail ------------------------------
(* The processes and streams of the Windows jail (visjail_windows.c) and   *)
(* the end of a workspace.  Threads of the host read, write, poll and wait *)
(* while others spawn into a workspace, close a stream or destroy it.  A   *)
(* section under the table lock is one step; what happens with the lock    *)
(* released (a blocked read, a wait, the draining of a console) is not.    *)
EXTENDS WinContext

CONSTANTS
  Procs,      \* processes the host may spawn
  Home,       \* [Procs -> Contexts]
  Ends,       \* [Procs -> its streams]: {"pty"}, or "in" and "out" (an error
              \*   stream of its own is one more output)
  Threads,    \* host threads that use streams
  MaxOut,     \* [Procs -> bytes it writes]
  PipeCap     \* bytes a pipe holds

Streams == {s \in Procs \X {"pty", "in", "out"} : s[2] \in Ends[s[1]]}
Consoles == {p \in Procs : "pty" \in Ends[p]}
Readable(s) == s[2] # "in"
Writable(s) == s[2] \in {"pty", "in"}

ASSUME JailAssumption ==
  /\ IsFiniteSet(Threads) /\ None \notin {"own", "killed", "one", "error"}
  /\ Home \in [Procs -> Contexts] /\ MaxOut \in [Procs -> Nat] /\ PipeCap \in Nat \ {0}
  /\ \A q \in Plans : q.spawns \subseteq Procs /\ q.threads \subseteq Threads
  /\ Ends \in [Procs -> {{"pty"}, {"in", "out"}}]

VARIABLES
  rec,      \* [Procs -> Process], the record in the table
  active,   \* [Procs -> the members of its job: "root", "child"]
  status,   \* [Procs -> the exit code the kernel has for the root, or None]
  console,  \* [Procs -> its pseudo console: none, open, closing, closed, or
            \*   orphan: of a spawn that failed and has not returned]
  left,     \* [Procs -> bytes not written yet]
  pipe,     \* [Procs -> bytes written and not read]
  str,      \* [Streams -> Stream]
  reader,   \* [Streams -> the thread that holds its reader lock, or None]
  thr,      \* [Threads -> where it is]
  waiter,   \* [Procs -> where its visjail_wait is]
  told,     \* [Procs -> what the first wait that found it answered, or None]
  leaving,  \* spawns that gave the lock back and have not returned
  host,     \* [Contexts -> where its destroy is]
  hand      \* [Contexts -> the record its destroy drains, or None]

procVars == <<rec, active, status, console, left, pipe>>
streamVars == <<str, reader, thr>>
callVars == <<waiter, told, leaving>>
hostVars == <<host, hand>>
vars == <<contextVars, procVars, streamVars, callVars, hostVars>>

NewProcess == [life |-> "none", home |-> None, reaped |-> FALSE, waited |-> FALSE, cleaning |-> FALSE,
               handles |-> FALSE, console |-> FALSE, closer |-> FALSE, output |-> FALSE, code |-> None]
NewStream == [life |-> "none", linked |-> FALSE, refs |-> 0, cancel |-> FALSE,
              pending |-> FALSE, cached |-> FALSE, eof |-> FALSE]
IdleThread == [pc |-> "idle", s |-> None, op |-> None]

Init ==
  /\ ContextInit
  /\ rec = [p \in Procs |-> NewProcess] /\ active = [p \in Procs |-> {}]
  /\ status = [p \in Procs |-> None] /\ console = [p \in Procs |-> "none"]
  /\ left = MaxOut /\ pipe = [p \in Procs |-> 0]
  /\ str = [s \in Streams |-> NewStream] /\ reader = [s \in Streams |-> None]
  /\ thr = [t \in Threads |-> IdleThread]
  /\ waiter = [p \in Procs |-> "idle"] /\ told = [p \in Procs |-> None] /\ leaving = {}
  /\ host = [x \in Contexts |-> "idle"] /\ hand = [x \in Contexts |-> None]

-----------------------------------------------------------------------------
(* The kernel: guests, pipes and pseudo consoles.                          *)

(* Someone still has the read end of the output of p. *)
ReadOpen(p) == rec[p].output \/ \E s \in Streams : s[1] = p /\ Readable(s) /\ str[s].life = "live"

(* The write end of a pipe closes with the last guest, that of a console   *)
(* with the console.                                                       *)
AtEnd(p) == IF p \in Consoles THEN console[p] = "closed" ELSE active[p] = {}

Exits(p) ==
  /\ "root" \in active[p]
  /\ active' = [active EXCEPT ![p] = @ \ {"root"}] /\ status' = [status EXCEPT ![p] = "own"]
  /\ UNCHANGED <<contextVars, rec, console, left, pipe, streamVars, callVars, hostVars>>

ChildExits(p) ==
  /\ "child" \in active[p]
  /\ active' = [active EXCEPT ![p] = @ \ {"child"}]
  /\ UNCHANGED <<contextVars, rec, status, console, left, pipe, streamVars, callVars, hostVars>>

(* A byte is written: by a guest, or by the console that is being closed. *)
Emit(p) ==
  /\ left[p] > 0 /\ pipe[p] < PipeCap /\ ReadOpen(p)
  /\ active[p] # {} \/ console[p] = "closing"
  /\ left' = [left EXCEPT ![p] = @ - 1] /\ pipe' = [pipe EXCEPT ![p] = @ + 1]
  /\ UNCHANGED <<contextVars, rec, active, status, console, streamVars, callVars, hostVars>>

(* ClosePseudoConsole returns once the output is written or nobody reads. *)
ConsoleCloses(p) ==
  /\ console[p] = "closing"
  /\ left[p] = 0 \/ ~ReadOpen(p)
  /\ console' = [console EXCEPT ![p] = "closed"]
  /\ UNCHANGED <<contextVars, rec, active, status, left, pipe, streamVars, callVars, hostVars>>

(* TerminateJobObject on the jobs of ps. *)
Terminate(ps) ==
  /\ active' = [p \in Procs |-> IF p \in ps THEN {} ELSE active[p]]
  /\ status' = [p \in Procs |-> IF p \in ps /\ "root" \in active[p] THEN "killed" ELSE status[p]]

(* The thread that runs close_console. *)
CloserStarts(p) == console' = [console EXCEPT ![p] = "closing"]
CloserDone(p) == rec[p].closer => console[p] = "closed"

-----------------------------------------------------------------------------
(* visjail_spawn.                                                          *)

(* Mutant: a record is reclaimed although its exit code was not asked for. *)
ReclaimableUnasked(p) ==
  /\ rec[p].life = "live" /\ rec[p].reaped /\ ~rec[p].cleaning
  /\ ~rec[p].output /\ ~rec[p].console /\ CloserDone(p)

Reclaimable(p) ==
  /\ rec[p].life = "live" /\ rec[p].reaped /\ rec[p].waited /\ ~rec[p].cleaning
  /\ ~rec[p].output /\ ~rec[p].console /\ CloserDone(p)

Reclaimed == [p \in Procs |-> IF Reclaimable(p) THEN [rec[p] EXCEPT !.life = "freed", !.closer = FALSE]
                             ELSE rec[p]]

(* Mutant: close does not wait for a spawn that has not returned. *)
NoMonitor(x) == x \in Contexts

(* spawn and close of WindowsJail hold its monitor until they return. *)
Monitor(x) == \A p \in leaving : Home[p] # x

MaySpawn(x) == lock = None /\ Monitor(x) /\ ctx[x].linked /\ ctx[x].sealed /\ ~ctx[x].poisoned

(* The process starts suspended, joins both jobs and gets its streams      *)
(* before it runs and its record is published.  The lock is released then, *)
(* with the paths of the launch still pinned.                              *)
Spawn(p) ==
  /\ MaySpawn(Home[p]) /\ rec[p].life = "none" /\ p \in plan.spawns
  /\ rec' = [Reclaimed EXCEPT ![p] = [NewProcess EXCEPT !.life = "live", !.home = Home[p], !.handles = TRUE,
                                                         !.console = p \in Consoles]]
  /\ active' = [active EXCEPT ![p] = {"root", "child"}]
  /\ console' = [console EXCEPT ![p] = IF p \in Consoles THEN "open" ELSE @]
  /\ str' = [s \in Streams |-> IF s[1] = p THEN [NewStream EXCEPT !.life = "live", !.linked = TRUE, !.refs = 1]
                               ELSE str[s]]
  /\ leaving' = leaving \cup {p}
  /\ UNCHANGED <<contextVars, status, left, pipe, reader, thr, waiter, told, hostVars>>

(* A call failed, before or after old records were reclaimed: a suspended  *)
(* process is terminated, its streams close and its record is dropped, but *)
(* a console that was made is closed only after the lock.                  *)
SpawnFails(p) ==
  /\ MaySpawn(Home[p]) /\ rec[p].life = "none" /\ p \in plan.spawns /\ Fault
  /\ \/ UNCHANGED <<rec, console>>
     \/ /\ rec' = Reclaimed
        /\ UNCHANGED console \/ (p \in Consoles /\ console' = [console EXCEPT ![p] = "orphan"])
  /\ leaving' = leaving \cup {p}
  /\ UNCHANGED <<plan, ctx, helper, failed, lock, active, status, left, pipe, streamVars, waiter, told, hostVars>>

(* What is left to do with the lock released: the console of a failed      *)
(* spawn is closed, the pins go, and the host has the answer.              *)
SpawnReturns(p) ==
  /\ p \in leaving /\ leaving' = leaving \ {p}
  /\ console' = [console EXCEPT ![p] = IF @ = "orphan" THEN "none" ELSE @]
  /\ UNCHANGED <<contextVars, rec, active, status, left, pipe, streamVars, waiter, told, hostVars>>

(* The host has the numbers of p and of its streams. *)
Given(p) == p \notin leaving

(* visjail_kill; a reaped record has no job left to terminate. *)
Kill(p) ==
  /\ lock = None /\ Given(p) /\ rec[p].life = "live" /\ rec[p].handles
  /\ Terminate({p})
  /\ UNCHANGED <<contextVars, rec, console, left, pipe, streamVars, callVars, hostVars>>

-----------------------------------------------------------------------------
(* Streams: references, disposal and close.                                *)

(* Dropping a reference to each of ss: at the last one stream_dispose      *)
(* cancels the lookahead and closes the handles, except that a console     *)
(* still open or closing keeps its read end in the process record.         *)
Last(ss) == {s \in ss : str[s].refs = 1}
Hands(s) == /\ s[2] = "pty" /\ rec[s[1]].life = "live" /\ ~str[s].eof
            /\ rec[s[1]].console \/ (rec[s[1]].closer /\ console[s[1]] # "closed")
Dropped(ss) ==
  [s \in Streams |->
     IF s \in Last(ss) THEN [str[s] EXCEPT !.refs = 0, !.life = "freed", !.pending = FALSE]
     ELSE IF s \in ss THEN [str[s] EXCEPT !.refs = @ - 1] ELSE str[s]]
HandedOver(ss) == [p \in Procs |-> IF \E s \in Last(ss) : s[1] = p /\ Hands(s)
                                   THEN [rec[p] EXCEPT !.output = TRUE] ELSE rec[p]]

(* Mutant: closing forgets the event that wakes the threads that wait. *)
ClosedQuietly(ss, f) == [s \in Streams |-> IF s \in ss THEN [f[s] EXCEPT !.linked = FALSE] ELSE f[s]]

(* stream_close_locked: unlinked, and every thread on it woken. *)
Closed(ss, f) == [s \in Streams |-> IF s \in ss THEN [f[s] EXCEPT !.linked = FALSE, !.cancel = TRUE] ELSE f[s]]

(* visjail_close. *)
Close(s) ==
  /\ lock = None /\ Given(s[1]) /\ str[s].linked
  /\ str' = Closed({s}, Dropped({s})) /\ rec' = HandedOver({s})
  /\ UNCHANGED <<contextVars, active, status, console, left, pipe, reader, thr, callVars, hostVars>>

-----------------------------------------------------------------------------
(* A thread in visjail_read, visjail_poll or visjail_write.                *)

At(t, pc) == thr[t].pc = pc
Goto(t, pc) == thr' = [thr EXCEPT ![t].pc = pc]

(* Mutant: the thread does not count as a reference to the stream. *)
EnterUncounted(t, s, op) ==
  /\ lock = None /\ At(t, "idle") /\ t \in plan.threads /\ Given(s[1]) /\ str[s].linked
  /\ IF op = "write" THEN Writable(s) ELSE Readable(s)
  /\ thr' = [thr EXCEPT ![t] = [pc |-> IF op = "write" THEN "write" ELSE "lock", s |-> s, op |-> op]]
  /\ UNCHANGED <<contextVars, procVars, str, reader, callVars, hostVars>>

(* stream_get. *)
Enter(t, s, op) ==
  /\ lock = None /\ At(t, "idle") /\ t \in plan.threads /\ Given(s[1]) /\ str[s].linked
  /\ IF op = "write" THEN Writable(s) ELSE Readable(s)
  /\ str' = [str EXCEPT ![s].refs = @ + 1]
  /\ thr' = [thr EXCEPT ![t] = [pc |-> IF op = "write" THEN "write" ELSE "lock", s |-> s, op |-> op]]
  /\ UNCHANGED <<contextVars, procVars, reader, callVars, hostVars>>

TakeReader(t) ==
  /\ At(t, "lock") /\ reader[thr[t].s] = None
  /\ reader' = [reader EXCEPT ![thr[t].s] = t] /\ Goto(t, "ready")
  /\ UNCHANGED <<contextVars, procVars, str, callVars, hostVars>>

(* read_ready, up to its wait: one byte of lookahead stays submitted until *)
(* it completes, whoever waits for it.                                     *)
Submit(t) ==
  LET s == thr[t].s IN
  /\ At(t, "ready")
  /\ IF str[s].cancel THEN Goto(t, "leave") /\ UNCHANGED str
     ELSE IF str[s].cached \/ str[s].eof THEN Goto(t, "got") /\ UNCHANGED str
     ELSE Goto(t, "peek") /\ str' = [str EXCEPT ![s].pending = TRUE]
  /\ UNCHANGED <<contextVars, procVars, reader, callVars, hostVars>>

PeekCompletes(t) ==
  LET s == thr[t].s  p == s[1] IN
  /\ At(t, "peek") /\ ~str[s].cancel
  /\ pipe[p] > 0 \/ AtEnd(p)
  /\ str' = [str EXCEPT ![s].pending = FALSE, ![s].cached = pipe[p] > 0, ![s].eof = pipe[p] = 0]
  /\ pipe' = [pipe EXCEPT ![p] = IF @ > 0 THEN @ - 1 ELSE 0]
  /\ Goto(t, "got")
  /\ UNCHANGED <<contextVars, rec, active, status, console, left, reader, callVars, hostVars>>

(* The wait ends for the close of the stream, or the timeout of a poll. *)
PeekEnds(t) ==
  /\ At(t, "peek")
  /\ str[thr[t].s].cancel \/ thr[t].op = "poll"
  /\ Goto(t, "leave")
  /\ UNCHANGED <<contextVars, procVars, str, reader, callVars, hostVars>>

(* A read takes the byte, and the bytes behind it when there are some. *)
TakeByte(t) ==
  LET s == thr[t].s  took == thr[t].op = "read" /\ str[s].cached IN
  /\ At(t, "got")
  /\ str' = [str EXCEPT ![s].cached = @ /\ ~took]
  /\ Goto(t, IF took /\ pipe[s[1]] > 0 THEN "more" ELSE "leave")
  /\ UNCHANGED <<contextVars, procVars, reader, callVars, hostVars>>

(* The nested stream_io looks the stream up again, on a second reference. *)
EnterMore(t) ==
  LET s == thr[t].s IN
  /\ lock = None /\ At(t, "more")
  /\ IF str[s].linked THEN str' = [str EXCEPT ![s].refs = @ + 1] /\ Goto(t, "bulk")
                      ELSE UNCHANGED str /\ Goto(t, "leave")
  /\ UNCHANGED <<contextVars, procVars, reader, callVars, hostVars>>

TakeMore(t) ==
  LET s == thr[t].s IN
  /\ lock = None /\ At(t, "bulk")
  /\ pipe' = [pipe EXCEPT ![s[1]] = IF str[s].cancel THEN @ ELSE 0]
  /\ str' = Dropped({s}) /\ rec' = HandedOver({s}) /\ Goto(t, "leave")
  /\ UNCHANGED <<contextVars, active, status, console, left, reader, callVars, hostVars>>

(* A write waits for the guest, or for the close of the stream. *)
WriteCancelled(t) ==
  /\ At(t, "write") /\ str[thr[t].s].cancel /\ Goto(t, "leave")
  /\ UNCHANGED <<contextVars, procVars, str, reader, callVars, hostVars>>

Written(t) ==
  /\ At(t, "write") /\ Goto(t, "leave")
  /\ UNCHANGED <<contextVars, procVars, str, reader, callVars, hostVars>>

(* The reader lock is released and stream_release drops the reference. *)
Leave(t) ==
  LET s == thr[t].s IN
  /\ lock = None /\ At(t, "leave")
  /\ str' = Dropped({s}) /\ rec' = HandedOver({s})
  /\ reader' = [reader EXCEPT ![s] = IF @ = t THEN None ELSE @]
  /\ thr' = [thr EXCEPT ![t] = IdleThread]
  /\ UNCHANGED <<contextVars, active, status, console, left, pipe, callVars, hostVars>>

-----------------------------------------------------------------------------
(* visjail_wait: the process is waited for on a handle of its own, with    *)
(* the lock released.                                                      *)

(* An unknown process and a process no handle can be had of get one answer. *)
Unfound == {None, "invalid"}
Tell(p, answer) == told' = [told EXCEPT ![p] = IF @ \in Unfound THEN answer ELSE @]

WaitEnter(p) ==
  /\ lock = None /\ Given(p) /\ waiter[p] = "idle" /\ rec[p].life # "none"
  /\ IF rec[p].life = "freed" THEN Tell(p, "invalid") /\ UNCHANGED <<rec, waiter>>
     ELSE IF rec[p].reaped
     THEN Tell(p, rec[p].code) /\ rec' = [rec EXCEPT ![p].waited = TRUE] /\ UNCHANGED waiter
     ELSE waiter' = [waiter EXCEPT ![p] = "wait"] /\ UNCHANGED <<rec, told>>
  /\ UNCHANGED <<contextVars, active, status, console, left, pipe, streamVars, leaving, hostVars>>

(* No handle of its own could be had. *)
WaitRefused(p) ==
  /\ lock = None /\ Given(p) /\ waiter[p] = "idle" /\ rec[p].life = "live" /\ ~rec[p].reaped /\ Fault
  /\ Tell(p, "invalid")
  /\ UNCHANGED <<plan, ctx, helper, failed, lock, procVars, streamVars, waiter, leaving, hostVars>>

(* With nohang the process still runs. *)
WaitNoHang(p) ==
  /\ waiter[p] = "wait" /\ status[p] = None
  /\ waiter' = [waiter EXCEPT ![p] = "idle"]
  /\ UNCHANGED <<contextVars, procVars, streamVars, told, leaving, hostVars>>

(* The wait itself fails, or the exit code cannot be had. *)
WaitBreaks(p) ==
  /\ waiter[p] = "wait" /\ Fault
  /\ waiter' = [waiter EXCEPT ![p] = "idle"] /\ Tell(p, "error")
  /\ UNCHANGED <<plan, ctx, helper, failed, lock, procVars, streamVars, leaving, hostVars>>

(* The process ended; destroy may have consumed the record meanwhile. *)
WaitEnds(p) ==
  /\ lock = None /\ waiter[p] = "wait" /\ status[p] # None
  /\ waiter' = [waiter EXCEPT ![p] = "idle"] /\ Tell(p, status[p])
  /\ IF rec[p].life = "live" /\ ~rec[p].reaped
     THEN LET closes == /\ rec[p].console
                        /\ \E x \in Contexts : x = rec[p].home /\ ctx[x].linked /\ ~ctx[x].poisoned
          IN /\ Terminate({p})
             /\ rec' = [rec EXCEPT ![p].reaped = TRUE, ![p].waited = TRUE, ![p].code = status[p],
                                    ![p].handles = FALSE, ![p].closer = closes, ![p].console = @ /\ ~closes]
             /\ IF closes THEN CloserStarts(p) ELSE UNCHANGED console
     ELSE /\ rec' = [rec EXCEPT ![p].waited = (@ \/ rec[p].life = "live")]
          /\ UNCHANGED <<active, status, console>>
  /\ UNCHANGED <<contextVars, left, pipe, streamVars, leaving, hostVars>>

(* The job does not finish, or no thread can be had for the console: the   *)
(* answer is an error although the process has ended.                      *)
WaitFails(p) ==
  /\ lock = None /\ waiter[p] = "wait" /\ status[p] # None /\ Fault
  /\ rec[p].life = "live" /\ ~rec[p].reaped
  /\ waiter' = [waiter EXCEPT ![p] = "idle"] /\ Tell(p, "error")
  /\ \/ rec' = [rec EXCEPT ![p].waited = TRUE] /\ UNCHANGED <<active, status>>
     \/ /\ rec[p].console /\ Terminate({p})
        /\ rec' = [rec EXCEPT ![p].reaped = TRUE, ![p].waited = TRUE, ![p].code = status[p], ![p].handles = FALSE]
  /\ UNCHANGED <<plan, ctx, helper, failed, lock, console, left, pipe, streamVars, leaving, hostVars>>

-----------------------------------------------------------------------------
(* visjail_windows_destroy.                                                *)

Mine(x) == {p \in Procs : rec[p].life = "live" /\ rec[p].home = x}
LiveStreams(x) == {s \in Streams : Home[s[1]] = x /\ str[s].life = "live"}

(* A failure relinks the workspace, poisoned. *)
Retry(x) ==
  /\ Fault /\ lock' = None
  /\ host' = [host EXCEPT ![x] = "idle"] /\ hand' = [hand EXCEPT ![x] = None]

(* Poisoned, its job finished, unlinked, its streams closed. *)
Destroy(x) ==
  LET open == {s \in LiveStreams(x) : str[s].linked} IN
  /\ lock = None /\ Monitor(x) /\ ctx[x].linked
  /\ ctx' = [ctx EXCEPT ![x].poisoned = TRUE, ![x].linked = FALSE]
  /\ IF ctx[x].job THEN Terminate({p \in Procs : Home[p] = x}) ELSE UNCHANGED <<active, status>>
  /\ str' = Closed(open, Dropped(open)) /\ rec' = HandedOver(open)
  /\ host' = [host EXCEPT ![x] = "streams"]
  /\ UNCHANGED <<plan, helper, failed, lock, faults, console, left, pipe, reader, thr, callVars, hand>>

DestroyRefused(x) ==
  /\ lock = None /\ Monitor(x) /\ ctx[x].linked /\ ctx[x].job /\ Fault
  /\ ctx' = [ctx EXCEPT ![x].poisoned = TRUE]
  /\ UNCHANGED <<plan, helper, failed, lock, procVars, streamVars, callVars, hostVars>>

(* The last reference to the last stream wakes the destroy. *)
StreamsGone(x) ==
  /\ lock = None /\ host[x] = "streams" /\ LiveStreams(x) = {}
  /\ lock' = x /\ host' = [host EXCEPT ![x] = "records"]
  /\ UNCHANGED <<plan, ctx, helper, failed, faults, procVars, streamVars, callVars, hand>>

StreamsWaitFails(x) ==
  /\ lock = None /\ host[x] = "streams" /\ LiveStreams(x) # {} /\ Retry(x)
  /\ ctx' = [ctx EXCEPT ![x].linked = TRUE]
  /\ UNCHANGED <<plan, helper, failed, procVars, streamVars, callVars>>

(* The exit code is kept for a later wait, or 1 if the kernel has none. *)
KeptCode(p, known) == IF rec[p].reaped THEN rec[p].code ELSE IF known THEN status[p] ELSE "one"

(* The next record: its exit code is kept, its handles close, its console  *)
(* gets a closer, and the lock is released while its output is drained.    *)
TakeRecord(x) ==
  /\ lock = x /\ host[x] = "records"
  /\ \E p \in Mine(x), known \in BOOLEAN :
       /\ IF known THEN UNCHANGED faults ELSE Fault /\ ~rec[p].reaped
       /\ rec' = [rec EXCEPT ![p].reaped = TRUE, ![p].code = KeptCode(p, known),
                              ![p].handles = FALSE, ![p].closer = @ \/ rec[p].console,
                              ![p].console = FALSE, ![p].cleaning = TRUE]
       /\ IF rec[p].console THEN CloserStarts(p) ELSE UNCHANGED console
       /\ hand' = [hand EXCEPT ![x] = p]
  /\ lock' = None /\ host' = [host EXCEPT ![x] = "drain"]
  /\ UNCHANGED <<plan, ctx, helper, failed, active, status, left, pipe, streamVars, callVars>>

(* No thread for the console: what was reaped stays reaped. *)
TakeRecordFails(x) ==
  /\ lock = x /\ host[x] = "records" /\ Retry(x)
  /\ \E p \in Mine(x) :
       /\ rec[p].console
       /\ rec' = [rec EXCEPT ![p].reaped = TRUE, ![p].code = KeptCode(p, TRUE),
                              ![p].handles = FALSE]
  /\ ctx' = [ctx EXCEPT ![x].linked = TRUE]
  /\ UNCHANGED <<plan, helper, failed, active, status, console, left, pipe, streamVars, callVars>>

(* drain_console reads what nobody wants until the closer returns. *)
Drain(x) ==
  /\ host[x] = "drain" /\ rec[hand[x]].output /\ ~CloserDone(hand[x]) /\ pipe[hand[x]] > 0
  /\ pipe' = [pipe EXCEPT ![hand[x]] = 0]
  /\ UNCHANGED <<contextVars, rec, active, status, console, left, streamVars, callVars, hostVars>>

(* The closer returned: the rest of the handles close. *)
Drained(x) ==
  /\ lock = None /\ host[x] = "drain" /\ CloserDone(hand[x])
  /\ rec' = [rec EXCEPT ![hand[x]].cleaning = FALSE, ![hand[x]].output = FALSE,
                         ![hand[x]].closer = FALSE, ![hand[x]].home = None]
  /\ lock' = x /\ host' = [host EXCEPT ![x] = "records"] /\ hand' = [hand EXCEPT ![x] = None]
  /\ UNCHANGED <<plan, ctx, helper, failed, faults, active, status, console, left, pipe, streamVars, callVars>>

DrainFails(x) ==
  /\ lock = None /\ host[x] = "drain" /\ Retry(x)
  /\ rec' = [rec EXCEPT ![hand[x]].cleaning = FALSE]
  /\ ctx' = [ctx EXCEPT ![x].linked = TRUE]
  /\ UNCHANGED <<plan, helper, failed, active, status, console, left, pipe, streamVars, callVars>>

(* No record is left: the desktop closes and the lock is released. *)
CloseDesktop(x) ==
  /\ lock = x /\ host[x] = "records" /\ Mine(x) = {}
  /\ \/ /\ ctx' = [ctx EXCEPT ![x].desktop = FALSE] /\ UNCHANGED <<faults, hand>>
        /\ lock' = None /\ host' = [host EXCEPT ![x] = "profile"]
     \/ ctx' = [ctx EXCEPT ![x].linked = TRUE] /\ Retry(x)
  /\ UNCHANGED <<plan, helper, failed, procVars, streamVars, callVars>>

(* The job and the profile go, and the object with them. *)
DeleteProfile(x) ==
  /\ host[x] = "profile"
  /\ \/ /\ ctx' = [ctx EXCEPT ![x] = Released]
        /\ host' = [host EXCEPT ![x] = "idle"] /\ UNCHANGED <<lock, faults, hand>>
     \/ lock = None /\ ctx' = [ctx EXCEPT ![x].job = FALSE, ![x].linked = TRUE] /\ Retry(x)
  /\ UNCHANGED <<plan, helper, failed, procVars, streamVars, callVars>>

-----------------------------------------------------------------------------
OtherVars == <<plan, procVars, streamVars, callVars, hostVars>>

Kernel(p) == Emit(p) \/ ConsoleCloses(p)
ThreadStep(t) ==
  \/ TakeReader(t) \/ Submit(t) \/ PeekCompletes(t) \/ PeekEnds(t) \/ TakeByte(t)
  \/ EnterMore(t) \/ TakeMore(t) \/ WriteCancelled(t) \/ Leave(t)
DestroyStep(x) ==
  \/ StreamsGone(x) \/ StreamsWaitFails(x) \/ TakeRecord(x) \/ TakeRecordFails(x) \/ Drain(x) \/ Drained(x)
  \/ DrainFails(x) \/ CloseDesktop(x) \/ DeleteProfile(x)
Creating(x) == /\ TakeDesktop(x) \/ Publish(x) \/ CreateFails(x) \/ (lock = x /\ Create(x))
               /\ UNCHANGED OtherVars

Next ==
  \/ \E x \in Contexts : \/ ContextStep(x) /\ UNCHANGED OtherVars
                         \/ Destroy(x) \/ DestroyRefused(x) \/ DestroyStep(x)
  \/ \E p \in Procs : \/ Spawn(p) \/ SpawnFails(p) \/ SpawnReturns(p) \/ Kill(p) \/ Exits(p) \/ ChildExits(p)
                      \/ Kernel(p) \/ WaitEnter(p) \/ WaitRefused(p) \/ WaitNoHang(p)
                      \/ WaitBreaks(p) \/ WaitEnds(p) \/ WaitFails(p)
  \/ \E s \in Streams : Close(s) \/ \E t \in Threads, op \in {"read", "poll", "write"} : Enter(t, s, op)
  \/ \E t \in Threads : ThreadStep(t) \/ Written(t)

(* The host's threads and the kernel go on: a console with a reader        *)
(* writes, a thread in a call and a destroy take their next step, and a    *)
(* creation ends by its deadline.  Consoles, destroys and creations end    *)
(* after finitely many steps, so fairness to a kind is fairness to each.   *)
(* Nothing makes a guest read its input.                                   *)
Fairness ==
  /\ WF_vars(\E p \in Procs : Kernel(p))
  /\ \A t \in Threads : WF_vars(ThreadStep(t))
  /\ WF_vars(\E x \in Contexts : DestroyStep(x))
  /\ WF_vars(\E x \in Contexts : Creating(x))

Spec == Init /\ [][Next]_vars
FairSpec == Spec /\ Fairness

-----------------------------------------------------------------------------
Owns(c) == c.linked \/ c.job \/ c.desktop \/ c.profile \/ c.ui

(* visjail.h: "destroy terminates and waits for every context descendant   *)
(* before releasing it".  A workspace that was never published or is       *)
(* released owns nothing: no helper still runs for it, no process of it    *)
(* lives, no stream and no console of it is open, no record has a handle   *)
(* of it and no spawn a pin, whichever threads were inside when it was     *)
(* destroyed.                                                              *)
ReleasedOwnsNothing ==
  \A x \in Contexts : ctx[x].life \in {"none", "gone"} =>
    /\ ~Owns(ctx[x]) /\ HelperGone(x)
    /\ \A p \in Procs : Home[p] = x =>
         /\ active[p] = {} /\ console[p] \in {"none", "closed"} /\ p \notin leaving
         /\ ~rec[p].handles /\ ~rec[p].console /\ ~rec[p].closer /\ ~rec[p].output
         /\ \A s \in Streams : s[1] = p => str[s].life # "live"

(* A workspace that owns something is never forgotten: the creation that   *)
(* makes it holds the table, or the table keeps it as the one whose        *)
(* cleanup failed, or it is published, and then either the host may        *)
(* destroy it or a destroy is under way; so that after any failure there   *)
(* is someone who will release it, and not two.                            *)
NothingForgotten ==
  \A x \in Contexts : Owns(ctx[x]) \/ ~HelperGone(x) =>
    \/ ctx[x].life = "making" /\ lock = x
    \/ ctx[x].life = "failed" /\ failed = x
    \/ ctx[x].life = "open" /\ (ctx[x].linked <=> host[x] = "idle")

(* A thread in a call keeps its stream and the workspace of the stream     *)
(* alive, a destroy keeps the record it drains, and a console is closed by *)
(* one thread only: nothing is used after it was freed.                    *)
NothingUsedAfterFree ==
  /\ \A t \in Threads : ~At(t, "idle") => /\ str[thr[t].s].life = "live"
                                          /\ ctx[Home[thr[t].s[1]]].life = "open"
  /\ \A x \in Contexts : hand[x] # None => rec[hand[x]].life = "live" /\ rec[hand[x]].home = x
  /\ \A p \in Procs : rec[p].console => console[p] = "open"

(* "Preserve an exit record even when Java's reaper has not entered wait": *)
(* a wait answers the code the kernel has for the process, an error of its *)
(* own, or the 1 a destroy kept that could not ask the kernel.  That the   *)
(* process is unknown it says only when no handle could be had, and then   *)
(* the record is still there for another wait.                             *)
FirstWaitAnswers ==
  \A p \in Procs : \/ told[p] \in {None, "error", "one", status[p]}
                   \/ told[p] = "invalid" /\ rec[p].life = "live"

(* A destroy that has closed the streams returns: the threads inside are   *)
(* woken, and a console whose reader is gone is drained.                   *)
DestroyReturns == \A x \in Contexts : host[x] # "idle" ~> host[x] = "idle"
=============================================================================
