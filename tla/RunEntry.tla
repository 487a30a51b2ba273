------------------------------ MODULE RunEntry ------------------------------
(***************************************************************************)
(* The entry points of native/vispython/vispython.c that run Python code,  *)
(* the per-thread stack of the sessions they run (whose top names the      *)
(* caller of every host call), `vis_py_running_thread`, and                *)
(* `vispython_interrupt`, which reads it.                                  *)
(*                                                                         *)
(* Any host thread may enter, and a thread whose Python code waits in a    *)
(* host call may enter again: a host tool calling back into the            *)
(* interpreter.  `frames` is the true nesting of the runs on a thread, kept *)
(* to compare with what the code believes.                                 *)
(***************************************************************************)
EXTENDS Integers, Sequences

CONSTANTS
  Threads,     \* host threads
  Sessions,    \* names of sessions
  Kinds,       \* entry points used: "run" (run, run_block), "exec" (exec, eval)
  Depth,       \* VIS_PY_RUN_DEPTH
  MaxNest,     \* bound: runs nested on one thread
  None         \* no thread, no session

ASSUME RunAssumption ==
  /\ None \notin Threads
  /\ Kinds \subseteq {"run", "exec"}
  /\ Depth \in Nat \ {0}
  /\ MaxNest \in Nat

(* The empty module name stands for __main__ and is nobody's session.      *)
Names == Sessions \cup {None}

VARIABLES
  gil,            \* the thread holding the GIL, or None
  mode,           \* "out", "python", or "host": in a host call of its innermost run
  frames,         \* the runs in progress on each thread, innermost last
  names,          \* vis_py_run_stack
  depth,          \* vis_py_run_depth
  running_thread, \* vis_py_running_thread
  pending,        \* an async KeyboardInterrupt waits in the thread state
  target          \* what vispython_interrupt read

vars == <<gil, mode, frames, names, depth, running_thread, pending, target>>

Frame == [kind : Kinds, session : Names, asked : BOOLEAN, told : 0..Depth]

Init ==
  /\ gil = None
  /\ mode = [t \in Threads |-> "out"]
  /\ frames = [t \in Threads |-> <<>>]
  /\ names = [t \in Threads |-> [k \in 1..Depth |-> None]]
  /\ depth = [t \in Threads |-> 0]
  /\ running_thread = None
  /\ pending = [t \in Threads |-> FALSE]
  /\ target = None

Top(t) == frames[t][Len(frames[t])]

(* The runs of t that wrote vis_py_running_thread.                         *)
Named(t) == {k \in 1..Len(frames[t]) : frames[t][k].kind = "run"}

-----------------------------------------------------------------------------
(* vis_py_run_push and vis_py_run_pop: a run nested too deep has no entry, *)
(* and is counted so that its pop takes away nobody else's.                *)

(* Mutant: a run without an entry is not counted either.                   *)
RunPushUncounted(t, s) ==
  /\ names' = IF depth[t] < Depth THEN [names EXCEPT ![t][depth[t] + 1] = s] ELSE names
  /\ depth' = IF depth[t] < Depth THEN [depth EXCEPT ![t] = @ + 1] ELSE depth

RunPush(t, s) ==
  /\ names' = IF depth[t] < Depth THEN [names EXCEPT ![t][depth[t] + 1] = s] ELSE names
  /\ depth' = [depth EXCEPT ![t] = @ + 1]

RunPop(t) == depth' = [depth EXCEPT ![t] = IF @ > 0 THEN @ - 1 ELSE @]

(* vis_py_current_session answers a pointer to an entry of the stack, or   *)
(* NULL: here the place of the entry, and 0 for NULL.                      *)
CurrentSession(t) ==
  IF depth[t] = 0 \/ depth[t] > Depth THEN 0
  ELSE IF names[t][depth[t]] = None THEN 0 ELSE depth[t]

(* The name found through that pointer now.                                *)
NameAt(t, p) == IF p = 0 THEN None ELSE names[t][p]

-----------------------------------------------------------------------------
(* vispython_run, _run_block, _exec, _eval: take the GIL, push the session *)
(* and, for the first two, name this thread as the running one.            *)
(* A run that fails before that (no namespace, no vis_runtime) does to     *)
(* this state what an "exec" that leaves at once does.                     *)
Enter(t, kind, s) ==
  /\ mode[t] \in {"out", "host"} /\ gil = None
  /\ Len(frames[t]) < MaxNest
  /\ gil' = t
  /\ RunPush(t, s)
  /\ running_thread' = IF kind = "run" THEN t ELSE running_thread
  /\ frames' = [frames EXCEPT ![t] = Append(@,
                  [kind |-> kind, session |-> s, asked |-> FALSE, told |-> 0])]
  /\ mode' = [mode EXCEPT ![t] = "python"]
  /\ UNCHANGED <<pending, target>>

(* Mutant: the end of a run does not clear the running thread.             *)
LeaveNamed(t) ==
  /\ mode[t] = "python" /\ gil = t
  /\ gil' = None
  /\ RunPop(t)
  /\ UNCHANGED running_thread
  /\ frames' = [frames EXCEPT ![t] = SubSeq(@, 1, Len(@) - 1)]
  /\ mode' = [mode EXCEPT ![t] = IF Len(frames[t]) = 1 THEN "out" ELSE "host"]
  /\ pending' = [pending EXCEPT ![t] = @ /\ Len(frames[t]) > 1]
  /\ UNCHANGED <<names, target>>

(* The run ends, by returning or by raising.  The outermost one takes the  *)
(* thread state, and what is pending in it, along.                         *)
Leave(t) ==
  /\ mode[t] = "python" /\ gil = t
  /\ gil' = None
  /\ RunPop(t)
  /\ running_thread' = IF Top(t).kind = "run" THEN None ELSE running_thread
  /\ frames' = [frames EXCEPT ![t] = SubSeq(@, 1, Len(@) - 1)]
  /\ mode' = [mode EXCEPT ![t] = IF Len(frames[t]) = 1 THEN "out" ELSE "host"]
  /\ pending' = [pending EXCEPT ![t] = @ /\ Len(frames[t]) > 1]
  /\ UNCHANGED <<names, target>>

(* Python gives the GIL up at its switch interval, and takes it again.     *)
DropGil(t) ==
  /\ mode[t] = "python" /\ gil = t
  /\ gil' = None
  /\ UNCHANGED <<mode, frames, names, depth, running_thread, pending, target>>

TakeGil(t) ==
  /\ mode[t] = "python" /\ gil = None
  /\ gil' = t
  /\ UNCHANGED <<mode, frames, names, depth, running_thread, pending, target>>

(* vis_py_host_call: the caller is the current session, and the host runs  *)
(* without the GIL.                                                        *)
HostCall(t) ==
  /\ mode[t] = "python" /\ gil = t
  /\ gil' = None
  /\ mode' = [mode EXCEPT ![t] = "host"]
  /\ frames' = [frames EXCEPT ![t][Len(frames[t])].asked = TRUE,
                              ![t][Len(frames[t])].told = CurrentSession(t)]
  /\ UNCHANGED <<names, depth, running_thread, pending, target>>

HostReturn(t) ==
  /\ mode[t] = "host" /\ gil = None
  /\ gil' = t
  /\ mode' = [mode EXCEPT ![t] = "python"]
  /\ frames' = [frames EXCEPT ![t][Len(frames[t])].asked = FALSE,
                              ![t][Len(frames[t])].told = 0]
  /\ UNCHANGED <<names, depth, running_thread, pending, target>>

(* The pending exception is raised at a bytecode of the innermost run.     *)
Land(t) ==
  /\ mode[t] = "python" /\ gil = t /\ pending[t]
  /\ pending' = [pending EXCEPT ![t] = FALSE]
  /\ UNCHANGED <<gil, mode, frames, names, depth, running_thread, target>>

-----------------------------------------------------------------------------
(* vispython_interrupt: the running thread is read without the GIL; with 0 *)
(* there is nothing to interrupt.  Then, with the GIL, the exception is    *)
(* left in the thread state of that thread, if it still has one.           *)
ReadTarget ==
  /\ target = None /\ running_thread # None
  /\ target' = running_thread
  /\ UNCHANGED <<gil, mode, frames, names, depth, running_thread, pending>>

RaiseInterrupt ==
  /\ target # None /\ gil = None
  /\ pending' = IF frames[target] = <<>> THEN pending ELSE [pending EXCEPT ![target] = TRUE]
  /\ target' = None
  /\ UNCHANGED <<gil, mode, frames, names, depth, running_thread>>

-----------------------------------------------------------------------------
Next ==
  \/ \E t \in Threads :
       \/ \E kind \in Kinds, s \in Names : Enter(t, kind, s)
       \/ Leave(t) \/ DropGil(t) \/ TakeGil(t) \/ HostCall(t) \/ HostReturn(t) \/ Land(t)
  \/ ReadTarget \/ RaiseInterrupt

Spec == Init /\ [][Next]_vars

-----------------------------------------------------------------------------
(* The places the code keeps into the session stack stay inside it, or     *)
(* name nobody, however deep the runs nest (vis_py_run_stack).             *)
TypeOK ==
  /\ gil \in Threads \cup {None}
  /\ mode \in [Threads -> {"out", "python", "host"}]
  /\ frames \in [Threads -> Seq(Frame)]
  /\ names \in [Threads -> [1..Depth -> Names]]
  /\ depth \in [Threads -> Nat]
  /\ running_thread \in Threads \cup {None}
  /\ pending \in [Threads -> BOOLEAN]
  /\ target \in Threads \cup {None}

(* "the value a caller acts on is a thread that was running when it        *)
(* looked": vis_py_running_thread never names a thread without a run that  *)
(* named it, whichever runs begin and end on the other threads.            *)
SlotNamesARun == running_thread # None => Named(running_thread) # {}

(* "the extension's own upcalls see the extension until it returns": the   *)
(* session a host call is told, and told again at its retry, is the one of *)
(* the run that made it, whatever ran nested in that call; and a run too   *)
(* deep for the stack is attributed to nobody.                             *)
UpcallsNameTheirRun ==
  \A t \in Threads : \A k \in 1..Len(frames[t]) :
    frames[t][k].asked =>
      NameAt(t, frames[t][k].told) = IF k > Depth THEN None ELSE frames[t][k].session

(* "The interpreter thread ident of whatever the HOST is running right     *)
(* now, and 0 between calls": as long as a run is in progress the slot     *)
(* names a thread.  The code does not keep it: the end of any run clears   *)
(* the slot, the end of one nested in another or beside another too, and   *)
(* vispython_interrupt then answers that there was nothing to interrupt.   *)
ZeroMeansNothingRuns ==
  running_thread = None => \A t \in Threads : Named(t) = {}
=============================================================================
