------------------------------ MODULE Boundary ------------------------------
(***************************************************************************)
(* The text boundary between Java and C, in both directions.               *)
(*                                                                         *)
(* Down: Interpreter.invoke calls an entry point, whose answer may not fit *)
(* its buffer; C then keeps the whole text, per thread, for one            *)
(* vispython_take_result.  Up: vis_py_host_call calls                      *)
(* Interpreter.hostUpcall, whose reply may not fit C's buffer; Java then   *)
(* keeps the text in PENDING, per thread, and C calls straight back with a *)
(* buffer that is large enough.  Neither the block nor the tool may run    *)
(* twice for an answer that was long.                                      *)
(*                                                                         *)
(* The two nest: a tool may call down again on its thread.  `stack` holds  *)
(* the calls in progress on each thread, alternately down and up.  An      *)
(* answer or a reply is a number no other text in sight has, so that one   *)
(* taken for another shows; 0 is the empty text.                           *)
(***************************************************************************)
EXTENDS Integers, Sequences, FiniteSets

CONSTANTS
  Threads,     \* host threads
  Keys,        \* session, tool and payload of a host call
  MaxNest,     \* bound: calls nested on one thread
  MaxTexts,    \* numbers for texts: more than can be in sight at once
  None

ASSUME BoundaryAssumption ==
  /\ None \notin Keys \cup (Keys \X (1..MaxTexts))
  /\ IsFiniteSet(Threads) /\ MaxNest \in Nat
  /\ MaxTexts \in Nat /\ MaxTexts > Cardinality(Threads) * (MaxNest + 2)

VARIABLES
  stack,    \* calls in progress on each thread, innermost last
  stash,    \* vis_py_stash: the text kept for vispython_take_result
  pending,  \* Interpreter.PENDING: <<key, reply>>
  ranOut,   \* history: strdup or realloc failed
  given     \* history: how the text the last call gave compares with its own

vars == <<stack, stash, pending, ranOut, given>>

Texts == 1..MaxTexts

(* A call on the stack of its thread is a record.                          *)
(* at: "python" (down, running), "fetch" (down, the answer waits in the    *)
(* stash), "tool" (up, the host function runs), "grow" (up, C has to offer *)
(* a larger buffer).  own: the text this call's own code made.  ran: how   *)
(* often the host function ran for this call.                              *)

Init ==
  /\ stack = [t \in Threads |-> <<>>]
  /\ stash = [t \in Threads |-> 0]
  /\ pending = [t \in Threads |-> None]
  /\ ranOut = FALSE
  /\ given = None

Top(t) == stack[t][Len(stack[t])]

In(t, at) == stack[t] # <<>> /\ Top(t).at = at

Push(t, f) == stack' = [stack EXCEPT ![t] = Append(@, f)]

Pop(t) == stack' = [stack EXCEPT ![t] = SubSeq(@, 1, Len(@) - 1)]

Become(t, f) == stack' = [stack EXCEPT ![t][Len(stack[t])] = f]

(* The texts the calls, the stashes and PENDING hold, and one they do not. *)
InSight ==
  (UNION {{stack[t][k].own : k \in 1..Len(stack[t])} : t \in Threads})
    \cup {stash[t] : t \in Threads}
    \cup {pending[t][2] : t \in {u \in Threads : pending[u] # None}}

Fresh == CHOOSE x \in Texts : x \notin InSight

(* A call gave `text`, and its own code, which ran so often, made `own`.    *)
Gave(dir, ran, own, text) ==
  given' = [dir |-> dir, ran |-> ran, right |-> text = own, empty |-> text = 0]

-----------------------------------------------------------------------------
(* Down.                                                                   *)

(* Interpreter.invoke, from outside or from a tool.                        *)
Invoke(t) ==
  /\ stack[t] = <<>> \/ In(t, "tool")
  /\ Len(stack[t]) < MaxNest
  /\ Push(t, [at |-> "python", key |-> None, own |-> 0, ran |-> 0])
  /\ UNCHANGED <<stash, pending, ranOut, given>>

(* Mutant: one stash for all threads.                                      *)
StashShared(t, x) ==
  /\ stash' = [u \in Threads |-> x]
  /\ UNCHANGED ranOut

(* vis_py_stash: strdup may fail and keep nothing.                         *)
Stash(t, x) ==
  \/ stash' = [stash EXCEPT ![t] = x] /\ UNCHANGED ranOut
  \/ stash' = [stash EXCEPT ![t] = 0] /\ ranOut' = TRUE

(* The code ends with an answer that fits: vis_py_copy_out drops what the  *)
(* stash still holds and invoke returns the buffer.                        *)
AnswerFits(t) ==
  /\ In(t, "python")
  /\ stash' = [stash EXCEPT ![t] = 0]
  /\ Gave("down", 1, Fresh, Fresh)
  /\ Pop(t)
  /\ UNCHANGED <<pending, ranOut>>

(* It ends with one that does not: the length tells invoke to fetch it.    *)
AnswerWaits(t) ==
  /\ In(t, "python")
  /\ Stash(t, Fresh)
  /\ Become(t, [Top(t) EXCEPT !.at = "fetch", !.own = Fresh])
  /\ UNCHANGED <<pending, given>>

(* It raises: the message, or a prefix of it, is in the buffer.  The whole *)
(* text stays in the stash, and nobody asks for it.                        *)
Raises(t) ==
  /\ In(t, "python")
  /\ \/ stash' = [stash EXCEPT ![t] = 0] /\ UNCHANGED ranOut
     \/ Stash(t, Fresh)
  /\ Pop(t)
  /\ UNCHANGED <<pending, given>>

(* takeResult: vispython_take_result hands the text over and drops it; the *)
(* empty text when there is none.                                          *)
Fetch(t) ==
  /\ In(t, "fetch")
  /\ Gave("down", 1, Top(t).own, stash[t])
  /\ stash' = [stash EXCEPT ![t] = 0]
  /\ Pop(t)
  /\ UNCHANGED <<pending, ranOut>>

-----------------------------------------------------------------------------
(* Up.                                                                     *)

(* Mutant: the oversized reply stays after it was served.                  *)
RemovePendingNever(t) == UNCHANGED pending

(* PENDING.remove().                                                       *)
RemovePending(t) == pending' = [pending EXCEPT ![t] = None]

Waiting(t, k) == pending[t] # None /\ pending[t][1] = k

(* vis_py_host_call, and the first call of hostUpcall: the tool runs,      *)
(* unless a reply to the same call waits, which again does not fit.        *)
HostCall(t, k) ==
  /\ In(t, "python") /\ Len(stack[t]) < MaxNest
  /\ Push(t, IF Waiting(t, k)
             THEN [at |-> "grow", key |-> k, own |-> 0, ran |-> 0]
             ELSE [at |-> "tool", key |-> k, own |-> 0, ran |-> 1])
  /\ UNCHANGED <<stash, pending, ranOut, given>>

(* The tool's reply fits the buffer.                                       *)
ReplyFits(t) ==
  /\ In(t, "tool")
  /\ RemovePending(t)
  /\ Gave("up", Top(t).ran, Fresh, Fresh)
  /\ Pop(t)
  /\ UNCHANGED <<stash, ranOut>>

(* Mutant: the oversized reply is not kept.                                *)
ReplyTooLongDropped(t) ==
  /\ In(t, "tool")
  /\ Become(t, [Top(t) EXCEPT !.at = "grow", !.own = Fresh])
  /\ UNCHANGED <<stash, pending, ranOut, given>>

(* It does not: it waits in PENDING, and C is told the length.  A second   *)
(* time C gives up: "host reply grew between calls".                       *)
ReplyTooLong(t) ==
  /\ In(t, "tool")
  /\ pending' = [pending EXCEPT ![t] = <<Top(t).key, Fresh>>]
  /\ IF Top(t).ran = 2 THEN Pop(t)
     ELSE Become(t, [Top(t) EXCEPT !.at = "grow", !.own = Fresh])
  /\ UNCHANGED <<stash, ranOut, given>>

(* The tool throws, or no host is bound: a negative status.                *)
ToolThrows(t) ==
  /\ In(t, "tool")
  /\ RemovePending(t)
  /\ Pop(t)
  /\ UNCHANGED <<stash, ranOut, given>>

(* C grew its buffer and calls again: the reply that waits is served; did *)
(* none wait, the tool would run again.                                    *)
Retry(t) ==
  /\ In(t, "grow")
  /\ IF Waiting(t, Top(t).key)
     THEN /\ Gave("up", Top(t).ran, Top(t).own, pending[t][2])
          /\ RemovePending(t)
          /\ Pop(t)
     ELSE /\ Become(t, [Top(t) EXCEPT !.at = "tool", !.ran = 2])
          /\ UNCHANGED <<pending, given>>
  /\ UNCHANGED <<stash, ranOut>>

(* realloc fails: MemoryError, and PENDING keeps the reply.                *)
GrowFails(t) ==
  /\ In(t, "grow")
  /\ ranOut' = TRUE
  /\ Pop(t)
  /\ UNCHANGED <<stash, pending, given>>

-----------------------------------------------------------------------------
Next ==
  \E t \in Threads :
    \/ Invoke(t) \/ AnswerFits(t) \/ AnswerWaits(t) \/ Raises(t) \/ Fetch(t)
    \/ \E k \in Keys : HostCall(t, k)
    \/ ReplyFits(t) \/ ReplyTooLong(t) \/ ToolThrows(t) \/ Retry(t) \/ GrowFails(t)

Spec == Init /\ [][Next]_vars

-----------------------------------------------------------------------------
(* "an answer too big for this buffer is kept by the runtime and fetched   *)
(* whole": as long as memory lasts, invoke gives the answer its own call   *)
(* made, whatever the other threads and the calls nested in this one left  *)
(* in the stash.                                                           *)
AnswersAreKept ==
  ~ranOut /\ given # None /\ given.dir = "down" => given.right

(* "a tool that deleted a file must not delete it a second time because    *)
(* its answer was long": as long as memory lasts, a host call that answers *)
(* ran the tool once, and answers what that run replied.                   *)
ToolRunsOnce ==
  ~ranOut /\ given # None /\ given.dir = "up" => given.ran = 1 /\ given.right

(* As long as memory lasts PENDING is empty outside a host call that waits *)
(* for its retry: no later call can be served what an earlier one left.    *)
PendingIsTheRetrys ==
  \A t \in Threads : ~ranOut /\ pending[t] # None =>
    In(t, "grow") /\ pending[t] = <<Top(t).key, Top(t).own>>

(* Even with memory running out no tool runs twice for one call, and no    *)
(* call is given the text of a call it does not equal: it is given its     *)
(* own, or for a block the empty text, or for a tool that did not run the  *)
(* reply an earlier call of the same tool with the same arguments left.    *)
NoForeignText ==
  /\ given # None => given.ran <= 1 /\ (given.ran = 1 => given.right \/ given.empty)
  /\ \A t \in Threads : In(t, "fetch") => stash[t] \in {Top(t).own, 0}
  /\ \A t \in Threads : In(t, "grow") => Waiting(t, Top(t).key)
=============================================================================
