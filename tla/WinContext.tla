---------------------------- MODULE WinContext ----------------------------
(* The private workspaces of the Windows jail (visjail_windows.c): their   *)
(* creation with the helper that makes a private desktop (windows_ui.c),   *)
(* staging and sealing.  One table lock covers every operation; creation   *)
(* holds it while the helper works, and keeps at most one workspace whose  *)
(* cleanup failed.                                                         *)
EXTENDS Integers, FiniteSets

CONSTANTS
  Contexts,    \* workspaces
  Plans,       \* what a behaviour is about: the workspaces the host has
               \*   sealed before, those it creates, the processes it spawns,
               \*   the threads that use their streams
  MaxFaults,   \* native calls that may fail in a behaviour
  None

ASSUME ContextAssumption ==
  /\ None \notin Contexts /\ MaxFaults \in Nat
  /\ \A q \in Plans : q.sealed \subseteq Contexts /\ q.new \subseteq Contexts

VARIABLES
  plan,     \* one of Plans
  ctx,      \* [Contexts -> Context]
  helper,   \* [Contexts -> the process visjail-ui.exe started for it]
  failed,   \* failed_context: the workspace whose cleanup failed, or None
  lock,     \* the workspace whose operation holds the table lock between
            \*   two of its steps, or None
  faults    \* native calls that failed so far

contextVars == <<plan, ctx, helper, failed, lock, faults>>

(* A Context: where its object is, and what it owns.  ui is ui_process.    *)
NewContext == [life |-> "none", linked |-> FALSE, sealed |-> FALSE, poisoned |-> FALSE,
               job |-> FALSE, desktop |-> FALSE, profile |-> FALSE, ui |-> FALSE]
Released == [NewContext EXCEPT !.life = "gone"]
SealedContext == [NewContext EXCEPT !.life = "open", !.linked = TRUE, !.sealed = TRUE,
                                    !.job = TRUE, !.desktop = TRUE, !.profile = TRUE]

ContextInit ==
  /\ plan \in Plans
  /\ ctx = [x \in Contexts |-> IF x \in plan.sealed THEN SealedContext ELSE NewContext]
  /\ helper = [x \in Contexts |-> "none"]
  /\ failed = None /\ lock = None /\ faults = 0

(* A native call that fails, with the error it sets. *)
Fault == faults < MaxFaults /\ faults' = faults + 1

HelperGone(x) == helper[x] \in {"none", "exited", "ended"}

(* close_ui_helper with no time left: whether the kernel confirms the exit. *)
CloseUiHelper(x) == ~ctx[x].ui \/ HelperGone(x)

(* What dispose_failed_context leaves of a workspace whose helper is       *)
(* closed: nothing, or what the call that failed and those after it own.   *)
Disposed(c) ==
  {Released} \cup (IF c.desktop THEN {[c EXCEPT !.ui = FALSE]} ELSE {})
               \cup (IF c.profile THEN {[c EXCEPT !.ui = FALSE, !.desktop = FALSE]} ELSE {})

Kept(c) == IF c.life = "gone" THEN c ELSE [c EXCEPT !.life = "failed"]
Terminated(x) == [helper EXCEPT ![x] = IF HelperGone(x) THEN @ ELSE "dying"]

-----------------------------------------------------------------------------
(* visjail_windows_create, up to the wait for the helper.                  *)

(* The cleanup of the last failed workspace comes first. *)
CreateRefused(x) ==
  /\ lock = None /\ x \in plan.new /\ ctx[x].life = "none" /\ failed # None
  /\ IF CloseUiHelper(failed)
     THEN Fault /\ \E left \in Disposed(ctx[failed]) \ {Released} :
            ctx' = [ctx EXCEPT ![failed] = Kept(left)]
     ELSE UNCHANGED <<ctx, faults>>
  /\ helper' = Terminated(failed)
  /\ UNCHANGED <<failed, lock>>

CreateCleansUp(x) ==
  /\ lock = None /\ x \in plan.new /\ ctx[x].life = "none" /\ failed # None /\ CloseUiHelper(failed)
  /\ ctx' = [ctx EXCEPT ![failed] = Released] /\ failed' = None /\ lock' = x
  /\ UNCHANGED <<helper, faults>>

(* Mutant: the workspace whose cleanup failed is not thought of. *)
CreateHeedless(x) ==
  /\ x \in plan.new /\ ctx[x].life = "none" /\ lock \in {None, x}
  /\ ctx' = [ctx EXCEPT ![x].life = "making", ![x].profile = TRUE, ![x].ui = TRUE]
  /\ helper' = [helper EXCEPT ![x] = "running"] /\ lock' = x
  /\ UNCHANGED <<failed, faults>>

(* The directory is opened and pinned, the profile made, the helper        *)
(* started in a job of its own.                                            *)
Create(x) ==
  /\ x \in plan.new /\ ctx[x].life = "none" /\ failed = None /\ lock \in {None, x}
  /\ ctx' = [ctx EXCEPT ![x].life = "making", ![x].profile = TRUE, ![x].ui = TRUE]
  /\ helper' = [helper EXCEPT ![x] = "running"] /\ lock' = x
  /\ UNCHANGED <<failed, faults>>

(* A directory that is not empty, local and regular, or no profile: the    *)
(* object goes before it owns anything.                                    *)
CreateRejects(x) ==
  /\ x \in plan.new /\ ctx[x].life = "none" /\ failed = None /\ lock \in {None, x} /\ Fault
  /\ ctx' = [ctx EXCEPT ![x] = Released] /\ lock' = None
  /\ UNCHANGED <<helper, failed>>

-----------------------------------------------------------------------------
(* The helper: wmain of windows_ui.c.                                      *)

(* It makes the desktop and replies, or replies an error. *)
HelperReplies(x, answer) ==
  /\ helper[x] = "running"
  /\ helper' = [helper EXCEPT ![x] = answer]
  /\ UNCHANGED <<ctx, failed, lock, faults>>

(* It ends: without a reply on handles it does not accept, after the       *)
(* acknowledgement, on its own timeout, and once terminated.               *)
HelperEnds(x) ==
  /\ helper[x] \in {"running", "ready", "refused", "acked", "dying"}
  /\ helper' = [helper EXCEPT ![x] = IF helper[x] = "acked" THEN "ended" ELSE "exited"]
  /\ UNCHANGED <<ctx, failed, lock, faults>>

-----------------------------------------------------------------------------
(* private_desktop waits for the reply, pulls the handles while the helper *)
(* holds the originals, acknowledges and waits for its end.                *)

TakeDesktop(x) ==
  /\ ctx[x].life = "making" /\ helper[x] = "ready"
  /\ ctx' = [ctx EXCEPT ![x].desktop = TRUE]
  /\ helper' = [helper EXCEPT ![x] = "acked"]
  /\ UNCHANGED <<failed, lock, faults>>

(* The helper ended well: its handles go, the private directories and the  *)
(* job are made, and the workspace is published.                           *)
Publish(x) ==
  /\ ctx[x].life = "making" /\ helper[x] = "ended"
  /\ ctx' = [ctx EXCEPT ![x].life = "open", ![x].linked = TRUE, ![x].job = TRUE, ![x].ui = FALSE]
  /\ lock' = None
  /\ UNCHANGED <<helper, failed, faults>>

(* The deadline passed, the helper refused or ended early, or a call       *)
(* failed.  The helper is terminated; if the kernel confirms it in time    *)
(* the rest is disposed of, and what cannot be stays as failed_context.    *)
CreateFails(x) ==
  /\ ctx[x].life = "making"
  /\ \E inTime \in {TRUE, HelperGone(x)} :
       \E left \in IF inTime THEN Disposed(ctx[x]) ELSE {ctx[x]} :
         /\ faults' = faults + (IF helper[x] = "ended" THEN 1 ELSE 0)
                             + (IF inTime /\ left # Released THEN 1 ELSE 0)
         /\ ctx' = [ctx EXCEPT ![x] = Kept(left)]
         /\ failed' = IF left = Released THEN None ELSE x
         /\ helper' = IF inTime /\ ~HelperGone(x) THEN [helper EXCEPT ![x] = "exited"] ELSE Terminated(x)
  /\ faults' <= MaxFaults
  /\ lock' = None

-----------------------------------------------------------------------------
(* visjail_windows_stage: a failure after the first change to the tree     *)
(* poisons the workspace.                                                  *)
StageFails(x) ==
  /\ lock = None /\ ctx[x].linked /\ ~ctx[x].sealed /\ ~ctx[x].poisoned /\ Fault
  /\ ctx' = [ctx EXCEPT ![x].poisoned = TRUE]
  /\ UNCHANGED <<helper, failed, lock>>

(* visjail_windows_seal; sealing twice changes nothing. *)
Seal(x) ==
  /\ lock = None /\ ctx[x].linked /\ ~ctx[x].poisoned /\ ~ctx[x].sealed
  /\ \/ ctx' = [ctx EXCEPT ![x].sealed = TRUE] /\ UNCHANGED faults
     \/ ctx' = [ctx EXCEPT ![x].poisoned = TRUE] /\ Fault
  /\ UNCHANGED <<helper, failed, lock>>

ContextStep(x) ==
  /\ UNCHANGED plan
  /\ \/ CreateRefused(x) \/ CreateCleansUp(x) \/ Create(x) \/ CreateRejects(x)
     \/ \E answer \in {"ready", "refused"} : HelperReplies(x, answer)
     \/ HelperEnds(x)
     \/ TakeDesktop(x) \/ Publish(x) \/ CreateFails(x)
     \/ StageFails(x) \/ Seal(x)
=============================================================================
