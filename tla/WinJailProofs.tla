--------------------------- MODULE WinJailProofs ---------------------------
(* Proofs about WinJail, for any number of workspaces, processes, streams  *)
(* and threads: what a released workspace owns, what a thread may still    *)
(* use, and what a wait answers.                                           *)
(*                                                                         *)
(* The inductive invariant has six parts.  Own says what a workspace and   *)
(* its helper have in each stage, Record what a process record and the     *)
(* objects of the kernel agree on, Counted is the reference count of each  *)
(* stream against the threads in a call, and the Tied parts say what a     *)
(* workspace that is being destroyed has already got rid of.  LeaveInv is  *)
(* about the spawns that have given the lock back and have not returned,   *)
(* TendInv about who will release a workspace.                             *)
EXTENDS WinJail, FiniteSetTheorems, TLAPS

-----------------------------------------------------------------------------
Lives == {"none", "making", "open", "failed", "gone"}
ContextType == [life : Lives, linked : BOOLEAN, sealed : BOOLEAN, poisoned : BOOLEAN,
                job : BOOLEAN, desktop : BOOLEAN, profile : BOOLEAN, ui : BOOLEAN]
HelperType == {"none", "running", "ready", "refused", "acked", "dying", "exited", "ended"}
Codes == {None, "own", "killed", "one"}
ProcessType == [life : {"none", "live", "freed"}, home : Contexts \cup {None}, reaped : BOOLEAN,
                waited : BOOLEAN, cleaning : BOOLEAN, handles : BOOLEAN, console : BOOLEAN,
                closer : BOOLEAN, output : BOOLEAN, code : Codes]
StreamType == [life : {"none", "live", "freed"}, linked : BOOLEAN, refs : Int, cancel : BOOLEAN,
               pending : BOOLEAN, cached : BOOLEAN, eof : BOOLEAN]
Calls == {"idle", "lock", "ready", "peek", "got", "more", "bulk", "write", "leave"}
ThreadType == [pc : Calls, s : Streams \cup {None}, op : {"read", "poll", "write", None}]

ContextTyped == /\ ctx \in [Contexts -> ContextType] /\ helper \in [Contexts -> HelperType]
                /\ failed \in Contexts \cup {None}
ProcTyped == /\ rec \in [Procs -> ProcessType] /\ active \in [Procs -> SUBSET {"root", "child"}]
             /\ status \in [Procs -> {None, "own", "killed"}]
             /\ console \in [Procs -> {"none", "open", "closing", "closed", "orphan"}]
             /\ waiter \in [Procs -> {"idle", "wait"}]
             /\ told \in [Procs -> {None, "own", "killed", "one", "error", "invalid"}]
StreamTyped == str \in [Streams -> StreamType] /\ thr \in [Threads -> ThreadType]
HostTyped == /\ host \in [Contexts -> {"idle", "streams", "records", "drain", "profile"}]
             /\ hand \in [Contexts -> Procs \cup {None}]

-----------------------------------------------------------------------------
(* A workspace: only a published one is linked or has a job, one that has  *)
(* its helper closed has none left, and one a process may be spawned into  *)
(* has its job.                                                            *)
Own(x) ==
  /\ ctx[x].life # "open" => ~ctx[x].linked /\ ~ctx[x].job
  /\ ctx[x].life = "open" => ~ctx[x].ui
  /\ ctx[x].life \in {"none", "gone"} => ~Owns(ctx[x])
  /\ ~ctx[x].ui => HelperGone(x)
  /\ ctx[x].linked /\ ~ctx[x].poisoned => ctx[x].job

ContextInv == ContextTyped /\ (\A x \in Contexts : Own(x)) /\ (failed # None => ctx[failed].life = "failed")

-----------------------------------------------------------------------------
(* A record and what the kernel has for its process. *)
Nothing(r) == ~r.handles /\ ~r.console /\ ~r.closer /\ ~r.output

Unborn(p) == /\ rec[p] = NewProcess /\ active[p] = {} /\ status[p] = None /\ console[p] \in {"none", "orphan"}
             /\ told[p] = None /\ waiter[p] = "idle"

(* The root has no exit code while it runs, and one for ever after. *)
Coded(p) == /\ "root" \in active[p] => status[p] = None
            /\ rec[p].life # "none" /\ "root" \notin active[p] => status[p] # None
            /\ rec[p].reaped => /\ ~rec[p].handles /\ "root" \notin active[p]
                                /\ rec[p].code \in {"one", status[p]} /\ rec[p].code # None

(* One owner for the console: the record, the thread that closes it, or    *)
(* nobody any more.                                                        *)
Owned(p) == /\ rec[p].console <=> console[p] = "open"
            /\ console[p] = "closing" => rec[p].closer
            /\ rec[p].closer => rec[p].reaped /\ rec[p].life = "live"
            /\ rec[p].cleaning => ~rec[p].console /\ rec[p].reaped

(* A record is given up only when it was waited for and owns nothing, and  *)
(* leaves its workspace only when it owns nothing.                         *)
Spent(p) == /\ rec[p].home \in {None, Home[p]}
            /\ rec[p].life = "freed" => rec[p].waited /\ Nothing(rec[p])
            /\ rec[p].life = "live" /\ rec[p].home = None => Nothing(rec[p])

(* A wait whose record is found decides the answer for good. *)
Answered(p) == /\ rec[p].waited => told[p] \notin Unfound
               /\ \/ told[p] \in {None, "error", "one", status[p]}
                  \/ told[p] = "invalid" /\ rec[p].life = "live"

Record(p) == /\ rec[p].life = "none" => Unborn(p)
             /\ Coded(p) /\ Owned(p) /\ Spent(p) /\ Answered(p)

ProcInv == ProcTyped /\ \A p \in Procs : Record(p)

-----------------------------------------------------------------------------
(* The references of a stream: one for its place in the table, one for     *)
(* each thread in a call, one more for each in the second half of a read.  *)
Users(s) == {t \in Threads : thr[t].pc # "idle" /\ thr[t].s = s}
Bulks(s) == {t \in Threads : thr[t].pc = "bulk" /\ thr[t].s = s}
Listed(s) == IF str[s].linked THEN 1 ELSE 0
Counted(s) == /\ str[s].refs = Listed(s) + Cardinality(Users(s)) + Cardinality(Bulks(s))
              /\ str[s].life = "live" <=> str[s].refs > 0

StreamInv == /\ StreamTyped
             /\ \A s \in Streams : Counted(s)
             /\ \A t \in Threads : thr[t].pc # "idle" => thr[t].s \in Streams

-----------------------------------------------------------------------------
(* What ties processes and streams to their workspace, and what a destroy  *)
(* has got rid of in each of its stages.                                   *)
ProcTied(p) == /\ active[p] # {} => ctx[Home[p]].job
               /\ rec[p].life = "live" /\ rec[p].home # None => ctx[Home[p]].life = "open"
StreamTied(s) == str[s].life = "live" => ctx[Home[s[1]]].life = "open" /\ rec[s[1]].life # "none"
HostTied(x) ==
  /\ host[x] # "idle" => /\ ctx[x].life = "open" /\ ~ctx[x].linked /\ ctx[x].poisoned
                         /\ \A p \in Procs : Home[p] = x => active[p] = {}
  /\ host[x] \in {"records", "drain", "profile"} => \A s \in Streams : Home[s[1]] = x => str[s].life # "live"
  /\ host[x] = "drain" => /\ hand[x] \in Procs /\ rec[hand[x]].life = "live"
                          /\ rec[hand[x]].home = x /\ rec[hand[x]].cleaning
  /\ host[x] # "drain" => hand[x] = None
  /\ host[x] = "profile" => \A p \in Procs : ~(rec[p].life = "live" /\ rec[p].home = x)

TieInv == /\ HostTyped
          /\ \A p \in Procs : ProcTied(p)
          /\ \A s \in Streams : StreamTied(s)
          /\ \A x \in Contexts : HostTied(x)

CoreInv == ContextInv /\ ProcInv /\ StreamInv /\ TieInv

-----------------------------------------------------------------------------
(* A spawn that has not returned holds its workspace, which alone may have *)
(* a console nobody but that spawn knows of.                               *)
LeaveInv == /\ leaving \subseteq Procs
            /\ \A p \in leaving : ctx[Home[p]].linked
            /\ \A p \in Procs : console[p] = "orphan" => p \in leaving

(* A workspace has one who will release it: its creation, which has the    *)
(* table and nobody to clean up after, the table, or a destroy.            *)
Tended(x) == /\ ctx[x].life = "making" => lock = x /\ failed = None
             /\ ctx[x].life = "failed" => failed = x
             /\ ctx[x].life = "open" /\ ~ctx[x].linked => host[x] # "idle"

TendInv == \A x \in Contexts : Tended(x)

JailInv == CoreInv /\ LeaveInv /\ TendInv

-----------------------------------------------------------------------------
(* The workspaces.                                                         *)

LEMMA OwnKept ==
  ASSUME ContextInv, UNCHANGED <<ctx, helper, failed>>
  PROVE  ContextInv'
BY DEF ContextInv, ContextTyped, Own, Owns, HelperGone

(* What the cleanup of a failed workspace leaves of it. *)
LEMMA DisposedKeeps ==
  ASSUME NEW c \in ContextType, NEW d \in Disposed(c), c.life # "open", ~c.linked, ~c.job
  PROVE  /\ Kept(d) \in ContextType /\ Kept(d).life \in {"failed", "gone"}
         /\ Kept(d).life = "gone" => d = Released \/ c.life = "gone"
         /\ d = Released => Kept(d) = Released
         /\ ~Kept(d).linked /\ ~Kept(d).job /\ (d # Released => ~Kept(d).ui)
<1>1. /\ Released \in ContextType /\ Released.life = "gone" /\ Kept(Released) = Released
      /\ ~Released.linked /\ ~Released.job
  BY DEF Kept, Released, NewContext, ContextType, Lives
<1>2. CASE d = Released
  BY <1>1, <1>2
<1>3. CASE d # Released
  <2>1. /\ d \in ContextType /\ d.life = c.life /\ ~d.linked /\ ~d.job /\ ~d.ui
    BY <1>3 DEF Disposed, ContextType
  <2>2. /\ Kept(d) \in ContextType /\ ~Kept(d).linked /\ ~Kept(d).job /\ ~Kept(d).ui
        /\ Kept(d).life = IF d.life = "gone" THEN "gone" ELSE "failed"
    BY <2>1 DEF Kept, ContextType, Lives
  <2>3. QED
    BY <1>3, <2>1, <2>2
<1>4. QED
  BY <1>2, <1>3

(* A change of one workspace and its helper. *)
LEMMA OwnChanged ==
  ASSUME ContextInv, NEW x \in Contexts, NEW c \in ContextType, NEW h \in HelperType,
         ctx' = [ctx EXCEPT ![x] = c], helper' = [helper EXCEPT ![x] = h],
         failed' \in Contexts \cup {None}, failed' # None => ctx'[failed'].life = "failed",
         c.life # "open" => ~c.linked /\ ~c.job,
         c.life = "open" => ~c.ui,
         c.life \in {"none", "gone"} => ~Owns(c),
         ~c.ui => h \in {"none", "exited", "ended"},
         c.linked /\ ~c.poisoned => c.job
  PROVE  ContextInv'
<1>1. ContextTyped' BY DEF ContextInv, ContextTyped
<1>2. ASSUME NEW y \in Contexts PROVE Own(y)'
  <2>1. CASE y = x
    <3>1. ctx'[y] = c /\ helper'[y] = h BY <2>1 DEF ContextInv, ContextTyped
    <3> QED BY <3>1 DEF Own, Owns, HelperGone
  <2>2. CASE y # x
    <3>1. ctx'[y] = ctx[y] /\ helper'[y] = helper[y] BY <2>2 DEF ContextInv, ContextTyped
    <3>2. Own(y) BY DEF ContextInv
    <3> QED BY <3>1, <3>2 DEF Own, Owns, HelperGone
  <2> QED BY <2>1, <2>2
<1> QED BY <1>1, <1>2 DEF ContextInv

(* What a step on workspaces may do to a published one: poison or seal it. *)
StaysOpen(y) ==
  ctx[y].life = "open" => /\ ctx'[y].life = "open" /\ (ctx[y].job => ctx'[y].job)
                          /\ ctx'[y].linked = ctx[y].linked /\ (ctx[y].poisoned => ctx'[y].poisoned)

LEMMA OthersStay ==
  ASSUME ContextTyped, NEW x \in Contexts, NEW c, ctx' = [ctx EXCEPT ![x] = c], ctx[x].life # "open"
  PROVE  \A y \in Contexts : StaysOpen(y)
BY DEF ContextTyped, StaysOpen

LEMMA ContextKeeps ==
  ASSUME ContextInv, NEW x \in Contexts, ContextStep(x)
  PROVE  ContextInv' /\ \A y \in Contexts : StaysOpen(y)
<1>0. /\ ctx \in [Contexts -> ContextType] /\ helper \in [Contexts -> HelperType]
      /\ failed \in Contexts \cup {None} /\ Own(x) /\ ContextTyped
      /\ ctx[x] \in ContextType /\ helper[x] \in HelperType
  BY DEF ContextInv, ContextTyped
<1>same. ASSUME ctx' = ctx PROVE \A y \in Contexts : StaysOpen(y)
  BY <1>same DEF StaysOpen
<1>1. CASE CreateRefused(x)
  <2>0. failed \in Contexts /\ ctx[failed].life = "failed" /\ Own(failed) /\ ctx[failed] \in ContextType
        /\ helper[failed] \in HelperType
    BY <1>0, <1>1 DEF CreateRefused, ContextInv
  <2>1. helper' = [helper EXCEPT ![failed] = Terminated(failed)[failed]] /\ Terminated(failed)[failed] \in HelperType
    BY <1>0, <1>1, <2>0 DEF CreateRefused, Terminated, HelperType, HelperGone
  <2>2. CASE CloseUiHelper(failed)
    <3>1. PICK d \in Disposed(ctx[failed]) \ {Released} : ctx' = [ctx EXCEPT ![failed] = Kept(d)]
      BY <1>1, <2>2 DEF CreateRefused
    <3>2. Kept(d) \in ContextType /\ Kept(d).life = "failed" /\ ~Kept(d).linked /\ ~Kept(d).job /\ ~Kept(d).ui
      BY <2>0, <3>1, DisposedKeeps DEF Own
    <3>3. HelperGone(failed) BY <2>0, <2>2 DEF CloseUiHelper, Own
    <3>4. Terminated(failed)[failed] \in {"none", "exited", "ended"}
      BY <1>0, <2>0, <3>3 DEF Terminated, HelperGone
    <3>5. failed' = failed /\ ctx'[failed'].life = "failed"
      BY <1>0, <1>1, <2>0, <3>1, <3>2 DEF CreateRefused
    <3>6. ContextInv' BY <1>0, <2>0, <2>1, <3>1, <3>2, <3>4, <3>5, OwnChanged
    <3> QED BY <1>0, <2>0, <3>1, <3>6, OthersStay
  <2>3. CASE ~CloseUiHelper(failed)
    <3>1. ctx' = ctx /\ failed' = failed BY <1>1, <2>3 DEF CreateRefused
    <3>2. ctx' = [ctx EXCEPT ![failed] = ctx[failed]] BY <1>0, <3>1
    <3>3. ctx[failed].ui BY <2>3 DEF CloseUiHelper
    <3>4. ContextInv' BY <1>0, <2>0, <2>1, <3>1, <3>2, <3>3, OwnChanged DEF Own
    <3> QED BY <3>1, <3>4, <1>same
  <2> QED BY <2>2, <2>3
<1>2. CASE CreateCleansUp(x)
  <2>0. failed \in Contexts /\ ctx[failed].life = "failed" /\ Own(failed) /\ helper[failed] \in HelperType
    BY <1>0, <1>2 DEF CreateCleansUp, ContextInv
  <2>1. ctx' = [ctx EXCEPT ![failed] = Released] /\ helper' = [helper EXCEPT ![failed] = helper[failed]] /\ failed' = None
    BY <1>0, <1>2 DEF CreateCleansUp
  <2>2. HelperGone(failed) BY <1>2, <2>0 DEF CreateCleansUp, CloseUiHelper, Own
  <2>3. Released \in ContextType /\ Released.life = "gone" /\ ~Owns(Released) /\ ~Released.linked /\ ~Released.job
    BY DEF Released, NewContext, ContextType, Lives, Owns
  <2>4. helper[failed] \in {"none", "exited", "ended"} BY <2>2 DEF HelperGone
  <2>5. ContextInv' BY <1>0, <2>0, <2>1, <2>3, <2>4, OwnChanged
  <2> QED BY <1>0, <2>0, <2>1, <2>5, OthersStay
<1>3. CASE Create(x)
  <2> DEFINE c == [ctx[x] EXCEPT !.life = "making", !.profile = TRUE, !.ui = TRUE]
  <2>1. ctx' = [ctx EXCEPT ![x] = c] /\ helper' = [helper EXCEPT ![x] = "running"] /\ failed' = None
    BY <1>0, <1>3 DEF Create
  <2>2. c \in ContextType /\ c.life = "making" /\ c.ui /\ ~c.linked /\ ~c.job
    BY <1>0, <1>3 DEF Create, Own, ContextType, Lives
  <2>3. "running" \in HelperType BY DEF HelperType
  <2> HIDE DEF c
  <2>4. ContextInv' BY <1>0, <2>1, <2>2, <2>3, OwnChanged
  <2> QED BY <1>0, <1>3, <2>1, <2>4, OthersStay DEF Create
<1>4. CASE CreateRejects(x)
  <2>1. ctx' = [ctx EXCEPT ![x] = Released] /\ helper' = [helper EXCEPT ![x] = helper[x]] /\ failed' = None
    BY <1>0, <1>4 DEF CreateRejects
  <2>2. Released \in ContextType /\ Released.life = "gone" /\ ~Owns(Released) /\ ~Released.linked /\ ~Released.job
    BY DEF Released, NewContext, ContextType, Lives, Owns
  <2>3. helper[x] \in {"none", "exited", "ended"} BY <1>0, <1>4 DEF CreateRejects, Own, Owns, HelperGone
  <2>4. ContextInv' BY <1>0, <2>1, <2>2, <2>3, OwnChanged
  <2> QED BY <1>0, <1>4, <2>1, <2>4, OthersStay DEF CreateRejects
<1>5. ASSUME NEW answer \in {"ready", "refused"}, HelperReplies(x, answer)
      PROVE  ContextInv' /\ \A y \in Contexts : StaysOpen(y)
  <2>1. ctx' = ctx /\ failed' = failed /\ helper' = [helper EXCEPT ![x] = answer] /\ helper[x] = "running"
    BY <1>5 DEF HelperReplies
  <2>2. ctx' = [ctx EXCEPT ![x] = ctx[x]] /\ answer \in HelperType BY <1>0, <2>1 DEF HelperType
  <2>3. ctx[x].ui BY <1>0, <2>1 DEF Own, HelperGone
  <2>4. failed' # None => ctx'[failed'].life = "failed" BY <2>1 DEF ContextInv
  <2>5. ContextInv' BY <1>0, <2>1, <2>2, <2>3, <2>4, OwnChanged DEF Own
  <2> QED BY <2>1, <2>5, <1>same
<1>6. CASE HelperEnds(x)
  <2> DEFINE h == IF helper[x] = "acked" THEN "ended" ELSE "exited"
  <2>1. ctx' = ctx /\ failed' = failed /\ helper' = [helper EXCEPT ![x] = h]
    BY <1>6 DEF HelperEnds
  <2>2. ctx' = [ctx EXCEPT ![x] = ctx[x]] /\ h \in HelperType /\ h \in {"none", "exited", "ended"}
    BY <1>0, <2>1 DEF HelperType
  <2>4. failed' # None => ctx'[failed'].life = "failed" BY <2>1 DEF ContextInv
  <2> HIDE DEF h
  <2>5. ContextInv' BY <1>0, <2>1, <2>2, <2>4, OwnChanged DEF Own
  <2> QED BY <2>1, <2>5, <1>same
<1>7. CASE TakeDesktop(x)
  <2> DEFINE c == [ctx[x] EXCEPT !.desktop = TRUE]
  <2>1. ctx' = [ctx EXCEPT ![x] = c] /\ helper' = [helper EXCEPT ![x] = "acked"] /\ failed' = failed
    BY <1>0, <1>7 DEF TakeDesktop
  <2>2. c \in ContextType /\ c.life = "making" /\ c.ui /\ ~c.linked /\ ~c.job
    BY <1>0, <1>7 DEF TakeDesktop, Own, HelperGone, ContextType, Lives
  <2>3. "acked" \in HelperType BY DEF HelperType
  <2>4. failed' # None => ctx'[failed'].life = "failed"
    BY <1>0, <1>7, <2>1, <2>2 DEF ContextInv, TakeDesktop
  <2> HIDE DEF c
  <2>5. ContextInv' BY <1>0, <2>1, <2>2, <2>3, <2>4, OwnChanged
  <2> QED BY <1>0, <1>7, <2>1, <2>5, OthersStay DEF TakeDesktop
<1>8. CASE Publish(x)
  <2> DEFINE c == [ctx[x] EXCEPT !.life = "open", !.linked = TRUE, !.job = TRUE, !.ui = FALSE]
  <2>1. ctx' = [ctx EXCEPT ![x] = c] /\ helper' = [helper EXCEPT ![x] = helper[x]] /\ failed' = failed
    BY <1>0, <1>8 DEF Publish
  <2>2. c \in ContextType /\ c.life = "open" /\ ~c.ui /\ c.linked /\ c.job
    BY <1>0, <1>8 DEF Publish, ContextType, Lives
  <2>3. helper[x] = "ended" BY <1>8 DEF Publish
  <2>4. failed' # None => ctx'[failed'].life = "failed"
    BY <1>0, <1>8, <2>1 DEF ContextInv, Publish
  <2> HIDE DEF c
  <2>5. ContextInv' BY <1>0, <2>1, <2>2, <2>3, <2>4, OwnChanged
  <2> QED BY <1>0, <1>8, <2>1, <2>5, OthersStay DEF Publish
<1>9. CASE CreateFails(x)
  <2>0. ctx[x].life = "making" /\ ~ctx[x].linked /\ ~ctx[x].job BY <1>0, <1>9 DEF CreateFails, Own
  <2>1. PICK inTime \in {TRUE, HelperGone(x)} :
          \E d \in IF inTime THEN Disposed(ctx[x]) ELSE {ctx[x]} :
            /\ ctx' = [ctx EXCEPT ![x] = Kept(d)]
            /\ failed' = IF d = Released THEN None ELSE x
            /\ helper' = IF inTime /\ ~HelperGone(x) THEN [helper EXCEPT ![x] = "exited"] ELSE Terminated(x)
    BY <1>9 DEF CreateFails
  <2>2. PICK d \in IF inTime THEN Disposed(ctx[x]) ELSE {ctx[x]} :
            /\ ctx' = [ctx EXCEPT ![x] = Kept(d)]
            /\ failed' = IF d = Released THEN None ELSE x
            /\ helper' = IF inTime /\ ~HelperGone(x) THEN [helper EXCEPT ![x] = "exited"] ELSE Terminated(x)
    BY <2>1
  <2> DEFINE h == IF inTime /\ ~HelperGone(x) THEN "exited" ELSE Terminated(x)[x]
  <2>3. helper' = [helper EXCEPT ![x] = h] /\ h \in HelperType
    BY <1>0, <2>2 DEF Terminated, HelperType, HelperGone
  <2>4. CASE inTime
    <3>1. /\ Kept(d) \in ContextType /\ Kept(d).life \in {"failed", "gone"} /\ ~Kept(d).linked /\ ~Kept(d).job
          /\ Kept(d).life = "gone" => d = Released
          /\ d = Released => Kept(d) = Released
          /\ d # Released => ~Kept(d).ui
      BY <1>0, <2>0, <2>2, <2>4, DisposedKeeps
    <3>2. ~Owns(Released) /\ Released.life = "gone" /\ ~Released.ui BY DEF Released, NewContext, Owns
    <3>3. h \in {"none", "exited", "ended"}
      BY <1>0, <2>4 DEF Terminated, HelperGone
    <3>4. failed' \in Contexts \cup {None} /\ (failed' # None => ctx'[failed'].life = "failed")
      BY <1>0, <2>2, <3>1
    <3> HIDE DEF h
    <3>5. ContextInv' BY <1>0, <2>2, <2>3, <3>1, <3>2, <3>3, <3>4, OwnChanged
    <3> QED BY <1>0, <2>0, <2>2, <3>5, OthersStay
  <2>5. CASE ~inTime
    <3>1. d = ctx[x] /\ ~HelperGone(x) BY <2>1, <2>2, <2>5
    <3>2. d # Released BY <2>0, <3>1 DEF Released, NewContext
    <3>3. d.ui BY <1>0, <3>1 DEF Own
    <3>4. Kept(d) \in ContextType /\ Kept(d).life = "failed" /\ ~Kept(d).linked /\ ~Kept(d).job /\ Kept(d).ui
      BY <1>0, <2>0, <3>1, <3>3 DEF Kept, ContextType, Lives
    <3>5. failed' = x /\ ctx'[failed'].life = "failed" BY <1>0, <2>2, <3>2, <3>4
    <3> HIDE DEF h
    <3>6. ContextInv' BY <1>0, <2>2, <2>3, <3>4, <3>5, OwnChanged
    <3> QED BY <1>0, <2>0, <2>2, <3>6, OthersStay
  <2> QED BY <2>4, <2>5
<1>10. CASE StageFails(x) \/ Seal(x)
  <2>1. PICK c \in {[ctx[x] EXCEPT !.sealed = TRUE], [ctx[x] EXCEPT !.poisoned = TRUE]} : ctx' = [ctx EXCEPT ![x] = c]
    BY <1>0, <1>10 DEF StageFails, Seal
  <2>2. c \in ContextType /\ c.life = ctx[x].life /\ c.linked = ctx[x].linked /\ c.job = ctx[x].job
        /\ c.ui = ctx[x].ui /\ Owns(c) = Owns(ctx[x]) /\ (ctx[x].poisoned => c.poisoned)
    BY <1>0, <2>1 DEF ContextType, Owns
  <2>3. helper' = [helper EXCEPT ![x] = helper[x]] /\ failed' = failed BY <1>0, <1>10 DEF StageFails, Seal
  <2>4. ~ctx[x].poisoned BY <1>10 DEF StageFails, Seal
  <2>5. failed' # None => ctx'[failed'].life = "failed"
    BY <1>0, <2>1, <2>2, <2>3 DEF ContextInv
  <2>6. ContextInv' BY <1>0, <2>1, <2>2, <2>3, <2>4, <2>5, OwnChanged DEF Own, HelperGone
  <2> QED BY <1>0, <2>1, <2>2, <2>6 DEF StaysOpen
<1> QED BY <1>1, <1>2, <1>3, <1>4, <1>5, <1>6, <1>7, <1>8, <1>9, <1>10 DEF ContextStep

(* What the steps of a destroy do to a workspace: they poison and unlink   *)
(* it, link it again poisoned, and in the end release it.                  *)
LEMMA DestroyedOwn ==
  ASSUME ContextInv, NEW x \in Contexts, ctx[x].life = "open",
         NEW c \in ContextType, ctx' = [ctx EXCEPT ![x] = c], helper' = helper, failed' = failed,
         \/ c.life = "open" /\ ~c.ui /\ c.poisoned
         \/ c = Released
  PROVE  ContextInv'
<1>1. helper' = [helper EXCEPT ![x] = helper[x]] /\ helper[x] \in HelperType BY DEF ContextInv, ContextTyped
<1>2. HelperGone(x) BY DEF ContextInv, Own
<1>3. failed' \in Contexts \cup {None} /\ (failed' # None => ctx'[failed'].life = "failed")
  BY DEF ContextInv, ContextTyped
<1>4. ~Owns(Released) /\ Released.life = "gone" /\ ~Released.linked /\ ~Released.job BY DEF Released, NewContext, Owns
<1> QED BY <1>1, <1>2, <1>3, <1>4, OwnChanged DEF HelperGone

-----------------------------------------------------------------------------
(* The process records.                                                    *)

(* What the guests, the kernel and the streams may do to a process: it     *)
(* ends, its console finishes closing, its record is handed the read end   *)
(* of the console or is reclaimed.                                         *)
Ending(p) ==
  /\ active'[p] \subseteq active[p]
  /\ IF "root" \in active[p] /\ "root" \notin active'[p] THEN status'[p] \in {"own", "killed"}
                                                       ELSE status'[p] = status[p]
Handed(p) == /\ rec[p].life = "live" /\ (rec[p].console \/ rec[p].closer)
             /\ rec'[p] = [rec[p] EXCEPT !.output = TRUE]
GivenUp(p) == Reclaimable(p) /\ rec'[p] = [rec[p] EXCEPT !.life = "freed", !.closer = FALSE]

LEMMA RecordQuiet ==
  ASSUME ProcInv, NEW p \in Procs, Ending(p), rec'[p] = rec[p] \/ Handed(p) \/ GivenUp(p),
         \/ console'[p] = console[p]
         \/ console[p] = "closing" /\ console'[p] = "closed"
         \/ console[p] \in {"none", "orphan"} /\ console'[p] \in {"none", "orphan"},
         told'[p] = told[p], waiter'[p] = waiter[p]
  PROVE  Record(p)'
<1>0. Record(p) /\ rec[p] \in ProcessType /\ status[p] \in {None, "own", "killed"}
  BY DEF ProcInv, ProcTyped
<1>1. Coded(p)'
  <2>1. rec'[p].reaped = rec[p].reaped /\ rec'[p].handles = rec[p].handles /\ rec'[p].code = rec[p].code
        /\ (rec'[p].life = "none" <=> rec[p].life = "none")
    BY <1>0 DEF Handed, GivenUp, Reclaimable, ProcessType
  <2> QED BY <1>0, <2>1, JailAssumption DEF Ending, Record, Coded
<1>2. Answered(p)'
  <2>1. rec'[p].waited = rec[p].waited BY <1>0 DEF Handed, GivenUp, ProcessType
  <2>2. told[p] = status[p] => told[p] \in {None, status'[p]} BY <1>0 DEF Ending, Record, Coded
  <2>3. told[p] = "invalid" /\ rec[p].life = "live" => ~GivenUp(p)
    BY <1>0 DEF Record, Answered, GivenUp, Reclaimable, Unfound
  <2>4. told[p] = "invalid" /\ rec[p].life = "live" => rec'[p].life = "live"
    BY <1>0, <2>3 DEF Handed, ProcessType
  <2> QED BY <1>0, <2>1, <2>2, <2>4 DEF Record, Answered
<1>3. CASE rec'[p] = rec[p]
  <2>1. rec'[p].life = "none" => Unborn(p)' BY <1>0, <1>3 DEF Ending, Record, Unborn
  <2>2. Owned(p)' BY <1>0, <1>3 DEF Record, Owned
  <2>3. Spent(p)' BY <1>0, <1>3 DEF Record, Spent, Nothing
  <2> QED BY <1>1, <1>2, <2>1, <2>2, <2>3 DEF Record
<1>4. CASE Handed(p)
  <2>1. rec'[p].life = "live" BY <1>0, <1>4 DEF Handed, ProcessType
  <2>2. Owned(p)' BY <1>0, <1>4 DEF Record, Owned, Handed, ProcessType
  <2>3. Spent(p)' BY <1>0, <1>4 DEF Record, Spent, Nothing, Handed, ProcessType
  <2> QED BY <1>1, <1>2, <2>1, <2>2, <2>3 DEF Record
<1>5. CASE GivenUp(p)
  <2>1. rec'[p].life = "freed" /\ ~rec'[p].closer /\ rec'[p].waited BY <1>0, <1>5 DEF GivenUp, Reclaimable, ProcessType
  <2>2. Owned(p)' BY <1>0, <1>5 DEF Record, Owned, GivenUp, Reclaimable, CloserDone, ProcessType
  <2>3. Spent(p)' BY <1>0, <1>5 DEF Record, Spent, Nothing, Coded, GivenUp, Reclaimable, ProcessType
  <2> QED BY <1>1, <1>2, <2>1, <2>2, <2>3 DEF Record
<1> QED BY <1>3, <1>4, <1>5

LEMMA RecordSame ==
  ASSUME ProcInv, NEW p \in Procs, rec'[p] = rec[p], active'[p] = active[p], status'[p] = status[p],
         console'[p] = console[p], told'[p] = told[p], waiter'[p] = waiter[p]
  PROVE  Record(p)'
BY RecordQuiet DEF Ending

(* TerminateJobObject ends every process of a job. *)
LEMMA TerminateEnds ==
  ASSUME ProcTyped, NEW ps, Terminate(ps)
  PROVE  /\ active' \in [Procs -> SUBSET {"root", "child"}] /\ status' \in [Procs -> {None, "own", "killed"}]
         /\ \A p \in Procs : Ending(p) /\ (p \in ps => active'[p] = {})
         /\ \A p \in Procs : p \notin ps => active'[p] = active[p] /\ status'[p] = status[p]
BY DEF ProcTyped, Terminate, Ending

LEMMA HandedOverHands ==
  ASSUME ProcTyped, NEW ss, rec' = HandedOver(ss)
  PROVE  rec' \in [Procs -> ProcessType] /\ \A p \in Procs : rec'[p] = rec[p] \/ Handed(p)
<1>1. ASSUME NEW p \in Procs PROVE HandedOver(ss)[p] \in ProcessType /\ (rec'[p] = rec[p] \/ Handed(p))
  <2>1. rec[p] \in ProcessType BY DEF ProcTyped
  <2>2. [rec[p] EXCEPT !.output = TRUE] \in ProcessType BY <2>1 DEF ProcessType
  <2>3. CASE \E s \in Last(ss) : s[1] = p /\ Hands(s)
    <3>1. rec'[p] = [rec[p] EXCEPT !.output = TRUE] BY <2>3 DEF HandedOver
    <3>2. rec[p].life = "live" /\ (rec[p].console \/ rec[p].closer) BY <2>3 DEF Hands
    <3> QED BY <2>2, <3>1, <3>2 DEF Handed
  <2>4. CASE ~\E s \in Last(ss) : s[1] = p /\ Hands(s)
    <3>1. rec'[p] = rec[p] BY <2>4 DEF HandedOver
    <3> QED BY <2>1, <3>1
  <2> QED BY <2>3, <2>4
<1>2. rec' = [p \in Procs |-> HandedOver(ss)[p]] BY DEF HandedOver
<1> QED BY <1>1, <1>2

LEMMA ReclaimedGives ==
  ASSUME ProcTyped
  PROVE  /\ Reclaimed \in [Procs -> ProcessType]
         /\ \A p \in Procs : Reclaimed[p] = IF Reclaimable(p) THEN [rec[p] EXCEPT !.life = "freed", !.closer = FALSE]
                                              ELSE rec[p]
<1>1. ASSUME NEW p \in Procs
      PROVE  /\ Reclaimed[p] \in ProcessType
             /\ Reclaimed[p] = IF Reclaimable(p) THEN [rec[p] EXCEPT !.life = "freed", !.closer = FALSE] ELSE rec[p]
  <2>1. rec[p] \in ProcessType BY DEF ProcTyped
  <2>2. [rec[p] EXCEPT !.life = "freed", !.closer = FALSE] \in ProcessType BY <2>1 DEF ProcessType
  <2> QED BY <2>1, <2>2 DEF Reclaimed
<1>2. Reclaimed = [p \in Procs |-> Reclaimed[p]] BY DEF Reclaimed
<1> QED BY <1>1, <1>2

(* The guests, the kernel and the threads on streams. *)
Quietly(p) == \/ Exits(p) \/ ChildExits(p) \/ Kernel(p) \/ Kill(p) \/ SpawnFails(p) \/ SpawnReturns(p)

LEMMA GuestKeeps ==
  ASSUME ProcInv, NEW p \in Procs, Quietly(p)
  PROVE  ProcInv'
<1>0. ProcTyped BY DEF ProcInv
<1>1. CASE Exits(p) \/ ChildExits(p)
  <2>1. /\ ProcTyped' /\ rec' = rec /\ console' = console /\ told' = told /\ waiter' = waiter
        /\ \A q \in Procs : Ending(q)
    BY <1>0, <1>1 DEF ProcTyped, Exits, ChildExits, Ending, callVars
  <2> QED BY <2>1, RecordQuiet DEF ProcInv
<1>2. CASE Kernel(p)
  <2>1. /\ ProcTyped' /\ rec' = rec /\ told' = told /\ waiter' = waiter
        /\ active' = active /\ status' = status
        /\ \A q \in Procs : console'[q] = console[q] \/ (console[q] = "closing" /\ console'[q] = "closed")
    BY <1>0, <1>2 DEF ProcTyped, Kernel, Emit, ConsoleCloses, callVars
  <2>2. \A q \in Procs : Ending(q) BY <2>1 DEF Ending
  <2> QED BY <2>1, <2>2, RecordQuiet DEF ProcInv
<1>3. CASE Kill(p)
  <2>1. rec' = rec /\ console' = console /\ told' = told /\ waiter' = waiter /\ Terminate({p})
    BY <1>3 DEF Kill, callVars
  <2>2. \A q \in Procs : Ending(q) BY <1>0, <2>1, TerminateEnds
  <2>3. ProcTyped' BY <1>0, <2>1, TerminateEnds DEF ProcTyped
  <2> QED BY <2>1, <2>2, <2>3, RecordQuiet DEF ProcInv
<1>4. CASE SpawnFails(p)
  <2>0. console[p] \in {"none", "orphan"} BY <1>4 DEF SpawnFails, ProcInv, Record, Unborn
  <2>1. /\ rec' = rec \/ rec' = Reclaimed
        /\ console' = console \/ console' = [console EXCEPT ![p] = "orphan"]
        /\ active' = active /\ status' = status /\ told' = told /\ waiter' = waiter
    BY <1>4 DEF SpawnFails
  <2>2. \A q \in Procs : Ending(q) /\ (rec'[q] = rec[q] \/ GivenUp(q))
    BY <1>0, <2>1, ReclaimedGives DEF Ending, GivenUp
  <2>3. ProcTyped' BY <1>0, <2>1, ReclaimedGives DEF ProcTyped
  <2>4. \A q \in Procs : \/ console'[q] = console[q]
                         \/ console[q] \in {"none", "orphan"} /\ console'[q] \in {"none", "orphan"}
    BY <1>0, <2>0, <2>1 DEF ProcTyped
  <2> QED BY <2>1, <2>2, <2>3, <2>4, RecordQuiet DEF ProcInv
<1>5. CASE SpawnReturns(p)
  <2>1. /\ console' = [console EXCEPT ![p] = IF @ = "orphan" THEN "none" ELSE @]
        /\ rec' = rec /\ active' = active /\ status' = status /\ told' = told /\ waiter' = waiter
    BY <1>5 DEF SpawnReturns
  <2>2. \A q \in Procs : Ending(q) BY <2>1 DEF Ending
  <2>3. ProcTyped' BY <1>0, <2>1 DEF ProcTyped
  <2>4. \A q \in Procs : \/ console'[q] = console[q]
                         \/ console[q] \in {"none", "orphan"} /\ console'[q] \in {"none", "orphan"}
    BY <1>0, <2>1 DEF ProcTyped
  <2> QED BY <2>1, <2>2, <2>3, <2>4, RecordQuiet DEF ProcInv
<1> QED BY <1>1, <1>2, <1>3, <1>4, <1>5 DEF Quietly

LEMMA HandOverKeeps ==
  ASSUME ProcInv, NEW ss, rec' = HandedOver(ss), UNCHANGED <<active, status, console, told, waiter>>
  PROVE  ProcInv'
<1>0. ProcTyped BY DEF ProcInv
<1>1. ProcTyped' /\ \A p \in Procs : Ending(p) BY <1>0, HandedOverHands DEF ProcTyped, Ending
<1>2. \A p \in Procs : rec'[p] = rec[p] \/ Handed(p) BY <1>0, HandedOverHands
<1> QED BY <1>1, <1>2, RecordQuiet DEF ProcInv

LEMMA ProcSame ==
  ASSUME ProcInv, UNCHANGED <<rec, active, status, console, told, waiter>>
  PROVE  ProcInv'
<1>1. ProcTyped' BY DEF ProcInv, ProcTyped
<1> QED BY <1>1, RecordSame DEF ProcInv

LEMMA SpawnKeeps ==
  ASSUME ProcInv, NEW p \in Procs, Spawn(p)
  PROVE  ProcInv'
<1>0. /\ ProcTyped /\ Record(p) /\ Home[p] \in Contexts /\ None \notin Contexts
      /\ rec[p].life = "none" /\ rec[p] = NewProcess
      /\ waiter' = waiter /\ told' = told /\ status' = status
  BY JailAssumption, ContextAssumption DEF ProcInv, Spawn, Record, Unborn, callVars
<1> DEFINE r == [NewProcess EXCEPT !.life = "live", !.home = Home[p], !.handles = TRUE, !.console = p \in Consoles]
<1>1. /\ r.life = "live" /\ r.home = Home[p] /\ r.handles /\ (r.console <=> p \in Consoles)
      /\ ~r.reaped /\ ~r.waited /\ ~r.cleaning /\ ~r.closer /\ ~r.output /\ r \in ProcessType
  <2> DEFINE b == p \in Consoles
             n == [NewProcess EXCEPT !.life = "live", !.home = Home[p], !.handles = TRUE]
  <2>1. b \in BOOLEAN /\ r = [n EXCEPT !.console = b] OBVIOUS
  <2>2. /\ n \in ProcessType /\ n.life = "live" /\ n.home = Home[p] /\ n.handles
        /\ ~n.reaped /\ ~n.waited /\ ~n.cleaning /\ ~n.closer /\ ~n.output
    BY <1>0 DEF NewProcess, ProcessType, Codes
  <2>3. b <=> p \in Consoles OBVIOUS
  <2> HIDE DEF b, n, r
  <2> QED BY <2>1, <2>2, <2>3 DEF ProcessType
<1>2. /\ rec' = [Reclaimed EXCEPT ![p] = r] /\ active' = [active EXCEPT ![p] = {"root", "child"}]
      /\ console' = [console EXCEPT ![p] = IF p \in Consoles THEN "open" ELSE @]
  BY DEF Spawn
<1> HIDE DEF r
<1>3. ProcTyped' BY <1>0, <1>1, <1>2, ReclaimedGives DEF ProcTyped
<1>4. Record(p)'
  <2>1. rec'[p] = r /\ active'[p] = {"root", "child"} /\ console'[p] \in IF p \in Consoles THEN {"open"} ELSE {"none", "orphan"}
    BY <1>0, <1>2, ReclaimedGives DEF ProcTyped, Record, Unborn
  <2>2. status'[p] = None /\ told'[p] = None BY <1>0 DEF Record, Unborn
  <2>3. Coded(p)' BY <1>1, <2>1, <2>2 DEF Coded
  <2>4. Owned(p)' BY <1>1, <2>1, <2>2 DEF Owned
  <2>5. Spent(p)' BY <1>0, <1>1, <2>1, <2>2 DEF Spent
  <2>6. Answered(p)' BY <1>1, <2>1, <2>2 DEF Answered
  <2> QED BY <1>1, <2>1, <2>3, <2>4, <2>5, <2>6 DEF Record
<1>5. ASSUME NEW q \in Procs, q # p PROVE Record(q)'
  <2>1. active'[q] = active[q] /\ console'[q] = console[q] BY <1>0, <1>2, <1>5 DEF ProcTyped
  <2>2. rec'[q] = rec[q] \/ GivenUp(q) BY <1>0, <1>2, <1>5, ReclaimedGives DEF GivenUp
  <2> QED BY <1>0, <2>1, <2>2, RecordQuiet DEF Ending
<1> QED BY <1>3, <1>4, <1>5 DEF ProcInv

(* A step on one record. *)
LEMMA OneRecord ==
  ASSUME ProcInv, NEW p \in Procs, NEW r \in ProcessType, rec' = [rec EXCEPT ![p] = r], ProcTyped', Record(p)',
         \A q \in Procs : q # p => /\ active'[q] = active[q] /\ status'[q] = status[q] /\ console'[q] = console[q]
                                   /\ told'[q] = told[q] /\ waiter'[q] = waiter[q]
  PROVE  ProcInv'
<1>1. \A q \in Procs : q # p => rec'[q] = rec[q] BY DEF ProcInv, ProcTyped
<1>2. \A q \in Procs : q # p => Record(q)' BY <1>1, RecordSame
<1> QED BY <1>2 DEF ProcInv

(* What a wait that does not find the process ended changes. *)
LEMMA AnswerKeeps ==
  ASSUME ProcInv, NEW p \in Procs, WaitEnter(p) \/ WaitRefused(p) \/ WaitNoHang(p) \/ WaitBreaks(p)
  PROVE  ProcInv'
<1>0. /\ ProcTyped /\ Record(p) /\ rec[p] \in ProcessType /\ told[p] \in {None, "own", "killed", "one", "error", "invalid"}
      /\ active' = active /\ status' = status /\ console' = console
  BY DEF ProcInv, ProcTyped, WaitEnter, WaitRefused, WaitNoHang, WaitBreaks, procVars
<1>2. CASE WaitNoHang(p)
  <2>1. rec' = rec /\ told' = told /\ waiter' = [waiter EXCEPT ![p] = "idle"] BY <1>2 DEF WaitNoHang, procVars
  <2>2. ProcTyped' BY <1>0, <2>1 DEF ProcTyped
  <2>3. Record(p)'
    BY <1>0, <2>1 DEF ProcTyped, Record, Unborn, Coded, Owned, Spent, Nothing, Answered
  <2>4. rec' = [rec EXCEPT ![p] = rec[p]] BY <1>0, <2>1 DEF ProcTyped
  <2>5. \A q \in Procs : q # p => waiter'[q] = waiter[q] BY <1>0, <2>1 DEF ProcTyped
  <2> QED BY <1>0, <2>1, <2>2, <2>3, <2>4, <2>5, OneRecord
<1>3. CASE WaitRefused(p)
  <2>1. rec' = rec /\ told' = [told EXCEPT ![p] = IF @ \in Unfound THEN "invalid" ELSE @] /\ waiter' = waiter
        /\ rec[p].life = "live"
    BY <1>3 DEF WaitRefused, procVars, Tell
  <2>2. ProcTyped' BY <1>0, <2>1 DEF ProcTyped
  <2>3. told'[p] = IF told[p] \in Unfound THEN "invalid" ELSE told[p] BY <1>0, <2>1 DEF ProcTyped
  <2>4. Answered(p)' BY <1>0, <2>1, <2>3 DEF Record, Answered, Unfound
  <2>5. Record(p)'
    BY <1>0, <2>1, <2>4 DEF Record, Coded, Owned, Spent, Nothing
  <2>6. rec' = [rec EXCEPT ![p] = rec[p]] BY <1>0, <2>1 DEF ProcTyped
  <2>7. \A q \in Procs : q # p => told'[q] = told[q] BY <1>0, <2>1 DEF ProcTyped
  <2> QED BY <1>0, <2>1, <2>2, <2>5, <2>6, <2>7, OneRecord
<1>4. CASE WaitEnter(p)
  <2>0. rec[p].life # "none" BY <1>4 DEF WaitEnter
  <2>1. CASE rec[p].life = "freed"
    <3>1. told[p] \notin Unfound BY <1>0, <2>1 DEF Record, Spent, Answered
    <3>2. told' = told /\ rec' = rec /\ waiter' = waiter
      BY <1>0, <1>4, <2>1, <3>1 DEF WaitEnter, Tell, ProcTyped
    <3> QED BY <1>0, <3>2, ProcSame
  <2>2. CASE rec[p].life # "freed" /\ rec[p].reaped
    <3> DEFINE r == [rec[p] EXCEPT !.waited = TRUE]
    <3>1. rec' = [rec EXCEPT ![p] = r] /\ waiter' = waiter
          /\ told' = [told EXCEPT ![p] = IF @ \in Unfound THEN rec[p].code ELSE @]
      BY <1>0, <1>4, <2>2 DEF WaitEnter, Tell, ProcTyped
    <3>2. rec[p].code \in {"one", status[p]} /\ rec[p].code # None BY <1>0, <2>2 DEF Record, Coded
    <3>3. r \in ProcessType /\ r.waited BY <1>0 DEF ProcessType
    <3>4. ProcTyped' BY <1>0, <3>1, <3>2, <3>3 DEF ProcTyped
    <3>5. told'[p] = (IF told[p] \in Unfound THEN rec[p].code ELSE told[p]) /\ rec'[p] = r BY <1>0, <3>1 DEF ProcTyped
    <3>6. Answered(p)'
      <4>1. status[p] \in {None, "own", "killed"} BY <1>0 DEF ProcTyped
      <4>2. told'[p] \notin Unfound BY <3>2, <3>5, <4>1 DEF Unfound
      <4> QED BY <1>0, <3>2, <3>5, <4>2 DEF Record, Answered, Unfound
    <3>7. Coded(p)' BY <1>0, <3>5 DEF Record, Coded, ProcessType
    <3>8. Owned(p)' BY <1>0, <3>5 DEF Record, Owned, ProcessType
    <3>9. Spent(p)' BY <1>0, <3>5 DEF Record, Spent, Nothing, ProcessType
    <3>10. rec'[p].life # "none" BY <1>0, <2>0, <3>5 DEF ProcessType
    <3>11. Record(p)' BY <3>6, <3>7, <3>8, <3>9, <3>10 DEF Record
    <3>12. \A q \in Procs : q # p => told'[q] = told[q] BY <1>0, <3>1 DEF ProcTyped
    <3> HIDE DEF r
    <3> QED BY <1>0, <3>1, <3>3, <3>4, <3>11, <3>12, OneRecord
  <2>3. CASE rec[p].life # "freed" /\ ~rec[p].reaped
    <3>1. rec' = rec /\ told' = told /\ waiter' = [waiter EXCEPT ![p] = "wait"] BY <1>4, <2>3 DEF WaitEnter
    <3>2. ProcTyped' BY <1>0, <3>1 DEF ProcTyped
    <3>3. Record(p)' BY <1>0, <2>0, <3>1 DEF Record, Coded, Owned, Spent, Nothing, Answered
    <3>4. rec' = [rec EXCEPT ![p] = rec[p]] BY <1>0, <3>1 DEF ProcTyped
    <3>5. \A q \in Procs : q # p => waiter'[q] = waiter[q] BY <1>0, <3>1 DEF ProcTyped
    <3> QED BY <1>0, <3>1, <3>2, <3>3, <3>4, <3>5, OneRecord
  <2> QED BY <2>1, <2>2, <2>3
<1>5. CASE WaitBreaks(p)
  <2>1. /\ rec' = rec /\ waiter' = [waiter EXCEPT ![p] = "idle"] /\ waiter[p] = "wait"
        /\ told' = [told EXCEPT ![p] = IF @ \in Unfound THEN "error" ELSE @]
    BY <1>5 DEF WaitBreaks, procVars, Tell
  <2>2. ProcTyped' BY <1>0, <2>1 DEF ProcTyped
  <2>3. told'[p] = IF told[p] \in Unfound THEN "error" ELSE told[p] BY <1>0, <2>1 DEF ProcTyped
  <2>4. Answered(p)' BY <1>0, <2>1, <2>3, JailAssumption DEF Record, Answered, Unfound
  <2>5. Record(p)' BY <1>0, <2>1, <2>4 DEF Record, Unborn, Coded, Owned, Spent, Nothing
  <2>6. rec' = [rec EXCEPT ![p] = rec[p]] BY <1>0, <2>1 DEF ProcTyped
  <2>7. \A q \in Procs : q # p => told'[q] = told[q] /\ waiter'[q] = waiter[q] BY <1>0, <2>1 DEF ProcTyped
  <2> QED BY <1>0, <2>1, <2>2, <2>5, <2>6, <2>7, OneRecord
<1> QED BY <1>2, <1>3, <1>4, <1>5

(* A record that is reaped: its handles go, its exit code stays, and its   *)
(* console stays where it is or gets the thread that closes it.            *)
LEMMA ReapedRecord ==
  ASSUME ProcInv, NEW p \in Procs, NEW r \in ProcessType, rec[p].life = "live",
         rec' = [rec EXCEPT ![p] = r], "root" \notin active'[p], status'[p] = status[p], status[p] # None,
         active'[p] \subseteq active[p],
         r.life = "live", r.home = rec[p].home, r.reaped, ~r.handles, r.output = rec[p].output,
         r.code \in {"one", status[p]}, r.code # None,
         \/ r.console = rec[p].console /\ r.closer = rec[p].closer /\ console'[p] = console[p]
         \/ rec[p].console /\ ~r.console /\ r.closer /\ console'[p] = "closing",
         r.cleaning => ~r.console,
         told'[p] \in {None, "error", "one", "invalid", status[p]}, r.waited => told'[p] \notin Unfound
  PROVE  Record(p)'
<1>0. Record(p) /\ rec'[p] = r BY DEF ProcInv, ProcTyped
<1>1. Coded(p)' BY <1>0 DEF Coded
<1>2. Owned(p)' BY <1>0 DEF Record, Owned
<1>3. Spent(p)' BY <1>0 DEF Record, Spent, Nothing
<1>4. Answered(p)' BY <1>0 DEF Answered
<1> QED BY <1>0, <1>1, <1>2, <1>3, <1>4 DEF Record

LEMMA RecordTyped ==
  ASSUME ProcTyped, NEW p \in Procs, NEW r \in ProcessType, rec' = [rec EXCEPT ![p] = r]
  PROVE  rec' \in [Procs -> ProcessType]
BY DEF ProcTyped

LEMMA WaitEndsKeeps ==
  ASSUME ProcInv, NEW p \in Procs, WaitEnds(p)
  PROVE  ProcInv'
<1>0. /\ ProcTyped /\ Record(p) /\ rec[p] \in ProcessType /\ told[p] \in {None, "own", "killed", "one", "error", "invalid"}
      /\ status[p] # None /\ waiter[p] = "wait" /\ status[p] \in {"own", "killed"}
      /\ told[p] \in {None, "error", "one", "invalid", status[p]}
  BY DEF ProcInv, ProcTyped, WaitEnds, Record, Answered
<1>1. /\ waiter' = [waiter EXCEPT ![p] = "idle"]
      /\ told' = [told EXCEPT ![p] = IF @ \in Unfound THEN status[p] ELSE @]
  BY DEF WaitEnds, Tell
<1>2. /\ told'[p] \in {"error", "one", status[p]} /\ told'[p] \notin Unfound /\ waiter'[p] = "idle"
      /\ told' \in [Procs -> {None, "own", "killed", "one", "error", "invalid"}]
      /\ waiter' \in [Procs -> {"idle", "wait"}]
      /\ \A q \in Procs : q # p => told'[q] = told[q] /\ waiter'[q] = waiter[q]
  BY <1>0, <1>1, JailAssumption DEF ProcTyped, Unfound
<1>3. rec[p].life # "none" /\ "root" \notin active[p] BY <1>0 DEF Record, Unborn, Coded
<1>4. CASE rec[p].life = "live" /\ ~rec[p].reaped
  <2> DEFINE closes == rec[p].console /\ \E x \in Contexts : x = rec[p].home /\ ctx[x].linked /\ ~ctx[x].poisoned
             opens == rec[p].console /\ ~closes
             r == [rec[p] EXCEPT !.reaped = TRUE, !.waited = TRUE, !.code = status[p],
                                 !.handles = FALSE, !.closer = closes, !.console = opens]
  <2>1. /\ rec' = [rec EXCEPT ![p].reaped = TRUE, ![p].waited = TRUE, ![p].code = status[p],
                              ![p].handles = FALSE, ![p].closer = closes, ![p].console = @ /\ ~closes]
        /\ Terminate({p}) /\ IF closes THEN CloserStarts(p) ELSE UNCHANGED console
    BY <1>4 DEF WaitEnds
  <2>2. closes \in BOOLEAN /\ opens \in BOOLEAN /\ (closes => rec[p].console) /\ (opens <=> rec[p].console /\ ~closes)
    BY <1>0 DEF ProcessType
  <2>3. rec' = [rec EXCEPT ![p] = r] BY <1>0, <2>1 DEF ProcTyped
  <2> HIDE DEF closes, opens
  <2>4. /\ r \in ProcessType /\ r.life = "live" /\ r.home = rec[p].home /\ r.reaped /\ ~r.handles
        /\ r.output = rec[p].output /\ r.code = status[p] /\ r.console = opens /\ r.closer = closes
        /\ r.cleaning = rec[p].cleaning
    BY <1>0, <1>4, <2>2 DEF ProcessType, Codes
  <2>5. ~rec[p].closer /\ ~rec[p].cleaning BY <1>0, <1>4 DEF Record, Owned
  <2>6. CASE closes
    <3>1. console' = [console EXCEPT ![p] = "closing"] BY <2>1, <2>6 DEF CloserStarts
    <3>2. ProcTyped'
      <4>1. rec' \in [Procs -> ProcessType] BY <1>0, <2>3, <2>4, RecordTyped
      <4>2. active' \in [Procs -> SUBSET {"root", "child"}] /\ status' \in [Procs -> {None, "own", "killed"}]
        BY <1>0, <2>1, TerminateEnds
      <4>3. console' \in [Procs -> {"none", "open", "closing", "closed", "orphan"}] BY <1>0, <3>1 DEF ProcTyped
      <4> QED BY <1>2, <4>1, <4>2, <4>3 DEF ProcTyped
    <3>3. /\ console'[p] = "closing" /\ "root" \notin active'[p] /\ status'[p] = status[p]
          /\ active'[p] \subseteq active[p]
      BY <1>0, <1>3, <2>1, <3>1, TerminateEnds DEF ProcTyped, Ending
    <3>4. Record(p)' BY <1>0, <1>2, <1>4, <2>2, <2>3, <2>4, <2>5, <2>6, <3>3, ReapedRecord
    <3>5. \A q \in Procs : q # p => active'[q] = active[q] /\ status'[q] = status[q] /\ console'[q] = console[q]
      BY <1>0, <2>1, <3>1, TerminateEnds DEF ProcTyped
    <3> HIDE DEF r
    <3> QED BY <1>2, <2>3, <2>4, <3>2, <3>4, <3>5, OneRecord
  <2>7. CASE ~closes
    <3>1. console' = console BY <2>1, <2>7
    <3>2. ProcTyped'
      <4>1. rec' \in [Procs -> ProcessType] BY <1>0, <2>3, <2>4, RecordTyped
      <4>2. active' \in [Procs -> SUBSET {"root", "child"}] /\ status' \in [Procs -> {None, "own", "killed"}]
        BY <1>0, <2>1, TerminateEnds
      <4>3. console' \in [Procs -> {"none", "open", "closing", "closed", "orphan"}] BY <1>0, <3>1 DEF ProcTyped
      <4> QED BY <1>2, <4>1, <4>2, <4>3 DEF ProcTyped
    <3>3. "root" \notin active'[p] /\ status'[p] = status[p] /\ active'[p] \subseteq active[p]
      BY <1>0, <1>3, <2>1, TerminateEnds DEF ProcTyped, Ending
    <3>4. r.console = rec[p].console /\ r.closer = rec[p].closer
      BY <1>0, <2>2, <2>4, <2>5, <2>7 DEF ProcessType
    <3>5. Record(p)' BY <1>0, <1>2, <1>4, <2>3, <2>4, <2>5, <3>1, <3>3, <3>4, ReapedRecord
    <3>6. \A q \in Procs : q # p => active'[q] = active[q] /\ status'[q] = status[q] /\ console'[q] = console[q]
      BY <1>0, <2>1, <3>1, TerminateEnds DEF ProcTyped
    <3> HIDE DEF r
    <3> QED BY <1>2, <2>3, <2>4, <3>2, <3>5, <3>6, OneRecord
  <2> QED BY <2>6, <2>7
<1>5. CASE ~(rec[p].life = "live" /\ ~rec[p].reaped)
  <2> DEFINE w == rec[p].waited \/ rec[p].life = "live"
             r == [rec[p] EXCEPT !.waited = w]
  <2>1. rec' = [rec EXCEPT ![p].waited = (@ \/ rec[p].life = "live")] /\ UNCHANGED <<active, status, console>>
    BY <1>5 DEF WaitEnds
  <2>2. w \in BOOLEAN /\ (rec[p].waited => w) BY <1>0 DEF ProcessType
  <2>3. rec' = [rec EXCEPT ![p] = r] BY <1>0, <2>1 DEF ProcTyped
  <2> HIDE DEF w
  <2>4. /\ r \in ProcessType /\ r.life = rec[p].life /\ r.home = rec[p].home /\ r.reaped = rec[p].reaped
        /\ r.handles = rec[p].handles /\ r.output = rec[p].output /\ r.code = rec[p].code
        /\ r.console = rec[p].console /\ r.closer = rec[p].closer /\ r.cleaning = rec[p].cleaning /\ r.waited = w
    BY <1>0, <2>2 DEF ProcessType
  <2> HIDE DEF r
  <2>5. ProcTyped' BY <1>0, <1>2, <2>1, <2>3, <2>4 DEF ProcTyped
  <2>6. rec'[p] = r BY <1>0, <2>3 DEF ProcTyped
  <2>7. Coded(p)' BY <1>0, <2>1, <2>4, <2>6 DEF Record, Coded
  <2>8. Owned(p)' BY <1>0, <2>1, <2>4, <2>6 DEF Record, Owned
  <2>9. Spent(p)' BY <1>0, <2>2, <2>4, <2>6 DEF Record, Spent, Nothing
  <2>10. Answered(p)' BY <1>0, <1>2, <2>1, <2>6 DEF Answered
  <2>11. Record(p)' BY <1>3, <2>4, <2>6, <2>7, <2>8, <2>9, <2>10 DEF Record
  <2> QED BY <1>2, <2>1, <2>3, <2>4, <2>5, <2>11, OneRecord
<1> QED BY <1>4, <1>5

LEMMA WaitFailsKeeps ==
  ASSUME ProcInv, NEW p \in Procs, WaitFails(p)
  PROVE  ProcInv'
<1>0. /\ ProcTyped /\ Record(p) /\ rec[p] \in ProcessType /\ told[p] \in {None, "own", "killed", "one", "error", "invalid"}
      /\ status[p] # None /\ status[p] \in {"own", "killed"} /\ rec[p].life = "live" /\ ~rec[p].reaped
      /\ told[p] \in {None, "error", "one", "invalid", status[p]} /\ console' = console
  BY DEF ProcInv, ProcTyped, WaitFails, Record, Answered
<1>1. /\ waiter' = [waiter EXCEPT ![p] = "idle"]
      /\ told' = [told EXCEPT ![p] = IF @ \in Unfound THEN "error" ELSE @]
  BY DEF WaitFails, Tell
<1>2. /\ told'[p] \in {"error", "one", status[p]} /\ told'[p] \notin Unfound
      /\ told' \in [Procs -> {None, "own", "killed", "one", "error", "invalid"}]
      /\ waiter' \in [Procs -> {"idle", "wait"}]
      /\ \A q \in Procs : q # p => told'[q] = told[q] /\ waiter'[q] = waiter[q]
  BY <1>0, <1>1, JailAssumption DEF ProcTyped, Unfound
<1>3. "root" \notin active[p] BY <1>0 DEF Record, Coded
<1>4. CASE rec' = [rec EXCEPT ![p].waited = TRUE] /\ UNCHANGED <<active, status>>
  <2> DEFINE r == [rec[p] EXCEPT !.waited = TRUE]
  <2>1. rec' = [rec EXCEPT ![p] = r] BY <1>0, <1>4 DEF ProcTyped
  <2>2. /\ r \in ProcessType /\ r.life = rec[p].life /\ r.home = rec[p].home /\ r.reaped = rec[p].reaped
        /\ r.handles = rec[p].handles /\ r.output = rec[p].output /\ r.code = rec[p].code
        /\ r.console = rec[p].console /\ r.closer = rec[p].closer /\ r.cleaning = rec[p].cleaning
    BY <1>0 DEF ProcessType
  <2> HIDE DEF r
  <2>3. ProcTyped'
    <3>1. rec' \in [Procs -> ProcessType] BY <1>0, <2>1, <2>2, RecordTyped
    <3>2. active' = active /\ status' = status BY <1>4
    <3> QED BY <1>0, <1>2, <3>1, <3>2 DEF ProcTyped
  <2>4. rec'[p] = r BY <1>0, <2>1 DEF ProcTyped
  <2>5. Coded(p)' BY <1>0, <1>4, <2>2, <2>4 DEF Record, Coded
  <2>6. Owned(p)' BY <1>0, <2>2, <2>4 DEF Record, Owned
  <2>7. Spent(p)' BY <1>0, <2>2, <2>4 DEF Record, Spent, Nothing
  <2>8. Answered(p)' BY <1>2, <1>4, <2>4 DEF Answered
  <2>9. Record(p)' BY <1>0, <2>2, <2>4, <2>5, <2>6, <2>7, <2>8 DEF Record
  <2> QED BY <1>0, <1>2, <1>4, <2>1, <2>2, <2>3, <2>9, OneRecord
<1>5. CASE /\ Terminate({p})
           /\ rec' = [rec EXCEPT ![p].reaped = TRUE, ![p].waited = TRUE, ![p].code = status[p], ![p].handles = FALSE]
  <2> DEFINE r == [rec[p] EXCEPT !.reaped = TRUE, !.waited = TRUE, !.code = status[p], !.handles = FALSE]
  <2>1. rec' = [rec EXCEPT ![p] = r] BY <1>0, <1>5 DEF ProcTyped
  <2>2. /\ r \in ProcessType /\ r.life = "live" /\ r.home = rec[p].home /\ r.reaped
        /\ ~r.handles /\ r.output = rec[p].output /\ r.code = status[p]
        /\ r.console = rec[p].console /\ r.closer = rec[p].closer /\ r.cleaning = rec[p].cleaning
    BY <1>0 DEF ProcessType, Codes
  <2> HIDE DEF r
  <2>3. ProcTyped'
    <3>1. rec' \in [Procs -> ProcessType] BY <1>0, <2>1, <2>2, RecordTyped
    <3>2. active' \in [Procs -> SUBSET {"root", "child"}] /\ status' \in [Procs -> {None, "own", "killed"}]
      BY <1>0, <1>5, TerminateEnds
    <3> QED BY <1>0, <1>2, <3>1, <3>2 DEF ProcTyped
  <2>4. "root" \notin active'[p] /\ status'[p] = status[p] /\ active'[p] \subseteq active[p]
    BY <1>0, <1>3, <1>5, TerminateEnds DEF Ending
  <2>5. ~rec[p].cleaning BY <1>0 DEF Record, Owned
  <2>6. Record(p)' BY <1>0, <1>2, <2>1, <2>2, <2>4, <2>5, ReapedRecord
  <2>7. \A q \in Procs : q # p => active'[q] = active[q] /\ status'[q] = status[q] /\ console'[q] = console[q]
    BY <1>0, <1>5, TerminateEnds DEF ProcTyped
  <2> QED BY <1>2, <2>1, <2>2, <2>3, <2>6, <2>7, OneRecord
<1> QED BY <1>4, <1>5 DEF WaitFails

(* A record of the workspace that is destroyed: its process has ended. *)
LEMMA MineEnded ==
  ASSUME ProcInv, TieInv, NEW x \in Contexts, host[x] # "idle", NEW p \in Procs, rec[p].life = "live", rec[p].home = x
  PROVE  /\ Home[p] = x /\ active[p] = {} /\ status[p] # None /\ status[p] \in {"own", "killed"}
         /\ KeptCode(p, TRUE) \in {"one", status[p]} /\ KeptCode(p, TRUE) # None
         /\ ~rec[p].reaped => KeptCode(p, FALSE) = "one"
<1>1. Home[p] = x BY ContextAssumption DEF ProcInv, Record, Spent
<1>2. active[p] = {} BY <1>1 DEF TieInv, HostTied
<1>3. status[p] # None /\ status[p] \in {"own", "killed"} BY <1>2 DEF ProcInv, ProcTyped, Record, Coded
<1> QED BY <1>1, <1>2, <1>3 DEF KeptCode, ProcInv, Record, Coded

LEMMA TakeRecordKeeps ==
  ASSUME ProcInv, TieInv, NEW x \in Contexts, TakeRecord(x)
  PROVE  ProcInv'
<1>0. /\ ProcTyped /\ active' = active /\ status' = status /\ told' = told /\ waiter' = waiter /\ host[x] # "idle"
  BY DEF ProcInv, TakeRecord, callVars
<1>1. PICK p \in Mine(x), known \in BOOLEAN :
        /\ IF known THEN UNCHANGED faults ELSE Fault /\ ~rec[p].reaped
        /\ rec' = [rec EXCEPT ![p].reaped = TRUE, ![p].code = KeptCode(p, known),
                              ![p].handles = FALSE, ![p].closer = @ \/ rec[p].console,
                              ![p].console = FALSE, ![p].cleaning = TRUE]
        /\ IF rec[p].console THEN CloserStarts(p) ELSE UNCHANGED console
        /\ hand' = [hand EXCEPT ![x] = p]
  BY ZenonT(60) DEF TakeRecord
<1>2. p \in Procs /\ rec[p].life = "live" /\ rec[p].home = x /\ rec[p] \in ProcessType /\ Record(p)
  BY DEF Mine, ProcInv, ProcTyped
<1>3. /\ active[p] = {} /\ status[p] # None /\ status[p] \in {"own", "killed"}
      /\ KeptCode(p, TRUE) \in {"one", status[p]} /\ KeptCode(p, TRUE) # None
      /\ ~rec[p].reaped => KeptCode(p, FALSE) = "one"
  BY <1>0, <1>2, MineEnded
<1>4. KeptCode(p, known) \in {"one", status[p]} /\ KeptCode(p, known) # None
  <2>1. known \/ ~rec[p].reaped BY <1>1
  <2>2. known = TRUE \/ known = FALSE OBVIOUS
  <2> QED BY <1>3, <2>1, <2>2, JailAssumption
<1> DEFINE b == rec[p].closer \/ rec[p].console
           k == KeptCode(p, known)
           r == [rec[p] EXCEPT !.reaped = TRUE, !.code = k, !.handles = FALSE, !.closer = b,
                               !.console = FALSE, !.cleaning = TRUE]
<1>5. rec' = [rec EXCEPT ![p] = r] BY <1>0, <1>1, <1>2 DEF ProcTyped
<1>6. b \in BOOLEAN /\ (b <=> rec[p].closer \/ rec[p].console) BY <1>2 DEF ProcessType
<1>7. k \in {"one", status[p]} /\ k # None BY <1>4
<1> HIDE DEF b, k
<1>8. /\ r \in ProcessType /\ r.life = "live" /\ r.home = rec[p].home /\ r.reaped
      /\ ~r.handles /\ r.output = rec[p].output /\ r.code = k /\ r.waited = rec[p].waited
      /\ ~r.console /\ r.closer = b /\ r.cleaning
  BY <1>2, <1>3, <1>6, <1>7 DEF ProcessType, Codes
<1>9. rec' \in [Procs -> ProcessType] BY <1>0, <1>2, <1>5, <1>8, RecordTyped
<1>10. told'[p] \in {None, "error", "one", "invalid", status[p]} /\ (r.waited => told'[p] \notin Unfound)
  BY <1>0, <1>2, <1>8 DEF Record, Answered
<1> HIDE DEF r
<1>11. CASE rec[p].console
  <2>1. console' = [console EXCEPT ![p] = "closing"] BY <1>1, <1>11 DEF CloserStarts
  <2>2. console'[p] = "closing" BY <1>0, <1>2, <2>1 DEF ProcTyped
  <2>3. Record(p)' BY <1>0, <1>2, <1>3, <1>5, <1>6, <1>7, <1>8, <1>10, <1>11, <2>2, ReapedRecord
  <2>4. ProcTyped' BY <1>0, <1>9, <2>1 DEF ProcTyped
  <2>5. \A q \in Procs : q # p => console'[q] = console[q] BY <1>0, <2>1 DEF ProcTyped
  <2> QED BY <1>0, <1>2, <1>5, <1>8, <2>3, <2>4, <2>5, OneRecord
<1>12. CASE ~rec[p].console
  <2>1. console' = console BY <1>1, <1>12
  <2>2. r.closer = rec[p].closer /\ r.console = rec[p].console BY <1>2, <1>6, <1>8, <1>12 DEF ProcessType
  <2>3. Record(p)' BY <1>0, <1>2, <1>3, <1>5, <1>7, <1>8, <1>10, <2>1, <2>2, ReapedRecord
  <2>4. ProcTyped' BY <1>0, <1>9, <2>1 DEF ProcTyped
  <2> QED BY <1>0, <1>2, <1>5, <1>8, <2>1, <2>3, <2>4, OneRecord
<1> QED BY <1>11, <1>12

LEMMA TakeRecordFailsKeeps ==
  ASSUME ProcInv, TieInv, NEW x \in Contexts, TakeRecordFails(x)
  PROVE  ProcInv'
<1>0. /\ ProcTyped /\ active' = active /\ status' = status /\ told' = told /\ waiter' = waiter
      /\ console' = console /\ host[x] # "idle"
  BY DEF ProcInv, TakeRecordFails, callVars
<1>1. PICK p \in Mine(x) :
        /\ rec[p].console
        /\ rec' = [rec EXCEPT ![p].reaped = TRUE, ![p].code = KeptCode(p, TRUE), ![p].handles = FALSE]
  BY DEF TakeRecordFails
<1>2. p \in Procs /\ rec[p].life = "live" /\ rec[p].home = x /\ rec[p] \in ProcessType /\ Record(p)
  BY DEF Mine, ProcInv, ProcTyped
<1>3. /\ active[p] = {} /\ status[p] # None /\ status[p] \in {"own", "killed"}
      /\ KeptCode(p, TRUE) \in {"one", status[p]} /\ KeptCode(p, TRUE) # None
  BY <1>0, <1>2, MineEnded
<1> DEFINE k == KeptCode(p, TRUE)
           r == [rec[p] EXCEPT !.reaped = TRUE, !.code = k, !.handles = FALSE]
<1>4. rec' = [rec EXCEPT ![p] = r] BY <1>0, <1>1, <1>2 DEF ProcTyped
<1>5. k \in {"one", status[p]} /\ k # None BY <1>3
<1> HIDE DEF k
<1>6. /\ r \in ProcessType /\ r.life = "live" /\ r.home = rec[p].home /\ r.reaped
      /\ ~r.handles /\ r.output = rec[p].output /\ r.code = k /\ r.waited = rec[p].waited
      /\ r.console = rec[p].console /\ r.closer = rec[p].closer /\ r.cleaning = rec[p].cleaning
  BY <1>2, <1>3, <1>5 DEF ProcessType, Codes
<1> HIDE DEF r
<1>7. rec' \in [Procs -> ProcessType] BY <1>0, <1>2, <1>4, <1>6, RecordTyped
<1>8. told'[p] \in {None, "error", "one", "invalid", status[p]} /\ (r.waited => told'[p] \notin Unfound)
  BY <1>0, <1>2, <1>6 DEF Record, Answered
<1>9. ~r.cleaning BY <1>1, <1>2, <1>6 DEF Record, Owned
<1>10. Record(p)' BY <1>0, <1>2, <1>3, <1>4, <1>5, <1>6, <1>8, <1>9, ReapedRecord
<1>11. ProcTyped' BY <1>0, <1>7 DEF ProcTyped
<1> QED BY <1>0, <1>2, <1>4, <1>6, <1>10, <1>11, OneRecord

(* The record a destroy drains. *)
LEMMA DrainKeeps ==
  ASSUME ProcInv, TieInv, NEW x \in Contexts, Drained(x) \/ DrainFails(x)
  PROVE  ProcInv'
<1>0. /\ ProcTyped /\ UNCHANGED <<active, status, console, told, waiter>> /\ host[x] = "drain"
  BY DEF ProcInv, Drained, DrainFails, callVars
<1>1. PICK h \in Procs : h = hand[x] /\ rec[h].life = "live" /\ rec[h].cleaning /\ rec[h].home = x
  BY <1>0 DEF TieInv, HostTied
<1>2. Record(h) /\ rec[h] \in ProcessType BY <1>1 DEF ProcInv, ProcTyped
<1>3. ~rec[h].console /\ rec[h].reaped /\ ~rec[h].handles BY <1>1, <1>2 DEF Record, Owned, Coded
<1> DEFINE kept == [rec[h] EXCEPT !.cleaning = FALSE]
           done == [rec[h] EXCEPT !.cleaning = FALSE, !.output = FALSE, !.closer = FALSE, !.home = None]
<1>4. CASE Drained(x)
  <2>1. rec' = [rec EXCEPT ![h] = done] /\ CloserDone(h) BY <1>0, <1>1, <1>4 DEF Drained, ProcTyped
  <2>2. /\ done \in ProcessType /\ done.life = "live" /\ done.home = None /\ done.reaped /\ ~done.cleaning
        /\ ~done.handles /\ ~done.console /\ ~done.closer /\ ~done.output
        /\ done.code = rec[h].code /\ done.waited = rec[h].waited
    BY <1>1, <1>2, <1>3 DEF ProcessType
  <2> HIDE DEF done
  <2>3. rec'[h] = done BY <1>0, <1>1, <2>1 DEF ProcTyped
  <2>4. ProcTyped'
    <3>1. rec' \in [Procs -> ProcessType] BY <1>0, <1>1, <2>1, <2>2, RecordTyped
    <3> QED BY <1>0, <3>1 DEF ProcTyped
  <2>5. Coded(h)' BY <1>0, <1>1, <1>2, <1>3, <2>2, <2>3 DEF Record, Coded
  <2>6. Owned(h)' BY <1>0, <1>2, <1>3, <2>1, <2>2, <2>3 DEF Record, Owned, CloserDone
  <2>7. Spent(h)' BY <2>2, <2>3 DEF Spent, Nothing
  <2>8. Answered(h)' BY <1>0, <1>2, <2>2, <2>3 DEF Record, Answered
  <2>9. Record(h)' BY <2>2, <2>3, <2>5, <2>6, <2>7, <2>8 DEF Record
  <2> QED BY <1>0, <1>1, <2>1, <2>2, <2>4, <2>9, OneRecord
<1>5. CASE DrainFails(x)
  <2>1. rec' = [rec EXCEPT ![h] = kept] BY <1>0, <1>1, <1>5 DEF DrainFails, ProcTyped
  <2>2. /\ kept \in ProcessType /\ kept.life = "live" /\ kept.home = x /\ kept.reaped /\ ~kept.cleaning
        /\ ~kept.handles /\ ~kept.console /\ kept.closer = rec[h].closer /\ kept.output = rec[h].output
        /\ kept.code = rec[h].code /\ kept.waited = rec[h].waited
    BY <1>1, <1>2, <1>3 DEF ProcessType
  <2> HIDE DEF kept
  <2>3. rec'[h] = kept BY <1>0, <1>1, <2>1 DEF ProcTyped
  <2>4. ProcTyped'
    <3>1. rec' \in [Procs -> ProcessType] BY <1>0, <1>1, <2>1, <2>2, RecordTyped
    <3> QED BY <1>0, <3>1 DEF ProcTyped
  <2>5. Coded(h)' BY <1>0, <1>1, <1>2, <1>3, <2>2, <2>3 DEF Record, Coded
  <2>6. Owned(h)' BY <1>0, <1>2, <1>3, <2>2, <2>3 DEF Record, Owned
  <2>7. Spent(h)' BY <1>1, <1>2, <2>2, <2>3, ContextAssumption DEF Record, Spent, Nothing
  <2>8. Answered(h)' BY <1>0, <1>2, <2>2, <2>3 DEF Record, Answered
  <2>9. Record(h)' BY <2>2, <2>3, <2>5, <2>6, <2>7, <2>8 DEF Record
  <2> QED BY <1>0, <1>1, <2>1, <2>2, <2>4, <2>9, OneRecord
<1> QED BY <1>4, <1>5

(* A destroy begins: the processes end, the streams hand over. *)
LEMMA DestroyEnds ==
  ASSUME ProcInv, NEW x \in Contexts, Destroy(x)
  PROVE  ProcInv' /\ \A p \in Procs : Ending(p)
<1>0. ProcTyped /\ UNCHANGED <<console, told, waiter>> BY DEF ProcInv, Destroy, callVars
<1>1. \A p \in Procs : rec'[p] = rec[p] \/ Handed(p)
  BY <1>0, HandedOverHands DEF Destroy
<1>2. rec' \in [Procs -> ProcessType] BY <1>0, HandedOverHands DEF Destroy
<1>3. CASE ctx[x].job
  <2>1. Terminate({p \in Procs : Home[p] = x}) BY <1>3 DEF Destroy
  <2>2. \A p \in Procs : Ending(p) BY <1>0, <2>1, TerminateEnds
  <2>3. active' \in [Procs -> SUBSET {"root", "child"}] /\ status' \in [Procs -> {None, "own", "killed"}]
    BY <1>0, <2>1, TerminateEnds
  <2>4. ProcTyped' BY <1>0, <1>2, <2>3 DEF ProcTyped
  <2> QED BY <1>0, <1>1, <2>2, <2>4, RecordQuiet DEF ProcInv
<1>4. CASE ~ctx[x].job
  <2>1. UNCHANGED <<active, status>> BY <1>4 DEF Destroy
  <2>2. \A p \in Procs : Ending(p) BY <2>1 DEF Ending
  <2>3. ProcTyped' BY <1>0, <1>2, <2>1 DEF ProcTyped
  <2> QED BY <1>0, <1>1, <2>2, <2>3, RecordQuiet DEF ProcInv
<1> QED BY <1>3, <1>4

-----------------------------------------------------------------------------
(* The references of the streams.                                          *)

LEMMA StreamSame ==
  ASSUME StreamInv, UNCHANGED <<str, thr>>
  PROVE  StreamInv'
BY DEF StreamInv, StreamTyped, Counted, Listed, Users, Bulks

LEMMA Countable ==
  ASSUME NEW s
  PROVE  /\ IsFiniteSet(Users(s)) /\ Cardinality(Users(s)) \in Nat /\ (Cardinality(Users(s)) = 0 <=> Users(s) = {})
         /\ IsFiniteSet(Bulks(s)) /\ Cardinality(Bulks(s)) \in Nat /\ (Cardinality(Bulks(s)) = 0 <=> Bulks(s) = {})
<1>1. Users(s) \subseteq Threads /\ Bulks(s) \subseteq Threads BY DEF Users, Bulks
<1>2. IsFiniteSet(Users(s)) /\ IsFiniteSet(Bulks(s)) BY <1>1, JailAssumption, FS_Subset
<1> QED BY <1>2, FS_CardinalityType, FS_EmptySet

(* A thread that moves on within a call: no stream gains or loses a        *)
(* reference.                                                              *)
LEMMA MoveKeeps ==
  ASSUME StreamInv, NEW t \in Threads, thr[t].pc \notin {"idle", "bulk"},
         NEW pc \in Calls \ {"idle", "bulk"}, thr' = [thr EXCEPT ![t].pc = pc],
         str' \in [Streams -> StreamType],
         \A s \in Streams : str'[s].refs = str[s].refs /\ str'[s].linked = str[s].linked /\ str'[s].life = str[s].life
  PROVE  StreamInv'
<1>1. thr \in [Threads -> ThreadType] BY DEF StreamInv, StreamTyped
<1>2. /\ thr' \in [Threads -> ThreadType] /\ thr'[t].pc = pc /\ thr'[t].s = thr[t].s
      /\ \A u \in Threads \ {t} : thr'[u] = thr[u]
  BY <1>1 DEF ThreadType
<1>3. ASSUME NEW s \in Streams PROVE Counted(s)'
  <2>1. Users(s)' = Users(s) /\ Bulks(s)' = Bulks(s) BY <1>2 DEF Users, Bulks
  <2> QED BY <2>1 DEF StreamInv, Counted, Listed
<1>4. ASSUME NEW u \in Threads, thr'[u].pc # "idle" PROVE thr'[u].s \in Streams
  BY <1>2, <1>4 DEF StreamInv
<1> QED BY <1>2, <1>3, <1>4 DEF StreamInv, StreamTyped

(* A thread in a call counts for its stream, which is live. *)
LEMMA UserLive ==
  ASSUME StreamInv, NEW t \in Threads, thr[t].pc # "idle"
  PROVE  /\ thr[t].s \in Streams /\ t \in Users(thr[t].s) /\ str[thr[t].s].life = "live"
         /\ str[thr[t].s].refs \in Int /\ str[thr[t].s] \in StreamType
         /\ str[thr[t].s].refs >= 1 + Listed(thr[t].s) + Cardinality(Bulks(thr[t].s))
<1> DEFINE s == thr[t].s
<1>1. s \in Streams /\ t \in Users(s) BY DEF StreamInv, Users
<1>2. str[s] \in StreamType /\ str[s].refs \in Int BY <1>1 DEF StreamInv, StreamTyped, StreamType
<1>3. Cardinality(Users(s)) \in Nat /\ Cardinality(Users(s)) # 0 /\ Cardinality(Bulks(s)) \in Nat
  BY <1>1, Countable
<1>4. Listed(s) \in {0, 1} BY DEF Listed
<1>5. Counted(s) BY <1>1 DEF StreamInv
<1> HIDE DEF s
<1>6. str[s].refs >= 1 + Listed(s) + Cardinality(Bulks(s)) BY <1>2, <1>3, <1>4, <1>5 DEF Counted
<1>7. str[s].life = "live" BY <1>2, <1>3, <1>4, <1>5, <1>6 DEF Counted
<1> QED BY <1>1, <1>2, <1>6, <1>7 DEF s

(* The steps of a call that take or drop no reference. *)
LEMMA CallMoves ==
  ASSUME StreamInv, NEW t \in Threads,
         \/ TakeReader(t) \/ Submit(t) \/ PeekCompletes(t) \/ PeekEnds(t) \/ TakeByte(t) \/ WriteCancelled(t) \/ Written(t)
  PROVE  StreamInv' /\ \A s \in Streams : str'[s].life = str[s].life
<1> DEFINE s == thr[t].s
<1>0. /\ thr[t].pc \notin {"idle", "bulk"} /\ str \in [Streams -> StreamType]
  BY DEF TakeReader, Submit, PeekCompletes, PeekEnds, TakeByte, WriteCancelled, Written, At, StreamInv, StreamTyped
<1>1. s \in Streams /\ str[s] \in StreamType BY <1>0, UserLive
<1>2. \E pc \in Calls \ {"idle", "bulk"} : thr' = [thr EXCEPT ![t].pc = pc]
  <2>1. {"ready", "leave", "got", "peek", "more"} \subseteq Calls \ {"idle", "bulk"} BY DEF Calls
  <2>2. \E pc \in {"ready", "leave", "got", "peek", "more"} : thr' = [thr EXCEPT ![t].pc = pc]
    BY DEF TakeReader, Submit, PeekCompletes, PeekEnds, TakeByte, WriteCancelled, Written, Goto
  <2> QED BY <2>1, <2>2
<1>3. str' = str \/ \E c \in StreamType : /\ str' = [str EXCEPT ![s] = c]
                                         /\ c.refs = str[s].refs /\ c.linked = str[s].linked /\ c.life = str[s].life
  <2>1. CASE TakeReader(t) \/ PeekEnds(t) \/ WriteCancelled(t) \/ Written(t)
    BY <2>1 DEF TakeReader, PeekEnds, WriteCancelled, Written
  <2>2. CASE Submit(t)
    <3>1. str' = str \/ str' = [str EXCEPT ![s].pending = TRUE] BY <2>2 DEF Submit
    <3> DEFINE c == [str[s] EXCEPT !.pending = TRUE]
    <3>2. c \in StreamType /\ c.refs = str[s].refs /\ c.linked = str[s].linked /\ c.life = str[s].life
      BY <1>1 DEF StreamType
    <3>3. str' = str \/ str' = [str EXCEPT ![s] = c] BY <1>0, <1>1, <3>1
    <3> QED BY <3>2, <3>3
  <2>3. CASE PeekCompletes(t)
    <3> DEFINE more == pipe[s[1]] > 0
               none == pipe[s[1]] = 0
               c == [str[s] EXCEPT !.pending = FALSE, !.cached = more, !.eof = none]
    <3>1. str' = [str EXCEPT ![s].pending = FALSE, ![s].cached = more, ![s].eof = none] BY <2>3 DEF PeekCompletes
    <3>2. more \in BOOLEAN /\ none \in BOOLEAN OBVIOUS
    <3> HIDE DEF more, none
    <3>3. c \in StreamType /\ c.refs = str[s].refs /\ c.linked = str[s].linked /\ c.life = str[s].life
      BY <1>1, <3>2 DEF StreamType
    <3>4. str' = [str EXCEPT ![s] = c] BY <1>0, <1>1, <3>1
    <3> QED BY <3>3, <3>4
  <2>4. CASE TakeByte(t)
    <3> DEFINE took == thr[t].op = "read" /\ str[s].cached
               keeps == str[s].cached /\ ~took
               c == [str[s] EXCEPT !.cached = keeps]
    <3>1. str' = [str EXCEPT ![s].cached = @ /\ ~took] BY <2>4 DEF TakeByte
    <3>2. keeps \in BOOLEAN OBVIOUS
    <3>3. str' = [str EXCEPT ![s] = c] BY <1>0, <1>1, <3>1
    <3> HIDE DEF keeps
    <3>4. c \in StreamType /\ c.refs = str[s].refs /\ c.linked = str[s].linked /\ c.life = str[s].life
      BY <1>1, <3>2 DEF StreamType
    <3> QED BY <3>3, <3>4
  <2> QED BY <2>1, <2>2, <2>3, <2>4
<1> HIDE DEF s
<1>4. /\ str' \in [Streams -> StreamType]
      /\ \A q \in Streams : str'[q].refs = str[q].refs /\ str'[q].linked = str[q].linked /\ str'[q].life = str[q].life
  BY <1>0, <1>1, <1>3
<1> QED BY <1>0, <1>2, <1>4, MoveKeeps

(* stream_get, and the second one of a read that goes on. *)
LEMMA EnterKeeps ==
  ASSUME StreamInv, NEW t \in Threads, NEW s \in Streams, NEW op \in {"read", "poll", "write"}, Enter(t, s, op)
  PROVE  StreamInv' /\ \A q \in Streams : str'[q].life = str[q].life
<1> DEFINE c == [str[s] EXCEPT !.refs = @ + 1]
           pc == IF op = "write" THEN "write" ELSE "lock"
           m == [pc |-> pc, s |-> s, op |-> op]
<1>0. /\ str \in [Streams -> StreamType] /\ thr \in [Threads -> ThreadType] /\ str[s] \in StreamType
      /\ str[s].refs \in Int /\ thr[t].pc = "idle" /\ str[s].linked /\ Counted(s)
  BY DEF StreamInv, StreamTyped, StreamType, Enter, At
<1>1. str' = [str EXCEPT ![s] = c] /\ thr' = [thr EXCEPT ![t] = m]
  BY <1>0 DEF Enter
<1>2. c \in StreamType /\ c.refs = str[s].refs + 1 /\ c.linked /\ c.life = str[s].life
  BY <1>0 DEF StreamType
<1>3. m \in ThreadType /\ m.pc \notin {"idle", "bulk"} /\ m.s = s BY DEF ThreadType, Calls
<1> HIDE DEF c, m
<1>4. StreamTyped' BY <1>0, <1>1, <1>2, <1>3 DEF StreamTyped
<1>5. thr'[t] = m /\ str'[s] = c /\ (\A u \in Threads \ {t} : thr'[u] = thr[u])
      /\ (\A q \in Streams \ {s} : str'[q] = str[q])
  BY <1>0, <1>1
<1>6. Counted(s)'
  <2>1. t \notin Users(s) /\ Users(s)' = Users(s) \cup {t} /\ Bulks(s)' = Bulks(s)
    BY <1>0, <1>3, <1>5 DEF Users, Bulks
  <2>2. Cardinality(Users(s)') = Cardinality(Users(s)) + 1 BY <2>1, Countable, FS_AddElement
  <2>3. Cardinality(Users(s)) \in Nat /\ Cardinality(Bulks(s)) \in Nat BY Countable
  <2>4. Listed(s)' = 1 /\ Listed(s) = 1 BY <1>0, <1>2, <1>5 DEF Listed
  <2>5. str'[s].refs = Listed(s)' + Cardinality(Users(s)') + Cardinality(Bulks(s)') /\ str'[s].refs > 0
    BY <1>0, <1>2, <1>5, <2>1, <2>2, <2>3, <2>4 DEF Counted
  <2>6. str[s].refs > 0 BY <1>0, <2>3, <2>4 DEF Counted
  <2> QED BY <1>0, <1>2, <1>5, <2>5, <2>6 DEF Counted
<1>7. ASSUME NEW q \in Streams, q # s PROVE Counted(q)'
  <2>1. Users(q)' = Users(q) /\ Bulks(q)' = Bulks(q) BY <1>0, <1>3, <1>5, <1>7 DEF Users, Bulks
  <2> QED BY <1>5, <1>7, <2>1 DEF StreamInv, Counted, Listed
<1>8. ASSUME NEW u \in Threads, thr'[u].pc # "idle" PROVE thr'[u].s \in Streams
  BY <1>3, <1>5, <1>8 DEF StreamInv
<1> QED BY <1>2, <1>4, <1>5, <1>6, <1>7, <1>8 DEF StreamInv

LEMMA EnterMoreKeeps ==
  ASSUME StreamInv, NEW t \in Threads, EnterMore(t)
  PROVE  StreamInv' /\ \A q \in Streams : str'[q].life = str[q].life
<1>a. thr[t].pc = "more" BY DEF EnterMore, At
<1>b. PICK s \in Streams : s = thr[t].s BY <1>a, UserLive
<1>0. /\ str \in [Streams -> StreamType] /\ thr \in [Threads -> ThreadType] /\ str[s] \in StreamType
      /\ str[s].refs \in Int /\ Counted(s) /\ str[s].refs >= 1 /\ t \in Users(s)
  <2>1. Listed(s) \in {0, 1} /\ Cardinality(Bulks(s)) \in Nat BY Countable DEF Listed
  <2> QED BY <1>a, <1>b, <2>1, UserLive DEF StreamInv, StreamTyped
<1>1. CASE str[s].linked
  <2> DEFINE c == [str[s] EXCEPT !.refs = @ + 1]
             m == [thr[t] EXCEPT !.pc = "bulk"]
  <2>1. str' = [str EXCEPT ![s] = c] /\ thr' = [thr EXCEPT ![t] = m]
    BY <1>0, <1>1, <1>b DEF EnterMore, Goto
  <2>2. c \in StreamType /\ c.refs = str[s].refs + 1 /\ c.linked = str[s].linked /\ c.life = str[s].life
    BY <1>0 DEF StreamType
  <2>3. m \in ThreadType /\ m.pc = "bulk" /\ m.s = s BY <1>0, <1>b DEF ThreadType, Calls
  <2> HIDE DEF c, m
  <2>4. StreamTyped' BY <1>0, <2>1, <2>2, <2>3 DEF StreamTyped
  <2>5. thr'[t] = m /\ str'[s] = c /\ (\A u \in Threads \ {t} : thr'[u] = thr[u])
        /\ (\A q \in Streams \ {s} : str'[q] = str[q])
    BY <1>0, <2>1
  <2>6. Counted(s)'
    <3>1. t \notin Bulks(s) /\ Users(s)' = Users(s) /\ Bulks(s)' = Bulks(s) \cup {t}
      BY <1>0, <1>a, <1>b, <2>3, <2>5 DEF Users, Bulks
    <3>2. Cardinality(Bulks(s)') = Cardinality(Bulks(s)) + 1 BY <3>1, Countable, FS_AddElement
    <3>3. Cardinality(Users(s)) \in Nat /\ Cardinality(Bulks(s)) \in Nat BY Countable
    <3>4. Listed(s)' = Listed(s) /\ Listed(s) \in {0, 1} BY <2>2, <2>5 DEF Listed
    <3>5. str'[s].refs = Listed(s)' + Cardinality(Users(s)') + Cardinality(Bulks(s)') /\ str'[s].refs > 0
      BY <1>0, <2>2, <2>5, <3>1, <3>2, <3>3, <3>4 DEF Counted
    <3> QED BY <1>0, <2>2, <2>5, <3>5 DEF Counted
  <2>7. ASSUME NEW q \in Streams, q # s PROVE Counted(q)'
    <3>1. Users(q)' = Users(q) /\ Bulks(q)' = Bulks(q) BY <1>a, <1>b, <2>3, <2>5, <2>7 DEF Users, Bulks
    <3> QED BY <2>5, <2>7, <3>1 DEF StreamInv, Counted, Listed
  <2>8. ASSUME NEW u \in Threads, thr'[u].pc # "idle" PROVE thr'[u].s \in Streams
    BY <2>3, <2>5, <2>8 DEF StreamInv
  <2> QED BY <2>2, <2>4, <2>5, <2>6, <2>7, <2>8 DEF StreamInv
<1>2. CASE ~str[s].linked
  <2>1. str' = str /\ thr' = [thr EXCEPT ![t].pc = "leave"] BY <1>b, <1>2 DEF EnterMore, Goto
  <2>2. "leave" \in Calls \ {"idle", "bulk"} BY DEF Calls
  <2> QED BY <1>0, <1>a, <2>1, <2>2, MoveKeeps
<1> QED BY <1>1, <1>2

(* What dropping references does to each stream. *)
LEMMA DroppedAt ==
  ASSUME StreamTyped, NEW ss, NEW s \in Streams
  PROVE  /\ Dropped(ss)[s] \in StreamType /\ Dropped(ss)[s].linked = str[s].linked
         /\ s \notin ss => Dropped(ss)[s] = str[s]
         /\ s \in ss => /\ Dropped(ss)[s].refs = str[s].refs - 1
                       /\ Dropped(ss)[s].life = IF str[s].refs = 1 THEN "freed" ELSE str[s].life
<1>0. str[s] \in StreamType /\ str[s].refs \in Int BY DEF StreamTyped, StreamType
<1>1. CASE s \in Last(ss)
  <2>1. s \in ss /\ str[s].refs = 1 BY <1>1 DEF Last
  <2> DEFINE zero == 0
             c == [str[s] EXCEPT !.refs = zero, !.life = "freed", !.pending = FALSE]
  <2>2. Dropped(ss)[s] = c BY <1>1 DEF Dropped
  <2>3. c \in StreamType /\ c.linked = str[s].linked /\ c.refs = 0 /\ c.life = "freed"
    <3>1. zero \in Int /\ zero = 0 OBVIOUS
    <3> HIDE DEF zero
    <3> QED BY <1>0, <3>1 DEF StreamType
  <2> QED BY <2>1, <2>2, <2>3
<1>2. CASE s \in ss /\ s \notin Last(ss)
  <2>1. str[s].refs # 1 BY <1>2 DEF Last
  <2> DEFINE c == [str[s] EXCEPT !.refs = @ - 1]
  <2>2. Dropped(ss)[s] = c BY <1>2 DEF Dropped
  <2>3. c \in StreamType /\ c.linked = str[s].linked /\ c.refs = str[s].refs - 1 /\ c.life = str[s].life
    BY <1>0 DEF StreamType
  <2> QED BY <1>2, <2>1, <2>2, <2>3
<1>3. CASE s \notin ss
  <2>1. Dropped(ss)[s] = str[s] BY <1>3 DEF Dropped, Last
  <2> QED BY <1>0, <1>3, <2>1
<1> QED BY <1>1, <1>2, <1>3

(* stream_release, for a thread that leaves or ends its second half. *)
LEMMA ReleaseKeeps ==
  ASSUME StreamInv, NEW t \in Threads, TakeMore(t) \/ Leave(t)
  PROVE  StreamInv' /\ \A q \in Streams : str'[q].life = "live" => str[q].life = "live"
<1>a. thr[t].pc # "idle" BY DEF TakeMore, Leave, At
<1>b. PICK s \in Streams : s = thr[t].s BY <1>a, UserLive
<1>0. /\ StreamTyped /\ thr \in [Threads -> ThreadType] /\ Counted(s) /\ t \in Users(s)
      /\ str[s] \in StreamType /\ str[s].refs \in Int /\ str[s].life = "live"
      /\ str[s].refs >= 1 + Listed(s) + Cardinality(Bulks(s)) /\ Listed(s) \in {0, 1}
  BY <1>a, <1>b, UserLive DEF StreamInv, StreamTyped, Listed
<1>1. str' = Dropped({s}) BY <1>b DEF TakeMore, Leave
<1>2. str' \in [Streams -> StreamType]
  <2>1. \A q \in Streams : Dropped({s})[q] \in StreamType BY <1>0, DroppedAt
  <2>2. Dropped({s}) = [q \in Streams |-> Dropped({s})[q]] BY DEF Dropped
  <2> QED BY <1>1, <2>1, <2>2
<1>3. /\ str'[s].refs = str[s].refs - 1 /\ str'[s].linked = str[s].linked
      /\ str'[s].life = IF str[s].refs = 1 THEN "freed" ELSE str[s].life
      /\ \A q \in Streams \ {s} : str'[q] = str[q]
  BY <1>0, <1>1, DroppedAt
<1>4. Cardinality(Users(s)) \in Nat /\ Cardinality(Bulks(s)) \in Nat BY Countable
<1>5. Listed(s)' = Listed(s) BY <1>3 DEF Listed
<1>6. PICK m \in ThreadType : /\ thr' = [thr EXCEPT ![t] = m]
                              /\ \/ thr[t].pc = "bulk" /\ m.pc = "leave" /\ m.s = s
                                 \/ thr[t].pc = "leave" /\ m.pc = "idle"
  <2>1. CASE TakeMore(t)
    <3> DEFINE m == [thr[t] EXCEPT !.pc = "leave"]
    <3>1. m \in ThreadType /\ m.pc = "leave" /\ m.s = s BY <1>0, <1>b DEF ThreadType, Calls
    <3>2. thr' = [thr EXCEPT ![t] = m] /\ thr[t].pc = "bulk" BY <1>0, <2>1 DEF TakeMore, At, Goto
    <3> QED BY <3>1, <3>2
  <2>2. CASE Leave(t)
    <3>1. IdleThread \in ThreadType /\ IdleThread.pc = "idle" BY DEF IdleThread, ThreadType, Calls
    <3>2. thr' = [thr EXCEPT ![t] = IdleThread] /\ thr[t].pc = "leave" BY <2>2 DEF Leave, At
    <3> QED BY <3>1, <3>2
  <2> QED BY <2>1, <2>2
<1>7. thr'[t] = m /\ thr' \in [Threads -> ThreadType] /\ \A u \in Threads \ {t} : thr'[u] = thr[u] BY <1>0, <1>6
<1>8. Counted(s)'
  <2>1. CASE thr[t].pc = "bulk"
    <3>1. t \in Bulks(s) /\ Users(s)' = Users(s) /\ Bulks(s)' = Bulks(s) \ {t}
      BY <1>6, <1>7, <1>b, <2>1 DEF Users, Bulks
    <3>2. Cardinality(Bulks(s)') = Cardinality(Bulks(s)) - 1 BY <3>1, Countable, FS_RemoveElement
    <3>3. Cardinality(Bulks(s)) # 0 BY <3>1, Countable
    <3>4. str'[s].refs = Listed(s)' + Cardinality(Users(s)') + Cardinality(Bulks(s)') /\ str'[s].refs > 0 /\ str[s].refs # 1
      BY <1>0, <1>3, <1>4, <1>5, <3>1, <3>2, <3>3 DEF Counted
    <3> QED BY <1>0, <1>3, <3>4 DEF Counted
  <2>2. CASE thr[t].pc # "bulk"
    <3>1. Users(s)' = Users(s) \ {t} /\ Bulks(s)' = Bulks(s)
      BY <1>6, <1>7, <1>b, <2>2 DEF Users, Bulks
    <3>2. Cardinality(Users(s)') = Cardinality(Users(s)) - 1 BY <1>0, <3>1, Countable, FS_RemoveElement
    <3>3. str'[s].refs = Listed(s)' + Cardinality(Users(s)') + Cardinality(Bulks(s)')
      BY <1>0, <1>3, <1>4, <1>5, <3>1, <3>2 DEF Counted
    <3>4. str'[s].refs > 0 <=> str[s].refs # 1 BY <1>0, <1>3, <1>4
    <3> QED BY <1>0, <1>3, <3>3, <3>4 DEF Counted
  <2> QED BY <2>1, <2>2
<1>9. ASSUME NEW q \in Streams, q # s PROVE Counted(q)'
  <2>1. Users(q)' = Users(q) /\ Bulks(q)' = Bulks(q) BY <1>6, <1>7, <1>9, <1>b DEF Users, Bulks
  <2> QED BY <1>3, <1>9, <2>1 DEF StreamInv, Counted, Listed
<1>10. ASSUME NEW u \in Threads, thr'[u].pc # "idle" PROVE thr'[u].s \in Streams
  BY <1>6, <1>7, <1>10 DEF StreamInv
<1> QED BY <1>0, <1>2, <1>3, <1>7, <1>8, <1>9, <1>10 DEF StreamInv, StreamTyped

(* stream_close_locked on listed streams, by visjail_close and by destroy. *)
LEMMA CloseKeeps ==
  ASSUME StreamInv, NEW ss, \A s \in ss : s \in Streams => str[s].linked, str' = Closed(ss, Dropped(ss)), thr' = thr
  PROVE  StreamInv' /\ \A q \in Streams : str'[q].life = "live" => str[q].life = "live"
<1>0. StreamTyped BY DEF StreamInv
<1>1. ASSUME NEW s \in Streams
      PROVE  /\ str'[s] \in StreamType /\ Counted(s)' /\ (str'[s].life = "live" => str[s].life = "live")
  <2>0. Users(s)' = Users(s) /\ Bulks(s)' = Bulks(s) BY DEF Users, Bulks
  <2>1. CASE s \in ss
    <3> DEFINE d == Dropped(ss)[s]
               c == [d EXCEPT !.linked = FALSE, !.cancel = TRUE]
    <3>1. /\ d \in StreamType /\ d.refs = str[s].refs - 1
          /\ d.life = IF str[s].refs = 1 THEN "freed" ELSE str[s].life
      BY <1>0, <2>1, DroppedAt
    <3>2. str'[s] = c BY <2>1 DEF Closed
    <3> HIDE DEF d
    <3>3. c \in StreamType /\ c.refs = d.refs /\ c.life = d.life /\ ~c.linked BY <3>1 DEF StreamType
    <3> HIDE DEF c
    <3>4. Listed(s) = 1 /\ Listed(s)' = 0 BY <2>1, <3>2, <3>3 DEF Listed
    <3>5. str[s].refs \in Int BY <1>0 DEF StreamTyped, StreamType
    <3>6. Cardinality(Users(s)) \in Nat /\ Cardinality(Bulks(s)) \in Nat BY Countable
    <3>7. Counted(s) BY DEF StreamInv
    <3>8. str'[s].refs = Listed(s)' + Cardinality(Users(s)') + Cardinality(Bulks(s)') /\ str[s].refs >= 1 /\ str'[s].refs = str[s].refs - 1
      BY <2>0, <3>1, <3>2, <3>3, <3>4, <3>5, <3>6, <3>7 DEF Counted
    <3>9. str[s].life = "live" BY <3>5, <3>7, <3>8 DEF Counted
    <3>10. str'[s].life = "live" <=> str'[s].refs > 0 BY <3>1, <3>2, <3>3, <3>5, <3>8, <3>9
    <3> QED BY <3>2, <3>3, <3>8, <3>9, <3>10 DEF Counted
  <2>2. CASE s \notin ss
    <3>1. str'[s] = str[s] /\ str[s] \in StreamType
      BY <1>0, <2>2, DroppedAt DEF Closed, StreamTyped
    <3> QED BY <2>0, <3>1 DEF StreamInv, Counted, Listed
  <2> QED BY <2>1, <2>2
<1>2. str' \in [Streams -> StreamType]
  <2>1. str' = [s \in Streams |-> str'[s]] BY DEF Closed
  <2> QED BY <1>1, <2>1
<1> QED BY <1>0, <1>1, <1>2 DEF StreamInv, StreamTyped

(* The streams of a new process: nobody was in a call on them. *)
LEMMA SpawnStreams ==
  ASSUME StreamInv, TieInv, NEW p \in Procs, Spawn(p)
  PROVE  /\ StreamInv'
         /\ \A s \in Streams : s[1] # p => str'[s] = str[s]
<1> DEFINE one == 1
           n == [NewStream EXCEPT !.life = "live", !.linked = TRUE, !.refs = one]
<1>0. /\ StreamTyped /\ rec[p].life = "none" /\ thr' = thr
      /\ str' = [s \in Streams |-> IF s[1] = p THEN n ELSE str[s]]
  BY DEF StreamInv, Spawn
<1>1. n \in StreamType /\ n.linked /\ n.refs = 1 /\ n.life = "live"
  <2>1. NewStream \in StreamType BY DEF NewStream, StreamType
  <2>2. one \in Int /\ one = 1 OBVIOUS
  <2> HIDE DEF one
  <2> QED BY <2>1, <2>2 DEF StreamType
<1> HIDE DEF n
<1>2. str' \in [Streams -> StreamType] BY <1>0, <1>1 DEF StreamTyped
<1>3. ASSUME NEW s \in Streams PROVE Counted(s)'
  <2>0. Users(s)' = Users(s) /\ Bulks(s)' = Bulks(s) BY <1>0 DEF Users, Bulks
  <2>1. CASE s[1] = p
    <3>1. str[s].life # "live" BY <1>0, <2>1 DEF TieInv, StreamTied
    <3>2. Cardinality(Users(s)) \in Nat /\ Cardinality(Bulks(s)) \in Nat BY Countable
    <3>3. str[s].refs \in Int /\ Listed(s) \in {0, 1} /\ Counted(s)
      BY <1>0 DEF StreamInv, StreamTyped, StreamType, Listed
    <3>4. Cardinality(Users(s)) = 0 /\ Cardinality(Bulks(s)) = 0 BY <3>1, <3>2, <3>3 DEF Counted
    <3>5. str'[s] = n /\ Listed(s)' = 1 BY <1>0, <1>1, <2>1 DEF Listed
    <3> QED BY <1>1, <2>0, <3>4, <3>5 DEF Counted
  <2>2. CASE s[1] # p
    <3>1. str'[s] = str[s] BY <1>0, <2>2
    <3> QED BY <2>0, <3>1 DEF StreamInv, Counted, Listed
  <2> QED BY <2>1, <2>2
<1> QED BY <1>0, <1>2, <1>3 DEF StreamInv, StreamTyped

-----------------------------------------------------------------------------
(* What ties the parts together.                                           *)

(* A record keeps what a destroy relies on. *)
Settled(p) == /\ rec'[p].life = "live" => rec[p].life = "live"
              /\ rec[p].life # "none" => rec'[p].life # "none"
              /\ rec'[p].home = rec[p].home
              /\ rec[p].life = "live" /\ rec[p].cleaning => rec'[p].life = "live" /\ rec'[p].cleaning

LEMMA SettledRecords ==
  ASSUME ProcTyped, NEW p \in Procs, rec'[p] = rec[p] \/ Handed(p) \/ GivenUp(p)
  PROVE  Settled(p)
<1>1. rec[p] \in ProcessType BY DEF ProcTyped
<1> QED BY <1>1 DEF Settled, Handed, GivenUp, Reclaimable, ProcessType

(* The destroys of other workspaces than x, while the records of x alone   *)
(* are cleaned up.                                                         *)
LEMMA OthersTied ==
  ASSUME TieInv, NEW x, NEW y \in Contexts, y # x, host'[y] = host[y], hand'[y] = hand[y], StaysOpen(y),
         ProcInv, \A p \in Procs : active'[p] \subseteq active[p],
         \A s \in Streams : str'[s].life = "live" => str[s].life = "live",
         \A p \in Procs : Settled(p) \/ (rec[p].home = x /\ rec'[p].home \in {x, None})
  PROVE  HostTied(y)'
<1>0. HostTied(y) /\ y # None BY ContextAssumption DEF TieInv
<1>1. host[y] # "idle" => /\ ctx'[y].life = "open" /\ ~ctx'[y].linked /\ ctx'[y].poisoned
                         /\ \A p \in Procs : Home[p] = y => active'[p] = {}
  BY <1>0 DEF HostTied, StaysOpen
<1>2. host[y] \in {"records", "drain", "profile"} => \A s \in Streams : Home[s[1]] = y => str'[s].life # "live"
  BY <1>0 DEF HostTied
<1>3. host[y] = "drain" => /\ hand[y] \in Procs /\ rec'[hand[y]].life = "live"
                          /\ rec'[hand[y]].home = y /\ rec'[hand[y]].cleaning
  BY <1>0 DEF HostTied, Settled
<1>4. host[y] = "profile" => \A p \in Procs : ~(rec'[p].life = "live" /\ rec'[p].home = y)
  BY <1>0 DEF HostTied, Settled
<1> QED BY <1>0, <1>1, <1>2, <1>3, <1>4 DEF HostTied

(* Steps that leave every destroy where it is. *)
LEMMA TieQuiet ==
  ASSUME ContextInv, ProcInv, TieInv, UNCHANGED <<host, hand>>, \A y \in Contexts : StaysOpen(y),
         \A p \in Procs : active'[p] \subseteq active[p] /\ Settled(p),
         \A s \in Streams : str'[s].life = "live" => str[s].life = "live"
  PROVE  TieInv'
<1>1. HostTyped' BY DEF TieInv, HostTyped
<1>2. ASSUME NEW p \in Procs PROVE ProcTied(p)'
  <2>1. Home[p] \in Contexts BY JailAssumption
  <2>2. ctx[Home[p]].job => ctx[Home[p]].life = "open" BY <2>1 DEF ContextInv, Own
  <2> QED BY <2>1, <2>2 DEF TieInv, ProcTied, StaysOpen, Settled
<1>3. ASSUME NEW s \in Streams PROVE StreamTied(s)'
  <2>1. s[1] \in Procs /\ Home[s[1]] \in Contexts BY JailAssumption DEF Streams
  <2> QED BY <2>1 DEF TieInv, StreamTied, StaysOpen, Settled
<1>4. ASSUME NEW y \in Contexts PROVE HostTied(y)'
  <2>1. None # y BY ContextAssumption
  <2> QED BY <2>1, OthersTied
<1> QED BY <1>1, <1>2, <1>3, <1>4 DEF TieInv

LEMMA SpawnTied ==
  ASSUME ContextInv, ProcInv, StreamInv, TieInv, NEW p \in Procs, Spawn(p)
  PROVE  TieInv'
<1> DEFINE x == Home[p]
<1>0. /\ x \in Contexts /\ ctx[x].linked /\ ~ctx[x].poisoned /\ rec[p].life = "none" /\ x # None
      /\ ctx' = ctx /\ host' = host /\ hand' = hand /\ ProcTyped
  BY JailAssumption, ContextAssumption DEF Spawn, MaySpawn, contextVars, hostVars, ProcInv
<1>1. ctx[x].job /\ ctx[x].life = "open" BY <1>0 DEF ContextInv, Own
<1>2. host[x] = "idle" BY <1>0 DEF TieInv, HostTied
<1>3. /\ rec'[p].life = "live" /\ rec'[p].home = x
      /\ \A q \in Procs : q # p => active'[q] = active[q] /\ Settled(q)
  <2>1. /\ rec' = [Reclaimed EXCEPT ![p] = [NewProcess EXCEPT !.life = "live", !.home = x, !.handles = TRUE,
                                                              !.console = p \in Consoles]]
        /\ active' = [active EXCEPT ![p] = {"root", "child"}]
    BY DEF Spawn
  <2>2. \A q \in Procs : q # p => active'[q] = active[q] /\ (rec'[q] = rec[q] \/ GivenUp(q))
    BY <1>0, <2>1, ReclaimedGives DEF ProcTyped, GivenUp
  <2>3. rec'[p].life = "live" /\ rec'[p].home = x
    BY <1>0, <2>1, ReclaimedGives DEF NewProcess
  <2> QED BY <1>0, <2>2, <2>3, SettledRecords
<1>4. \A s \in Streams : s[1] # p => str'[s] = str[s] BY SpawnStreams
<1>5. HostTyped' BY <1>0 DEF TieInv, HostTyped
<1>6. ASSUME NEW q \in Procs PROVE ProcTied(q)'
  <2>1. CASE q = p BY <1>0, <1>1, <2>1 DEF ProcTied
  <2>2. CASE q # p BY <1>0, <1>3, <2>2 DEF TieInv, ProcTied, Settled
  <2> QED BY <2>1, <2>2
<1>7. ASSUME NEW s \in Streams PROVE StreamTied(s)'
  <2>0. s[1] \in Procs BY DEF Streams
  <2>1. CASE s[1] = p BY <1>0, <1>1, <1>3, <2>1 DEF StreamTied
  <2>2. CASE s[1] # p BY <1>0, <1>3, <1>4, <2>0, <2>2 DEF TieInv, StreamTied, Settled
  <2> QED BY <2>1, <2>2
<1>8. ASSUME NEW y \in Contexts PROVE HostTied(y)'
  <2>0. HostTied(y) BY DEF TieInv
  <2>1. CASE y = x BY <1>0, <1>2, <2>0, <2>1 DEF HostTied
  <2>2. CASE y # x
    <3>0. y # None BY ContextAssumption
    <3>1. host[y] # "idle" => /\ ctx'[y].life = "open" /\ ~ctx'[y].linked /\ ctx'[y].poisoned
                             /\ \A q \in Procs : Home[q] = y => active'[q] = {}
      BY <1>0, <1>3, <2>0, <2>2 DEF HostTied
    <3>2. host[y] \in {"records", "drain", "profile"} => \A s \in Streams : Home[s[1]] = y => str'[s].life # "live"
      BY <1>4, <2>0, <2>2 DEF HostTied
    <3>3. host[y] = "drain" => /\ hand[y] \in Procs /\ rec'[hand[y]].life = "live"
                              /\ rec'[hand[y]].home = y /\ rec'[hand[y]].cleaning
      BY <1>0, <1>3, <2>0 DEF HostTied, Settled
    <3>4. host[y] = "profile" => \A q \in Procs : ~(rec'[q].life = "live" /\ rec'[q].home = y)
      BY <1>3, <2>0, <2>2 DEF HostTied, Settled
    <3> QED BY <1>0, <2>0, <3>1, <3>2, <3>3, <3>4 DEF HostTied
  <2> QED BY <2>1, <2>2
<1> QED BY <1>5, <1>6, <1>7, <1>8 DEF TieInv

(* A destroy begins. *)
LEMMA DestroyTied ==
  ASSUME ContextInv, ProcInv, StreamInv, TieInv, NEW x \in Contexts, Destroy(x)
  PROVE  ContextInv' /\ ProcInv' /\ StreamInv' /\ TieInv'
<1> DEFINE open == {s \in LiveStreams(x) : str[s].linked}
           c == [ctx[x] EXCEPT !.poisoned = TRUE, !.linked = FALSE]
<1>0. /\ ctx \in [Contexts -> ContextType] /\ ctx[x].linked /\ helper' = helper /\ failed' = failed
      /\ host' = [host EXCEPT ![x] = "streams"] /\ hand' = hand /\ ProcTyped /\ Own(x)
      /\ host \in [Contexts -> {"idle", "streams", "records", "drain", "profile"}] /\ HostTied(x)
  BY DEF ContextInv, ContextTyped, Destroy, ProcInv, TieInv, HostTyped
<1>1. ctx[x].life = "open" /\ host[x] = "idle" /\ hand[x] = None BY <1>0 DEF Own, HostTied
<1>2. ctx' = [ctx EXCEPT ![x] = c] BY <1>0 DEF Destroy
<1>3. /\ c \in ContextType /\ c.life = "open" /\ ~c.ui /\ c.poisoned /\ ~c.linked /\ c.job = ctx[x].job
  BY <1>0, <1>1 DEF ContextType, Own
<1> HIDE DEF c
<1>4. ContextInv' BY <1>0, <1>1, <1>2, <1>3, DestroyedOwn
<1>5. ProcInv' /\ \A p \in Procs : Ending(p) BY DestroyEnds
<1>6. StreamInv' /\ \A s \in Streams : str'[s].life = "live" => str[s].life = "live"
  <2>1. str' = Closed(open, Dropped(open)) /\ thr' = thr BY DEF Destroy, streamVars
  <2>2. \A s \in open : s \in Streams => str[s].linked OBVIOUS
  <2> HIDE DEF open
  <2> QED BY <2>1, <2>2, CloseKeeps
<1>7. \A p \in Procs : Settled(p)
  <2>1. \A p \in Procs : rec'[p] = rec[p] \/ Handed(p) BY <1>0, HandedOverHands DEF Destroy
  <2> QED BY <1>0, <2>1, SettledRecords
<1>8. \A p \in Procs : active'[p] \subseteq active[p] /\ (Home[p] = x => active'[p] = {})
  <2>1. CASE ctx[x].job
    <3>1. Terminate({p \in Procs : Home[p] = x}) BY <2>1 DEF Destroy
    <3> QED BY <1>0, <3>1, TerminateEnds DEF Ending
  <2>2. CASE ~ctx[x].job
    <3>1. active' = active BY <2>2 DEF Destroy
    <3> QED BY <2>2, <3>1 DEF TieInv, ProcTied
  <2> QED BY <2>1, <2>2
<1>9. HostTied(x)'
  <2>1. host'[x] = "streams" /\ ctx'[x] = c BY <1>0, <1>2
  <2> QED BY <1>0, <1>1, <1>3, <1>8, <2>1 DEF HostTied
<1>10. ASSUME NEW y \in Contexts, y # x PROVE HostTied(y)'
  <2>1. host'[y] = host[y] /\ hand'[y] = hand[y] /\ ctx'[y] = ctx[y] BY <1>0, <1>2, <1>10
  <2>2. StaysOpen(y) BY <2>1 DEF StaysOpen
  <2> QED BY <1>6, <1>7, <1>8, <1>10, <2>1, <2>2, OthersTied
<1>11. \A y \in Contexts : (ctx[y].job => ctx'[y].job) /\ (ctx[y].life = "open" => ctx'[y].life = "open")
  BY <1>0, <1>2, <1>3
<1>12. ASSUME NEW p \in Procs PROVE ProcTied(p)'
  <2>1. Home[p] \in Contexts BY JailAssumption
  <2> QED BY <1>7, <1>8, <1>11, <2>1 DEF TieInv, ProcTied, Settled
<1>13. ASSUME NEW s \in Streams PROVE StreamTied(s)'
  <2>1. s[1] \in Procs /\ Home[s[1]] \in Contexts BY JailAssumption DEF Streams
  <2> QED BY <1>6, <1>7, <1>11, <2>1 DEF TieInv, StreamTied, Settled
<1>14. HostTyped' BY <1>0 DEF TieInv, HostTyped
<1> QED BY <1>4, <1>5, <1>6, <1>9, <1>10, <1>12, <1>13, <1>14 DEF TieInv

(* A record of the workspace that is cleaned up, or any other. *)
Cleaned(x, p) == \/ Settled(p)
                 \/ /\ rec[p].home = x /\ rec'[p].home \in {x, None}
                    /\ rec[p].life = "live" /\ rec'[p].life = "live"

(* A later step of a destroy, which touches its own workspace and the      *)
(* records of it; what is left to show is what its next stage relies on.   *)
LEMMA DestroyGoesOn ==
  ASSUME ContextInv, ProcInv, StreamInv, TieInv, NEW x \in Contexts, host[x] # "idle",
         NEW c \in ContextType, ctx' = [ctx EXCEPT ![x] = c], helper' = helper, failed' = failed,
         c.life = "open", ~c.ui, c.poisoned,
         NEW h \in {"idle", "streams", "records", "drain", "profile"}, host' = [host EXCEPT ![x] = h],
         NEW v \in Procs \cup {None}, hand' = [hand EXCEPT ![x] = v],
         str' = str, thr' = thr, active' = active,
         \A p \in Procs : Cleaned(x, p),
         h # "idle" => ~c.linked,
         h \in {"records", "drain", "profile"} => LiveStreams(x) = {},
         h = "drain" => v \in Procs /\ rec'[v].life = "live" /\ rec'[v].home = x /\ rec'[v].cleaning,
         h # "drain" => v = None,
         h = "profile" => Mine(x)' = {}
  PROVE  ContextInv' /\ StreamInv' /\ TieInv'
<1>0. /\ ctx \in [Contexts -> ContextType] /\ HostTyped /\ HostTied(x) /\ x # None
  BY ContextAssumption DEF ContextInv, ContextTyped, TieInv
<1>1. ctx[x].life = "open" /\ \A p \in Procs : Home[p] = x => active[p] = {} BY <1>0 DEF HostTied
<1>2. ContextInv' BY <1>1, DestroyedOwn
<1>3. StreamInv' BY StreamSame
<1>4. ctx'[x] = c /\ host'[x] = h /\ hand'[x] = v /\ HostTyped' BY <1>0 DEF HostTyped
<1>5. HostTied(x)'
  <2>1. h \in {"records", "drain", "profile"} => \A s \in Streams : Home[s[1]] = x => str'[s].life # "live"
    BY DEF LiveStreams
  <2>2. h = "profile" => \A p \in Procs : ~(rec'[p].life = "live" /\ rec'[p].home = x) BY DEF Mine
  <2> QED BY <1>1, <1>4, <2>1, <2>2 DEF HostTied
<1>6. ASSUME NEW y \in Contexts, y # x PROVE HostTied(y)' /\ ctx'[y] = ctx[y]
  <2>1. host'[y] = host[y] /\ hand'[y] = hand[y] /\ ctx'[y] = ctx[y] BY <1>0, <1>6 DEF HostTyped
  <2>2. StaysOpen(y) BY <2>1 DEF StaysOpen
  <2>3. \A p \in Procs : active'[p] \subseteq active[p] OBVIOUS
  <2>4. \A s \in Streams : str'[s].life = "live" => str[s].life = "live" OBVIOUS
  <2>5. \A p \in Procs : Settled(p) \/ (rec[p].home = x /\ rec'[p].home \in {x, None}) BY DEF Cleaned
  <2> QED BY <1>6, <2>1, <2>2, <2>3, <2>4, <2>5, OthersTied
<1>7. ASSUME NEW p \in Procs PROVE ProcTied(p)'
  <2>1. Home[p] \in Contexts BY JailAssumption
  <2>2. ProcTied(p) BY DEF TieInv
  <2>3. CASE Home[p] = x BY <1>1, <1>4, <2>3 DEF ProcTied
  <2>4. CASE Home[p] # x
    <3>1. rec[p].home # x BY <1>0, <2>4 DEF ProcInv, Record, Spent
    <3>2. Settled(p) BY <3>1 DEF Cleaned
    <3> QED BY <1>6, <2>1, <2>2, <2>4, <3>2 DEF ProcTied, Settled
  <2> QED BY <2>3, <2>4
<1>8. ASSUME NEW s \in Streams PROVE StreamTied(s)'
  <2>1. s[1] \in Procs /\ Home[s[1]] \in Contexts BY JailAssumption DEF Streams
  <2>2. rec[s[1]].life # "none" => rec'[s[1]].life # "none" BY <2>1 DEF Settled, Cleaned
  <2>3. ctx[Home[s[1]]].life = "open" => ctx'[Home[s[1]]].life = "open" BY <1>4, <1>6, <2>1
  <2> QED BY <2>2, <2>3 DEF TieInv, StreamTied
<1> QED BY <1>2, <1>3, <1>4, <1>5, <1>6, <1>7, <1>8 DEF TieInv

(* What such a step may do to the workspace: nothing, link it again, close *)
(* its desktop, or let go of its job.                                      *)
Relinks(x) == \/ ctx' = [ctx EXCEPT ![x].linked = TRUE]
              \/ ctx' = [ctx EXCEPT ![x].job = FALSE, ![x].linked = TRUE]
Spares(x) == ctx' = ctx \/ ctx' = [ctx EXCEPT ![x].desktop = FALSE]

LEMMA ContextChanges ==
  ASSUME ContextInv, TieInv, NEW x \in Contexts, host[x] # "idle", Spares(x) \/ Relinks(x)
  PROVE  \E c \in ContextType : /\ ctx' = [ctx EXCEPT ![x] = c] /\ c.life = "open" /\ ~c.ui /\ c.poisoned
<1>1. ctx \in [Contexts -> ContextType] /\ ctx[x] \in ContextType BY DEF ContextInv, ContextTyped
<1>2. ctx[x].life = "open" /\ ~ctx[x].ui /\ ctx[x].poisoned /\ ~ctx[x].linked
  BY DEF ContextInv, Own, TieInv, HostTied
<1>3. CASE ctx' = ctx
  <2>1. ctx' = [ctx EXCEPT ![x] = ctx[x]] BY <1>1, <1>3
  <2> QED BY <1>1, <1>2, <2>1
<1>4. CASE ctx' = [ctx EXCEPT ![x].desktop = FALSE]
  <2> DEFINE c == [ctx[x] EXCEPT !.desktop = FALSE]
  <2>1. ctx' = [ctx EXCEPT ![x] = c] BY <1>1, <1>4
  <2>2. c \in ContextType /\ c.life = "open" /\ ~c.ui /\ c.poisoned /\ ~c.linked BY <1>1, <1>2 DEF ContextType
  <2> HIDE DEF c
  <2> QED BY <2>1, <2>2
<1>5. CASE ctx' = [ctx EXCEPT ![x].linked = TRUE]
  <2> DEFINE c == [ctx[x] EXCEPT !.linked = TRUE]
  <2>1. ctx' = [ctx EXCEPT ![x] = c] BY <1>1, <1>5
  <2>2. c \in ContextType /\ c.life = "open" /\ ~c.ui /\ c.poisoned BY <1>1, <1>2 DEF ContextType
  <2>3. Relinks(x) BY <1>5 DEF Relinks
  <2> HIDE DEF c
  <2> QED BY <2>1, <2>2, <2>3
<1>6. CASE ctx' = [ctx EXCEPT ![x].job = FALSE, ![x].linked = TRUE]
  <2> DEFINE c == [ctx[x] EXCEPT !.job = FALSE, !.linked = TRUE]
  <2>1. ctx' = [ctx EXCEPT ![x] = c] BY <1>1, <1>6
  <2>2. c \in ContextType /\ c.life = "open" /\ ~c.ui /\ c.poisoned BY <1>1, <1>2 DEF ContextType
  <2>3. Relinks(x) BY <1>6 DEF Relinks
  <2> HIDE DEF c
  <2> QED BY <2>1, <2>2, <2>3
<1> QED BY <1>3, <1>4, <1>5, <1>6 DEF Relinks, Spares

(* A step that failed: the destroy stops, the workspace is linked again,   *)
(* and what it has got rid of stays gone.                                  *)
LEMMA DestroyStops ==
  ASSUME ContextInv, ProcInv, StreamInv, TieInv, NEW x \in Contexts, host[x] # "idle", Relinks(x), Retry(x),
         helper' = helper /\ failed' = failed /\ str' = str /\ thr' = thr /\ active' = active,
         \A p \in Procs : Cleaned(x, p)
  PROVE  ContextInv' /\ StreamInv' /\ TieInv'
<1>1. PICK c \in ContextType : ctx' = [ctx EXCEPT ![x] = c] /\ c.life = "open" /\ ~c.ui /\ c.poisoned
  BY ContextChanges
<1>2. host' = [host EXCEPT ![x] = "idle"] /\ hand' = [hand EXCEPT ![x] = None] BY DEF Retry
<1> QED BY <1>1, <1>2, DestroyGoesOn

LEMMA StreamsGoneKeeps ==
  ASSUME ContextInv, ProcInv, StreamInv, TieInv, NEW x \in Contexts, StreamsGone(x) \/ StreamsWaitFails(x)
  PROVE  ContextInv' /\ ProcInv' /\ StreamInv' /\ TieInv'
<1>0. /\ helper' = helper /\ failed' = failed /\ str' = str /\ thr' = thr /\ active' = active /\ rec' = rec
      /\ status' = status /\ console' = console /\ told' = told /\ waiter' = waiter /\ host[x] = "streams"
  BY DEF StreamsGone, StreamsWaitFails, procVars, streamVars, callVars
<1>1. \A p \in Procs : Cleaned(x, p) BY <1>0 DEF Settled, Cleaned
<1>2. ProcInv' BY <1>0, ProcSame
<1>3. CASE StreamsGone(x)
  <2>1. /\ ctx' = ctx /\ host' = [host EXCEPT ![x] = "records"] /\ hand' = hand /\ LiveStreams(x) = {}
    BY <1>3 DEF StreamsGone
  <2>2. hand[x] = None /\ hand \in [Contexts -> Procs \cup {None}] BY <1>0 DEF TieInv, HostTied, HostTyped
  <2>3. hand' = [hand EXCEPT ![x] = None] BY <2>1, <2>2
  <2>4. PICK c \in ContextType : ctx' = [ctx EXCEPT ![x] = c] /\ c.life = "open" /\ ~c.ui /\ c.poisoned
    BY <1>0, <2>1, ContextChanges DEF Spares
  <2>5. ctx \in [Contexts -> ContextType] /\ ~ctx[x].linked BY <1>0 DEF TieInv, HostTied, ContextInv, ContextTyped
  <2>6. ~c.linked BY <2>1, <2>4, <2>5
  <2> QED BY <1>0, <1>1, <1>2, <2>1, <2>3, <2>4, <2>6, DestroyGoesOn
<1>4. CASE StreamsWaitFails(x)
  <2>1. Relinks(x) /\ Retry(x) BY <1>4 DEF StreamsWaitFails, Relinks
  <2> QED BY <1>0, <1>1, <1>2, <2>1, DestroyStops
<1> QED BY <1>3, <1>4

LEMMA RecordsKeep ==
  ASSUME ContextInv, ProcInv, StreamInv, TieInv, NEW x \in Contexts, TakeRecord(x) \/ TakeRecordFails(x)
  PROVE  ContextInv' /\ ProcInv' /\ StreamInv' /\ TieInv'
<1>0. /\ helper' = helper /\ failed' = failed /\ str' = str /\ thr' = thr /\ active' = active /\ host[x] = "records" /\ ProcTyped
  BY DEF TakeRecord, TakeRecordFails, streamVars, ProcInv
<1>1. ProcInv' BY TakeRecordKeeps, TakeRecordFailsKeeps
<1>2. CASE TakeRecord(x)
  <2>1. PICK p \in Mine(x), known \in BOOLEAN :
          /\ IF known THEN UNCHANGED faults ELSE Fault /\ ~rec[p].reaped
          /\ rec' = [rec EXCEPT ![p].reaped = TRUE, ![p].code = KeptCode(p, known),
                                ![p].handles = FALSE, ![p].closer = @ \/ rec[p].console,
                                ![p].console = FALSE, ![p].cleaning = TRUE]
          /\ IF rec[p].console THEN CloserStarts(p) ELSE UNCHANGED console
          /\ hand' = [hand EXCEPT ![x] = p]
    BY <1>2, Zenon DEF TakeRecord
  <2>2. p \in Procs /\ rec[p].life = "live" /\ rec[p].home = x /\ rec[p] \in ProcessType
    BY <1>0 DEF Mine, ProcTyped
  <2> DEFINE r == [rec[p] EXCEPT !.reaped = TRUE, !.code = KeptCode(p, known),
                                 !.handles = FALSE, !.closer = @ \/ rec[p].console,
                                 !.console = FALSE, !.cleaning = TRUE]
  <2>3. rec'[p] = r /\ \A q \in Procs \ {p} : rec'[q] = rec[q] BY <1>0, <2>1, <2>2 DEF ProcTyped
  <2>4. r.life = "live" /\ r.home = x /\ r.cleaning BY <2>2 DEF ProcessType
  <2> HIDE DEF r
  <2>5. \A q \in Procs : Cleaned(x, q)
    BY <2>2, <2>3, <2>4 DEF Settled, Cleaned
  <2>6. ctx' = ctx /\ host' = [host EXCEPT ![x] = "drain"] BY <1>2 DEF TakeRecord
  <2>7. PICK c \in ContextType : ctx' = [ctx EXCEPT ![x] = c] /\ c.life = "open" /\ ~c.ui /\ c.poisoned
    BY <1>0, <2>6, ContextChanges DEF Spares
  <2>8. ctx \in [Contexts -> ContextType] /\ ~ctx[x].linked BY <1>0 DEF TieInv, HostTied, ContextInv, ContextTyped
  <2>9. ~c.linked BY <2>6, <2>7, <2>8
  <2>10. LiveStreams(x) = {} BY <1>0 DEF TieInv, HostTied, LiveStreams
  <2> QED BY <1>0, <1>1, <2>1, <2>2, <2>3, <2>4, <2>5, <2>6, <2>7, <2>9, <2>10, DestroyGoesOn
<1>3. CASE TakeRecordFails(x)
  <2>1. PICK p \in Mine(x) :
          rec' = [rec EXCEPT ![p].reaped = TRUE, ![p].code = KeptCode(p, TRUE), ![p].handles = FALSE]
    BY <1>3 DEF TakeRecordFails
  <2>2. p \in Procs /\ rec[p].life = "live" /\ rec[p].home = x /\ rec[p] \in ProcessType
    BY <1>0 DEF Mine, ProcTyped
  <2> DEFINE r == [rec[p] EXCEPT !.reaped = TRUE, !.code = KeptCode(p, TRUE), !.handles = FALSE]
  <2>3. rec'[p] = r /\ \A q \in Procs \ {p} : rec'[q] = rec[q] BY <1>0, <2>1, <2>2 DEF ProcTyped
  <2>4. r.life = "live" /\ r.home = x BY <2>2 DEF ProcessType
  <2> HIDE DEF r
  <2>5. \A q \in Procs : Cleaned(x, q)
    BY <2>2, <2>3, <2>4 DEF Settled, Cleaned
  <2>6. Relinks(x) /\ Retry(x) BY <1>3 DEF TakeRecordFails, Relinks
  <2> QED BY <1>0, <1>1, <2>5, <2>6, DestroyStops
<1> QED BY <1>2, <1>3

LEMMA DrainTied ==
  ASSUME ContextInv, ProcInv, StreamInv, TieInv, NEW x \in Contexts, Drained(x) \/ DrainFails(x)
  PROVE  ContextInv' /\ ProcInv' /\ StreamInv' /\ TieInv'
<1>0. /\ helper' = helper /\ failed' = failed /\ str' = str /\ thr' = thr /\ active' = active /\ host[x] = "drain" /\ ProcTyped
  BY DEF Drained, DrainFails, streamVars, ProcInv
<1>1. ProcInv' BY DrainKeeps
<1>2. PICK p \in Procs : p = hand[x] /\ rec[p].life = "live" /\ rec[p].home = x BY <1>0 DEF TieInv, HostTied
<1>3. rec[p] \in ProcessType BY <1>0 DEF ProcTyped
<1>4. CASE Drained(x)
  <2> DEFINE r == [rec[p] EXCEPT !.cleaning = FALSE, !.output = FALSE, !.closer = FALSE, !.home = None]
  <2>1. rec'[p] = r /\ \A q \in Procs \ {p} : rec'[q] = rec[q] BY <1>0, <1>2, <1>4 DEF ProcTyped, Drained
  <2>2. r.life = "live" /\ r.home = None BY <1>2, <1>3 DEF ProcessType
  <2> HIDE DEF r
  <2>3. \A q \in Procs : Cleaned(x, q)
    BY <1>2, <2>1, <2>2 DEF Settled, Cleaned
  <2>4. ctx' = ctx /\ host' = [host EXCEPT ![x] = "records"] /\ hand' = [hand EXCEPT ![x] = None]
    BY <1>4 DEF Drained
  <2>5. PICK c \in ContextType : ctx' = [ctx EXCEPT ![x] = c] /\ c.life = "open" /\ ~c.ui /\ c.poisoned
    BY <1>0, <2>4, ContextChanges DEF Spares
  <2>6. ctx \in [Contexts -> ContextType] /\ ~ctx[x].linked BY <1>0 DEF TieInv, HostTied, ContextInv, ContextTyped
  <2>7. ~c.linked BY <2>4, <2>5, <2>6
  <2>8. LiveStreams(x) = {} BY <1>0 DEF TieInv, HostTied, LiveStreams
  <2> QED BY <1>0, <1>1, <2>3, <2>4, <2>5, <2>7, <2>8, DestroyGoesOn
<1>5. CASE DrainFails(x)
  <2> DEFINE r == [rec[p] EXCEPT !.cleaning = FALSE]
  <2>1. rec'[p] = r /\ \A q \in Procs \ {p} : rec'[q] = rec[q] BY <1>0, <1>2, <1>5 DEF ProcTyped, DrainFails
  <2>2. r.life = "live" /\ r.home = x BY <1>2, <1>3 DEF ProcessType
  <2> HIDE DEF r
  <2>3. \A q \in Procs : Cleaned(x, q)
    BY <1>2, <2>1, <2>2 DEF Settled, Cleaned
  <2>4. Relinks(x) /\ Retry(x) BY <1>5 DEF DrainFails, Relinks
  <2> QED BY <1>0, <1>1, <2>3, <2>4, DestroyStops
<1> QED BY <1>4, <1>5

LEMMA CloseDesktopKeeps ==
  ASSUME ContextInv, ProcInv, StreamInv, TieInv, NEW x \in Contexts, CloseDesktop(x)
  PROVE  ContextInv' /\ ProcInv' /\ StreamInv' /\ TieInv'
<1>0. /\ helper' = helper /\ failed' = failed /\ str' = str /\ thr' = thr /\ active' = active /\ rec' = rec
      /\ status' = status /\ console' = console /\ told' = told /\ waiter' = waiter /\ host[x] = "records"
  BY DEF CloseDesktop, procVars, streamVars, callVars
<1>1. \A p \in Procs : Cleaned(x, p) BY <1>0 DEF Settled, Cleaned
<1>2. ProcInv' BY <1>0, ProcSame
<1>3. hand[x] = None /\ hand \in [Contexts -> Procs \cup {None}] BY <1>0 DEF TieInv, HostTied, HostTyped
<1>4. CASE ctx' = [ctx EXCEPT ![x].desktop = FALSE] /\ hand' = hand /\ host' = [host EXCEPT ![x] = "profile"]
  <2>1. hand' = [hand EXCEPT ![x] = None] BY <1>3, <1>4
  <2>2. Spares(x) BY <1>4 DEF Spares
  <2>3. PICK c \in ContextType : ctx' = [ctx EXCEPT ![x] = c] /\ c.life = "open" /\ ~c.ui /\ c.poisoned
    BY <1>0, <2>2, ContextChanges
  <2>4. ctx \in [Contexts -> ContextType] /\ ~ctx[x].linked BY <1>0 DEF TieInv, HostTied, ContextInv, ContextTyped
  <2>5. ctx'[x].linked = ctx[x].linked
    <3>1. ctx[x] \in ContextType BY <2>4
    <3> QED BY <1>4, <2>4, <3>1 DEF ContextType
  <2>6. ~c.linked BY <2>3, <2>4, <2>5
  <2>7. LiveStreams(x) = {} BY <1>0 DEF TieInv, HostTied, LiveStreams
  <2>8. Mine(x)' = {} BY <1>0 DEF CloseDesktop, Mine
  <2>9. host' = [host EXCEPT ![x] = "profile"] BY <1>4
  <2> QED BY <1>0, <1>1, <1>2, <2>1, <2>3, <2>6, <2>7, <2>8, <2>9, DestroyGoesOn
<1>5. CASE ctx' = [ctx EXCEPT ![x].linked = TRUE] /\ Retry(x)
  <2>1. Relinks(x) BY <1>5 DEF Relinks
  <2>2. Retry(x) BY <1>5
  <2> QED BY <1>0, <1>1, <1>2, <2>1, <2>2, DestroyStops
<1> QED BY <1>4, <1>5 DEF CloseDesktop

(* The object goes: no process of it lives, no stream of it is open and no *)
(* record is left in it.                                                   *)
LEMMA ReleaseTied ==
  ASSUME ContextInv, ProcInv, StreamInv, TieInv, NEW x \in Contexts, DeleteProfile(x)
  PROVE  ContextInv' /\ ProcInv' /\ StreamInv' /\ TieInv'
<1>0. /\ helper' = helper /\ failed' = failed /\ str' = str /\ thr' = thr /\ active' = active /\ rec' = rec
      /\ status' = status /\ console' = console /\ told' = told /\ waiter' = waiter /\ host[x] = "profile"
  BY DEF DeleteProfile, procVars, streamVars, callVars
<1>1. ProcInv' BY <1>0, ProcSame
<1>2. CASE ctx' = [ctx EXCEPT ![x] = Released] /\ host' = [host EXCEPT ![x] = "idle"] /\ hand' = hand
  <2>0. /\ ctx \in [Contexts -> ContextType] /\ HostTyped /\ HostTied(x) /\ ctx[x].life = "open"
        /\ \A p \in Procs : Home[p] = x => active[p] = {}
    BY <1>0 DEF ContextInv, ContextTyped, TieInv, HostTied
  <2>1. Released \in ContextType BY DEF Released, NewContext, ContextType, Lives
  <2>2. ContextInv' BY <1>0, <1>2, <2>0, <2>1, DestroyedOwn
  <2>3. StreamInv' BY <1>0, StreamSame
  <2>4. HostTyped' BY <1>2, <2>0 DEF HostTyped
  <2>5. ctx'[x] = Released /\ \A y \in Contexts \ {x} : ctx'[y] = ctx[y] /\ host'[y] = host[y]
    BY <1>2, <2>0 DEF HostTyped
  <2>6. HostTied(x)'
    <3>1. host'[x] = "idle" /\ hand'[x] = None BY <1>0, <1>2, <2>0 DEF HostTyped, HostTied
    <3> QED BY <3>1 DEF HostTied
  <2>7. ASSUME NEW y \in Contexts, y # x PROVE HostTied(y)'
    <3>1. StaysOpen(y) BY <2>5, <2>7 DEF StaysOpen
    <3>2. host'[y] = host[y] /\ hand'[y] = hand[y] BY <1>2, <2>5, <2>7
    <3>3. \A p \in Procs : Settled(p) /\ active'[p] \subseteq active[p] BY <1>0 DEF Settled
    <3>4. \A s \in Streams : str'[s].life = "live" => str[s].life = "live" BY <1>0
    <3> QED BY <2>7, <3>1, <3>2, <3>3, <3>4, OthersTied
  <2>8. ASSUME NEW p \in Procs PROVE ProcTied(p)'
    <3>1. Home[p] \in Contexts /\ ProcTied(p) /\ Record(p) BY JailAssumption DEF TieInv, ProcInv
    <3>2. CASE Home[p] = x
      <4>1. active[p] = {} /\ ~(rec[p].life = "live" /\ rec[p].home = x) BY <1>0, <2>0, <3>2 DEF HostTied
      <4> QED BY <1>0, <3>1, <3>2, <4>1 DEF ProcTied, Record, Spent
    <3>3. CASE Home[p] # x BY <1>0, <2>5, <3>1, <3>3 DEF ProcTied
    <3> QED BY <3>2, <3>3
  <2>9. ASSUME NEW s \in Streams PROVE StreamTied(s)'
    <3>1. Home[s[1]] \in Contexts BY JailAssumption DEF Streams
    <3>2. CASE Home[s[1]] = x BY <1>0, <2>0, <3>2 DEF HostTied, StreamTied
    <3>3. CASE Home[s[1]] # x BY <1>0, <2>5, <3>1, <3>3 DEF TieInv, StreamTied
    <3> QED BY <3>2, <3>3
  <2> QED BY <1>1, <2>2, <2>3, <2>4, <2>6, <2>7, <2>8, <2>9 DEF TieInv
<1>3. CASE ctx' = [ctx EXCEPT ![x].job = FALSE, ![x].linked = TRUE] /\ Retry(x)
  <2>1. Relinks(x) BY <1>3 DEF Relinks
  <2>2. Retry(x) BY <1>3
  <2>3. \A p \in Procs : Cleaned(x, p) BY <1>0 DEF Settled, Cleaned
  <2> QED BY <1>0, <1>1, <2>1, <2>2, <2>3, DestroyStops
<1> QED BY <1>2, <1>3 DEF DeleteProfile

-----------------------------------------------------------------------------
(* Every step keeps every part.                                            *)

LEMMA ContextStepKeeps ==
  ASSUME CoreInv, NEW x \in Contexts, ContextStep(x), UNCHANGED OtherVars
  PROVE  CoreInv'
<1>0. /\ rec' = rec /\ active' = active /\ status' = status /\ console' = console /\ str' = str /\ thr' = thr
      /\ waiter' = waiter /\ told' = told /\ host' = host /\ hand' = hand
  BY DEF OtherVars, procVars, streamVars, callVars, hostVars
<1>1. ContextInv /\ ProcInv /\ StreamInv /\ TieInv BY DEF CoreInv
<1>2. ContextInv' /\ \A y \in Contexts : StaysOpen(y) BY <1>1, ContextKeeps
<1>3. ProcInv' /\ StreamInv' BY <1>0, <1>1, ProcSame, StreamSame
<1>4. \A p \in Procs : active'[p] \subseteq active[p] /\ Settled(p) BY <1>0 DEF Settled
<1>5. \A s \in Streams : str'[s].life = "live" => str[s].life = "live" BY <1>0
<1> QED BY <1>0, <1>1, <1>2, <1>3, <1>4, <1>5, TieQuiet DEF CoreInv

LEMMA DestroyRefusedKeeps ==
  ASSUME CoreInv, NEW x \in Contexts, DestroyRefused(x)
  PROVE  CoreInv'
<1>0. /\ rec' = rec /\ active' = active /\ status' = status /\ console' = console /\ str' = str /\ thr' = thr
      /\ waiter' = waiter /\ told' = told /\ host' = host /\ hand' = hand
      /\ helper' = helper /\ failed' = failed /\ ctx[x].linked /\ ctx' = [ctx EXCEPT ![x].poisoned = TRUE]
  BY DEF DestroyRefused, procVars, streamVars, callVars, hostVars
<1>1. ContextInv /\ ProcInv /\ StreamInv /\ TieInv BY DEF CoreInv
<1>2. ctx \in [Contexts -> ContextType] /\ ctx[x].life = "open" /\ ~ctx[x].ui BY <1>0, <1>1 DEF ContextInv, ContextTyped, Own
<1> DEFINE c == [ctx[x] EXCEPT !.poisoned = TRUE]
<1>3. ctx' = [ctx EXCEPT ![x] = c] BY <1>0, <1>2
<1>4. c \in ContextType /\ c.life = "open" /\ ~c.ui /\ c.poisoned /\ c.linked = ctx[x].linked /\ c.job = ctx[x].job
  BY <1>2 DEF ContextType
<1> HIDE DEF c
<1>5. ContextInv' BY <1>0, <1>1, <1>2, <1>3, <1>4, DestroyedOwn
<1>6. \A y \in Contexts : StaysOpen(y) BY <1>2, <1>3, <1>4 DEF StaysOpen
<1>7. ProcInv' /\ StreamInv' BY <1>0, <1>1, ProcSame, StreamSame
<1>8. \A p \in Procs : active'[p] \subseteq active[p] /\ Settled(p) BY <1>0 DEF Settled
<1>9. \A s \in Streams : str'[s].life = "live" => str[s].life = "live" BY <1>0
<1> QED BY <1>0, <1>1, <1>5, <1>6, <1>7, <1>8, <1>9, TieQuiet DEF CoreInv

(* Steps of one process, one thread or one stream. *)
LEMMA QuietKeeps ==
  ASSUME CoreInv, ProcInv', StreamInv', UNCHANGED <<ctx, helper, failed>>, host' = host, hand' = hand,
         \A p \in Procs : active'[p] \subseteq active[p] /\ Settled(p),
         \A s \in Streams : str'[s].life = "live" => str[s].life = "live"
  PROVE  CoreInv'
<1>1. ContextInv /\ ProcInv /\ StreamInv /\ TieInv BY DEF CoreInv
<1>2. ContextInv' BY <1>1, OwnKept
<1>3. \A y \in Contexts : StaysOpen(y) BY DEF StaysOpen
<1> QED BY <1>1, <1>2, <1>3, TieQuiet DEF CoreInv

LEMMA GuestStepKeeps ==
  ASSUME CoreInv, NEW p \in Procs, Quietly(p)
  PROVE  CoreInv'
<1>1. ContextInv /\ ProcInv /\ StreamInv /\ TieInv /\ ProcTyped BY DEF CoreInv, ProcInv
<1>2. /\ ctx' = ctx /\ helper' = helper /\ failed' = failed /\ host' = host /\ hand' = hand /\ str' = str /\ thr' = thr
  BY DEF Quietly, Exits, ChildExits, Kernel, Emit, ConsoleCloses, Kill, SpawnFails, SpawnReturns, contextVars, hostVars, streamVars
<1>3. ProcInv' BY <1>1, GuestKeeps
<1>4. StreamInv' BY <1>1, <1>2, StreamSame
<1>5. \A q \in Procs : active'[q] \subseteq active[q]
  <2>1. CASE Exits(p) \/ ChildExits(p) BY <1>1, <2>1 DEF Exits, ChildExits, ProcTyped
  <2>2. CASE Kernel(p) \/ SpawnFails(p) \/ SpawnReturns(p)
    BY <2>2 DEF Kernel, Emit, ConsoleCloses, SpawnFails, SpawnReturns
  <2>3. CASE Kill(p) BY <1>1, <2>3, TerminateEnds DEF Kill, Ending
  <2> QED BY <2>1, <2>2, <2>3 DEF Quietly
<1>6. ASSUME NEW q \in Procs PROVE Settled(q)
  <2>1. CASE rec' = rec BY <2>1 DEF Settled
  <2>2. CASE rec' = Reclaimed
    <3>1. rec'[q] = rec[q] \/ GivenUp(q) BY <1>1, <2>2, ReclaimedGives DEF GivenUp
    <3> QED BY <1>1, <3>1, SettledRecords
  <2> QED BY <2>1, <2>2
    DEF Quietly, Exits, ChildExits, Kernel, Emit, ConsoleCloses, Kill, SpawnFails, SpawnReturns
<1> QED BY <1>2, <1>3, <1>4, <1>5, <1>6, QuietKeeps

LEMMA WaitStepKeeps ==
  ASSUME CoreInv, NEW p \in Procs,
         \/ WaitEnter(p) \/ WaitRefused(p) \/ WaitNoHang(p) \/ WaitBreaks(p) \/ WaitEnds(p) \/ WaitFails(p)
  PROVE  CoreInv'
<1>1. ContextInv /\ ProcInv /\ StreamInv /\ TieInv /\ ProcTyped /\ rec[p] \in ProcessType BY DEF CoreInv, ProcInv, ProcTyped
<1>2. ctx' = ctx /\ helper' = helper /\ failed' = failed /\ host' = host /\ hand' = hand /\ str' = str /\ thr' = thr
  BY DEF WaitEnter, WaitRefused, WaitNoHang, WaitBreaks, WaitEnds, WaitFails, contextVars, hostVars, streamVars
<1>3. ProcInv' BY <1>1, AnswerKeeps, WaitEndsKeeps, WaitFailsKeeps
<1>4. StreamInv' BY <1>1, <1>2, StreamSame
<1>5. \A q \in Procs : active'[q] \subseteq active[q]
  <2>1. active' = active \/ Terminate({p})
    BY DEF WaitEnter, WaitRefused, WaitNoHang, WaitBreaks, WaitEnds, WaitFails, procVars
  <2> QED BY <1>1, <2>1, TerminateEnds DEF Ending
<1>6. (\A q \in Procs \ {p} : rec'[q] = rec[q])
      /\ rec'[p].life = rec[p].life /\ rec'[p].home = rec[p].home /\ rec'[p].cleaning = rec[p].cleaning
  <2>1. CASE WaitEnter(p) \/ WaitRefused(p) \/ WaitNoHang(p) \/ WaitBreaks(p)
    BY <1>1, <2>1 DEF WaitEnter, WaitRefused, WaitNoHang, WaitBreaks, procVars, ProcTyped, ProcessType
  <2>2. CASE WaitEnds(p)
    <3> DEFINE yes == TRUE  no == FALSE
               w == rec[p].waited \/ rec[p].life = "live"
               given == [rec[p] EXCEPT !.waited = w]
    <3>1. CASE rec[p].life = "live" /\ ~rec[p].reaped
      <4>1. PICK closes \in BOOLEAN :
              rec' = [rec EXCEPT ![p].reaped = TRUE, ![p].waited = TRUE, ![p].code = status[p],
                                 ![p].handles = FALSE, ![p].closer = closes, ![p].console = @ /\ ~closes]
        BY <2>2, <3>1 DEF WaitEnds
      <4> DEFINE opens == rec[p].console /\ ~closes
                 r == [rec[p] EXCEPT !.reaped = yes, !.waited = yes, !.code = status[p],
                                     !.handles = no, !.closer = closes, !.console = opens]
      <4>2. rec' = [rec EXCEPT ![p] = r] BY <4>1, <1>1 DEF ProcTyped
      <4>3. r.life = rec[p].life /\ r.home = rec[p].home /\ r.cleaning = rec[p].cleaning
        <5> HIDE DEF opens, yes, no
        <5> QED BY <1>1 DEF ProcessType
      <4> HIDE DEF r
      <4> QED BY <1>1, <4>2, <4>3 DEF ProcTyped
    <3>2. CASE ~(rec[p].life = "live" /\ ~rec[p].reaped)
      <4>1. rec' = [rec EXCEPT ![p] = given] BY <1>1, <2>2, <3>2 DEF WaitEnds, ProcTyped
      <4>2. given.life = rec[p].life /\ given.home = rec[p].home /\ given.cleaning = rec[p].cleaning
        <5> HIDE DEF w
        <5> QED BY <1>1 DEF ProcessType
      <4> HIDE DEF given
      <4> QED BY <1>1, <4>1, <4>2 DEF ProcTyped
    <3> QED BY <3>1, <3>2
  <2>3. CASE WaitFails(p) BY <1>1, <2>3 DEF WaitFails, ProcTyped, ProcessType
  <2> QED BY <2>1, <2>2, <2>3
<1>7. \A q \in Procs : Settled(q) BY <1>6 DEF Settled
<1> QED BY <1>2, <1>3, <1>4, <1>5, <1>7, QuietKeeps

(* A thread in a call: it moves on, it looks the stream up again, or it    *)
(* lets the stream go.                                                     *)
LEMMA ThreadKeeps ==
  ASSUME CoreInv, NEW t \in Threads, ThreadStep(t) \/ Written(t)
  PROVE  CoreInv'
<1>1. ContextInv /\ ProcInv /\ StreamInv /\ TieInv /\ ProcTyped BY DEF CoreInv, ProcInv
<1>2. /\ ctx' = ctx /\ helper' = helper /\ failed' = failed /\ host' = host /\ hand' = hand
      /\ active' = active /\ status' = status /\ console' = console /\ told' = told /\ waiter' = waiter
  BY DEF ThreadStep, TakeReader, Submit, PeekCompletes, PeekEnds, TakeByte, EnterMore, TakeMore, WriteCancelled,
         Leave, Written, contextVars, procVars, callVars, hostVars
<1>3. StreamInv' /\ \A s \in Streams : str'[s].life = "live" => str[s].life = "live"
  BY <1>1, CallMoves, EnterMoreKeeps, ReleaseKeeps DEF ThreadStep
<1>4. \A q \in Procs : active'[q] \subseteq active[q] BY <1>2
<1>5. CASE TakeMore(t) \/ Leave(t)
  <2>1. rec' = HandedOver({thr[t].s}) BY <1>5 DEF TakeMore, Leave
  <2>2. ProcInv' BY <1>1, <1>2, <2>1, HandOverKeeps
  <2>3. \A q \in Procs : rec'[q] = rec[q] \/ Handed(q) BY <1>1, <2>1, HandedOverHands
  <2>4. \A q \in Procs : Settled(q) BY <1>1, <2>3, SettledRecords
  <2> QED BY <1>2, <1>3, <1>4, <2>2, <2>4, QuietKeeps
<1>6. CASE ~(TakeMore(t) \/ Leave(t))
  <2>1. rec' = rec
    BY <1>6 DEF ThreadStep, TakeReader, Submit, PeekCompletes, PeekEnds, TakeByte, EnterMore, WriteCancelled, Written, procVars
  <2>2. ProcInv' BY <1>1, <1>2, <2>1, ProcSame
  <2>3. \A q \in Procs : Settled(q) BY <2>1 DEF Settled
  <2> QED BY <1>2, <1>3, <1>4, <2>2, <2>3, QuietKeeps
<1> QED BY <1>5, <1>6

(* A call begins, or visjail_close takes a stream out of the table. *)
LEMMA StreamKeeps ==
  ASSUME CoreInv, NEW s \in Streams,
         Close(s) \/ \E t \in Threads, op \in {"read", "poll", "write"} : Enter(t, s, op)
  PROVE  CoreInv'
<1>1. ContextInv /\ ProcInv /\ StreamInv /\ TieInv /\ ProcTyped BY DEF CoreInv, ProcInv
<1>2. /\ ctx' = ctx /\ helper' = helper /\ failed' = failed /\ host' = host /\ hand' = hand
      /\ active' = active /\ status' = status /\ console' = console /\ told' = told /\ waiter' = waiter
  BY DEF Close, Enter, contextVars, procVars, callVars, hostVars
<1>3. \A q \in Procs : active'[q] \subseteq active[q] BY <1>2
<1>4. CASE Close(s)
  <2>1. str' = Closed({s}, Dropped({s})) /\ rec' = HandedOver({s}) /\ thr' = thr /\ str[s].linked
    BY <1>4 DEF Close
  <2>2. ProcInv' BY <1>1, <1>2, <2>1, HandOverKeeps
  <2>3. \A q \in Procs : rec'[q] = rec[q] \/ Handed(q) BY <1>1, <2>1, HandedOverHands
  <2>4. \A q \in Procs : Settled(q) BY <1>1, <2>3, SettledRecords
  <2>5. \A q \in {s} : q \in Streams => str[q].linked BY <2>1
  <2>6. StreamInv' /\ \A q \in Streams : str'[q].life = "live" => str[q].life = "live"
    <3> DEFINE ss == {s}
    <3>1. str' = Closed(ss, Dropped(ss)) /\ thr' = thr BY <2>1
    <3>2. \A q \in ss : q \in Streams => str[q].linked BY <2>5
    <3>3. StreamInv BY <1>1
    <3> HIDE DEF ss
    <3> QED BY <3>1, <3>2, <3>3, CloseKeeps
  <2> QED BY <1>2, <1>3, <2>2, <2>4, <2>6, QuietKeeps
<1>5. CASE \E t \in Threads, op \in {"read", "poll", "write"} : Enter(t, s, op)
  <2>1. rec' = rec BY <1>5 DEF Enter, procVars
  <2>2. ProcInv' BY <1>1, <1>2, <2>1, ProcSame
  <2>3. \A q \in Procs : Settled(q) BY <2>1 DEF Settled
  <2>4. StreamInv' /\ \A q \in Streams : str'[q].life = "live" => str[q].life = "live"
    BY <1>1, <1>5, EnterKeeps
  <2> QED BY <1>2, <1>3, <2>2, <2>3, <2>4, QuietKeeps
<1> QED BY <1>4, <1>5

(* Nothing that the invariant speaks of changes. *)
LEMMA UnseenKeeps ==
  ASSUME CoreInv, ctx' = ctx, helper' = helper, failed' = failed, host' = host, hand' = hand, rec' = rec,
         active' = active, status' = status, console' = console, told' = told, waiter' = waiter,
         str' = str, thr' = thr
  PROVE  CoreInv'
<1>1. ProcInv /\ StreamInv BY DEF CoreInv
<1>2. ProcInv' /\ StreamInv' BY <1>1, ProcSame, StreamSame
<1>3. \A q \in Procs : active'[q] \subseteq active[q] /\ Settled(q) BY DEF Settled
<1> QED BY <1>2, <1>3, QuietKeeps

LEMMA SpawnStepKeeps ==
  ASSUME CoreInv, NEW p \in Procs, Spawn(p)
  PROVE  CoreInv'
<1>1. ContextInv /\ ProcInv /\ StreamInv /\ TieInv BY DEF CoreInv
<1>2. ContextInv' BY <1>1, OwnKept DEF Spawn, contextVars
<1> QED BY <1>1, <1>2, SpawnKeeps, SpawnStreams, SpawnTied DEF CoreInv

LEMMA DestroyStepKeeps ==
  ASSUME CoreInv, NEW x \in Contexts, Destroy(x) \/ DestroyStep(x)
  PROVE  CoreInv'
<1>1. ContextInv /\ ProcInv /\ StreamInv /\ TieInv BY DEF CoreInv
<1>2. CASE Drain(x)
  BY <1>2, UnseenKeeps DEF Drain, contextVars, streamVars, callVars, hostVars
<1>3. CASE ~Drain(x)
  BY <1>1, <1>3, DestroyTied, StreamsGoneKeeps, RecordsKeep, DrainTied, CloseDesktopKeeps, ReleaseTied
     DEF DestroyStep, CoreInv
<1> QED BY <1>2, <1>3

-----------------------------------------------------------------------------
LEMMA CoreInit ==
  ASSUME Init
  PROVE  CoreInv
<1>0. plan \in Plans /\ ctx = [x \in Contexts |-> IF x \in plan.sealed THEN SealedContext ELSE NewContext]
      /\ helper = [x \in Contexts |-> "none"] /\ failed = None
  BY DEF Init, ContextInit
<1>1. /\ SealedContext \in ContextType /\ SealedContext.life = "open" /\ ~SealedContext.ui /\ SealedContext.job
      /\ NewContext \in ContextType /\ NewContext.life = "none" /\ ~Owns(NewContext)
  BY DEF SealedContext, NewContext, ContextType, Lives, Owns
<1>2. ContextInv
  <2>1. ContextTyped BY <1>0, <1>1 DEF ContextTyped, HelperType
  <2>2. ASSUME NEW x \in Contexts PROVE Own(x)
    <3>1. helper[x] = "none" /\ ctx[x] \in {SealedContext, NewContext} BY <1>0
    <3> QED BY <1>1, <3>1 DEF Own, Owns, HelperGone
  <2> QED BY <1>0, <2>1, <2>2 DEF ContextInv
<1>3. NewProcess \in ProcessType /\ NewProcess.life = "none" /\ ~NewProcess.reaped /\ ~NewProcess.waited
      /\ ~NewProcess.cleaning /\ ~NewProcess.closer /\ ~NewProcess.console /\ NewProcess.home = None
  BY DEF NewProcess, ProcessType, Codes
<1>4. ProcInv
  <2>1. ProcTyped BY <1>3 DEF Init, ProcTyped
  <2>2. ASSUME NEW p \in Procs PROVE Record(p)
    <3>1. rec[p] = NewProcess /\ active[p] = {} /\ status[p] = None /\ console[p] = "none" /\ told[p] = None
          /\ waiter[p] = "idle"
      BY DEF Init
    <3> QED BY <1>3, <3>1 DEF Record, Unborn, Coded, Owned, Spent, Answered
  <2> QED BY <2>1, <2>2 DEF ProcInv
<1> DEFINE zero == 0
<1>5. NewStream \in StreamType /\ NewStream.life = "none" /\ ~NewStream.linked /\ NewStream.refs = 0
  <2>1. NewStream = [life |-> "none", linked |-> FALSE, refs |-> zero, cancel |-> FALSE,
                     pending |-> FALSE, cached |-> FALSE, eof |-> FALSE] /\ zero \in Int /\ zero = 0
    BY DEF NewStream
  <2> HIDE DEF zero
  <2> QED BY <2>1 DEF StreamType
<1>6. IdleThread \in ThreadType /\ IdleThread.pc = "idle" BY DEF IdleThread, ThreadType, Calls
<1>7. StreamInv
  <2>1. StreamTyped /\ \A t \in Threads : thr[t].pc = "idle" BY <1>5, <1>6 DEF Init, StreamTyped
  <2>2. ASSUME NEW s \in Streams PROVE Counted(s)
    <3>1. Users(s) = {} /\ Bulks(s) = {} BY <2>1 DEF Users, Bulks
    <3>2. Cardinality(Users(s)) = 0 /\ Cardinality(Bulks(s)) = 0 BY <3>1, Countable
    <3>3. str[s] = NewStream BY DEF Init
    <3> QED BY <1>5, <3>2, <3>3 DEF Counted, Listed
  <2> QED BY <2>1, <2>2 DEF StreamInv
<1>8. TieInv
  <2>1. /\ HostTyped /\ \A x \in Contexts : host[x] = "idle" /\ hand[x] = None
        /\ \A p \in Procs : rec[p] = NewProcess /\ active[p] = {}
        /\ \A s \in Streams : str[s] = NewStream
    BY DEF Init, HostTyped
  <2> QED BY <1>3, <1>5, <2>1 DEF TieInv, ProcTied, StreamTied, HostTied
<1> QED BY <1>2, <1>4, <1>7, <1>8 DEF CoreInv

(* No step of a host thread, the kernel, a guest, a helper or a destroy    *)
(* loses the invariant.                                                    *)
LEMMA CoreStep ==
  ASSUME CoreInv, [Next]_vars
  PROVE  CoreInv'
<1>1. CASE UNCHANGED vars
  BY <1>1, UnseenKeeps DEF vars, contextVars, procVars, streamVars, callVars, hostVars
<1>2. ASSUME NEW x \in Contexts, (ContextStep(x) /\ UNCHANGED OtherVars) \/ Destroy(x) \/ DestroyRefused(x) \/ DestroyStep(x)
      PROVE  CoreInv'
  BY <1>2, ContextStepKeeps, DestroyStepKeeps, DestroyRefusedKeeps
<1>3. ASSUME NEW p \in Procs,
             \/ Spawn(p) \/ SpawnFails(p) \/ SpawnReturns(p) \/ Kill(p) \/ Exits(p) \/ ChildExits(p) \/ Kernel(p)
             \/ WaitEnter(p) \/ WaitRefused(p) \/ WaitNoHang(p) \/ WaitBreaks(p) \/ WaitEnds(p) \/ WaitFails(p)
      PROVE  CoreInv'
  BY <1>3, SpawnStepKeeps, GuestStepKeeps, WaitStepKeeps DEF Quietly
<1>4. ASSUME NEW s \in Streams,
             Close(s) \/ \E t \in Threads, op \in {"read", "poll", "write"} : Enter(t, s, op)
      PROVE  CoreInv'
  BY <1>4, StreamKeeps
<1>5. ASSUME NEW t \in Threads, ThreadStep(t) \/ Written(t) PROVE CoreInv'
  BY <1>5, ThreadKeeps
<1> QED BY <1>1, <1>2, <1>3, <1>4, <1>5 DEF Next

-----------------------------------------------------------------------------
(* Spawns that have not returned.                                          *)

LEMMA LeaveQuiet ==
  ASSUME LeaveInv, leaving' = leaving, \A p \in leaving : ctx'[Home[p]].linked,
         \A p \in Procs : console'[p] = "orphan" => console[p] = "orphan"
  PROVE  LeaveInv'
BY DEF LeaveInv

(* A workspace that is linked stays so: only a destroy unlinks one, and    *)
(* not while a spawn of it has not returned.                               *)
LEMMA LinkedStays ==
  ASSUME ContextInv, LeaveInv, \A y \in Contexts : StaysOpen(y)
  PROVE  \A p \in leaving : ctx'[Home[p]].linked
<1>1. ASSUME NEW p \in leaving PROVE ctx'[Home[p]].linked
  <2>1. Home[p] \in Contexts /\ ctx[Home[p]].linked BY JailAssumption DEF LeaveInv
  <2>2. ctx[Home[p]].life = "open" BY <2>1 DEF ContextInv, Own
  <2> QED BY <2>1, <2>2 DEF StaysOpen
<1> QED BY <1>1

(* Giving a console to be closed, and its closing, orphan none. *)
LEMMA ConsoleNotOrphaned ==
  ASSUME ProcTyped, NEW p \in Procs, UNCHANGED console \/ CloserStarts(p) \/ ConsoleCloses(p)
  PROVE  \A q \in Procs : console'[q] = "orphan" => console[q] = "orphan"
BY DEF ProcTyped, CloserStarts, ConsoleCloses

LEMMA LeaveSpawn ==
  ASSUME CoreInv, LeaveInv, NEW p \in Procs, Spawn(p) \/ SpawnFails(p)
  PROVE  LeaveInv'
<1>1. /\ ctx' = ctx /\ leaving' = leaving \cup {p} /\ ctx[Home[p]].linked /\ ProcTyped
  BY DEF Spawn, SpawnFails, MaySpawn, contextVars, CoreInv, ProcInv
<1>2. \A q \in Procs : q # p => console'[q] = console[q]
  BY <1>1 DEF Spawn, SpawnFails, ProcTyped
<1> QED BY <1>1, <1>2 DEF LeaveInv

LEMMA LeaveReturn ==
  ASSUME CoreInv, LeaveInv, NEW p \in Procs, SpawnReturns(p)
  PROVE  LeaveInv'
<1>1. /\ ctx' = ctx /\ leaving' = leaving \ {p} /\ ProcTyped
      /\ console' = [console EXCEPT ![p] = IF @ = "orphan" THEN "none" ELSE @]
  BY DEF SpawnReturns, contextVars, CoreInv, ProcInv
<1>2. \A q \in Procs : console'[q] = "orphan" => console[q] = "orphan" /\ q # p
  BY <1>1 DEF ProcTyped
<1> QED BY <1>1, <1>2 DEF LeaveInv

(* A destroy, which has the monitor when it unlinks the workspace; a later *)
(* step finds it unlinked, so that no spawn of it is still to return.      *)
LEMMA LeaveDestroy ==
  ASSUME CoreInv, LeaveInv, NEW x \in Contexts, Destroy(x) \/ DestroyRefused(x) \/ DestroyStep(x)
  PROVE  LeaveInv'
<1>0. /\ ContextInv /\ TieInv /\ ProcTyped /\ ctx \in [Contexts -> ContextType] /\ ctx[x] \in ContextType
  BY DEF CoreInv, ProcInv, ContextInv, ContextTyped
<1>1. leaving' = leaving
  BY DEF Destroy, DestroyRefused, DestroyStep, StreamsGone, StreamsWaitFails, TakeRecord, TakeRecordFails, Drain,
         Drained, DrainFails, CloseDesktop, DeleteProfile, callVars
<1>2. \A y \in Contexts \ {x} : ctx'[y] = ctx[y]
  BY <1>0 DEF Destroy, DestroyRefused, DestroyStep, StreamsGone, StreamsWaitFails, TakeRecord, TakeRecordFails, Drain,
         Drained, DrainFails, CloseDesktop, DeleteProfile, contextVars
<1>3. \A p \in leaving : Home[p] # x \/ ctx'[x].linked
  <2>1. CASE Destroy(x) BY <2>1 DEF Destroy, Monitor
  <2>2. CASE DestroyRefused(x)
    <3>1. ctx' = [ctx EXCEPT ![x].poisoned = TRUE] /\ ctx[x].linked BY <2>2 DEF DestroyRefused
    <3> QED BY <1>0, <3>1 DEF ContextType
  <2>3. CASE DestroyStep(x)
    <3>1. host[x] # "idle"
      BY <2>3 DEF DestroyStep, StreamsGone, StreamsWaitFails, TakeRecord, TakeRecordFails, Drain, Drained,
                  DrainFails, CloseDesktop, DeleteProfile
    <3>2. ~ctx[x].linked BY <1>0, <3>1 DEF TieInv, HostTied
    <3> QED BY <3>2 DEF LeaveInv
  <2> QED BY <2>1, <2>2, <2>3
<1>4. \A p \in leaving : ctx'[Home[p]].linked
  <2>1. \A p \in leaving : Home[p] \in Contexts /\ ctx[Home[p]].linked BY JailAssumption DEF LeaveInv
  <2> QED BY <1>2, <1>3, <2>1
<1>5. \A p \in Procs : console'[p] = "orphan" => console[p] = "orphan"
  <2>1. CASE TakeRecord(x)
    <3>1. \E p \in Mine(x) : IF rec[p].console THEN CloserStarts(p) ELSE UNCHANGED console
      BY <2>1, ZenonT(60) DEF TakeRecord
    <3>2. Mine(x) \subseteq Procs BY DEF Mine
    <3> QED BY <1>0, <3>1, <3>2, ConsoleNotOrphaned
  <2>2. CASE ~TakeRecord(x)
    BY <2>2 DEF Destroy, DestroyRefused, DestroyStep, StreamsGone, StreamsWaitFails, TakeRecordFails, Drain,
                Drained, DrainFails, CloseDesktop, DeleteProfile, procVars
  <2> QED BY <2>1, <2>2
<1> QED BY <1>1, <1>4, <1>5, LeaveQuiet

LEMMA LeaveStep ==
  ASSUME CoreInv, LeaveInv, [Next]_vars
  PROVE  LeaveInv'
<1>0. ContextInv /\ ProcTyped BY DEF CoreInv, ProcInv
<1>same. ASSUME ctx' = ctx PROVE \A p \in leaving : ctx'[Home[p]].linked
  BY <1>same DEF LeaveInv
<1>1. CASE UNCHANGED vars
  BY <1>1, <1>same, LeaveQuiet DEF vars, contextVars, procVars, callVars
<1>2. ASSUME NEW x \in Contexts, ContextStep(x) /\ UNCHANGED OtherVars PROVE LeaveInv'
  <2>1. \A p \in leaving : ctx'[Home[p]].linked BY <1>0, <1>2, ContextKeeps, LinkedStays
  <2> QED BY <1>2, <2>1, LeaveQuiet DEF OtherVars, procVars, callVars
<1>3. ASSUME NEW x \in Contexts, Destroy(x) \/ DestroyRefused(x) \/ DestroyStep(x) PROVE LeaveInv'
  BY <1>3, LeaveDestroy
<1>4. ASSUME NEW p \in Procs, Spawn(p) \/ SpawnFails(p) \/ SpawnReturns(p) PROVE LeaveInv'
  BY <1>4, LeaveSpawn, LeaveReturn
<1>5. ASSUME NEW p \in Procs,
             \/ Kill(p) \/ Exits(p) \/ ChildExits(p) \/ Kernel(p)
             \/ WaitEnter(p) \/ WaitRefused(p) \/ WaitNoHang(p) \/ WaitBreaks(p) \/ WaitEnds(p) \/ WaitFails(p)
      PROVE  LeaveInv'
  <2>1. ctx' = ctx /\ leaving' = leaving
    BY <1>5 DEF Kill, Exits, ChildExits, Kernel, Emit, ConsoleCloses, WaitEnter, WaitRefused, WaitNoHang, WaitBreaks,
                WaitEnds, WaitFails, contextVars, callVars
  <2>2. UNCHANGED console \/ CloserStarts(p) \/ ConsoleCloses(p)
    BY <1>5 DEF Kill, Exits, ChildExits, Kernel, Emit, WaitEnter, WaitRefused, WaitNoHang, WaitBreaks, WaitEnds,
                WaitFails, procVars
  <2> QED BY <1>0, <1>same, <2>1, <2>2, ConsoleNotOrphaned, LeaveQuiet
<1>6. ASSUME \/ \E s \in Streams : Close(s) \/ \E t \in Threads, op \in {"read", "poll", "write"} : Enter(t, s, op)
             \/ \E t \in Threads : ThreadStep(t) \/ Written(t)
      PROVE  LeaveInv'
  <2>1. ctx' = ctx /\ leaving' = leaving /\ console' = console
    BY <1>6 DEF Close, Enter, ThreadStep, TakeReader, Submit, PeekCompletes, PeekEnds, TakeByte, EnterMore, TakeMore,
                WriteCancelled, Leave, Written, contextVars, procVars, callVars
  <2> QED BY <1>same, <2>1, LeaveQuiet
<1> QED BY <1>1, <1>2, <1>3, <1>4, <1>5, <1>6 DEF Next

-----------------------------------------------------------------------------
(* Who releases a workspace.                                               *)

LEMMA TendSame ==
  ASSUME TendInv, UNCHANGED <<ctx, failed, lock, host>>
  PROVE  TendInv'
BY DEF TendInv, Tended

(* A step of a creation, which has the table: nobody else is creating.     *)
LEMMA TendCreation ==
  ASSUME ContextTyped, TendInv, NEW x \in Contexts, lock \in {None, x}, host' = host,
         NEW c \in ContextType, ctx' = [ctx EXCEPT ![x] = c],
         c.life = "making" => lock' = x /\ failed' = None,
         c.life = "failed" => failed' = x,
         c.life # "open" \/ c.linked,
         failed # None => failed' = failed
  PROVE  TendInv'
<1>1. ctx'[x] = c /\ \A y \in Contexts \ {x} : ctx'[y] = ctx[y] BY DEF ContextTyped
<1>2. Tended(x)' BY <1>1 DEF Tended
<1>3. ASSUME NEW y \in Contexts, y # x PROVE Tended(y)'
  <2>1. Tended(y) /\ y # None BY ContextAssumption DEF TendInv
  <2>2. ctx[y].life # "making" BY <1>3, <2>1 DEF Tended
  <2> QED BY <1>1, <1>3, <2>1, <2>2 DEF Tended
<1> QED BY <1>2, <1>3 DEF TendInv

LEMMA TendContext ==
  ASSUME ContextInv, TendInv, NEW x \in Contexts, ContextStep(x), UNCHANGED OtherVars
  PROVE  TendInv'
<1>0. /\ host' = host /\ ContextTyped /\ ctx \in [Contexts -> ContextType] /\ ctx[x] \in ContextType
      /\ failed \in Contexts \cup {None} /\ Own(x) /\ Tended(x) /\ x # None
  BY ContextAssumption DEF OtherVars, hostVars, ContextInv, ContextTyped, TendInv
<1>r. Released \in ContextType /\ Released.life = "gone" BY DEF Released, NewContext, ContextType, Lives
<1>1. CASE CreateRefused(x)
  <2>0. /\ failed \in Contexts /\ ctx[failed].life = "failed" /\ Own(failed) /\ ctx[failed] \in ContextType
        /\ failed' = failed /\ lock' = lock
    BY <1>0, <1>1 DEF CreateRefused, ContextInv
  <2>1. CASE CloseUiHelper(failed)
    <3>1. PICK d \in Disposed(ctx[failed]) \ {Released} : ctx' = [ctx EXCEPT ![failed] = Kept(d)]
      BY <1>1, <2>1 DEF CreateRefused
    <3>2. Kept(d) \in ContextType /\ Kept(d).life = "failed"
      BY <2>0, <3>1, DisposedKeeps DEF Own
    <3>3. lock \in {None, failed} BY <1>1 DEF CreateRefused
    <3> QED BY <1>0, <2>0, <3>1, <3>2, <3>3, TendCreation
  <2>2. CASE ~CloseUiHelper(failed)
    BY <1>0, <1>1, <2>0, <2>2, TendSame DEF CreateRefused
  <2> QED BY <2>1, <2>2
<1>2. CASE CreateCleansUp(x)
  <2>1. /\ ctx' = [ctx EXCEPT ![failed] = Released] /\ failed' = None /\ lock = None /\ failed \in Contexts
    BY <1>0, <1>2 DEF CreateCleansUp
  <2>2. ctx'[failed] = Released /\ \A y \in Contexts \ {failed} : ctx'[y] = ctx[y] BY <1>0, <2>1
  <2>3. ASSUME NEW y \in Contexts PROVE Tended(y)'
    <3>1. CASE y = failed BY <1>r, <2>2, <3>1 DEF Tended
    <3>2. CASE y # failed
      <4>1. Tended(y) /\ y # None BY ContextAssumption DEF TendInv
      <4>2. ctx[y].life \notin {"making", "failed"} BY <2>1, <3>2, <4>1 DEF Tended
      <4> QED BY <1>0, <2>2, <3>2, <4>1, <4>2 DEF Tended
    <3> QED BY <3>1, <3>2
  <2> QED BY <2>3 DEF TendInv
<1>3. CASE Create(x)
  <2> DEFINE c == [ctx[x] EXCEPT !.life = "making", !.profile = TRUE, !.ui = TRUE]
  <2>1. ctx' = [ctx EXCEPT ![x] = c] /\ failed' = failed /\ failed = None /\ lock' = x /\ lock \in {None, x}
    BY <1>0, <1>3 DEF Create
  <2>2. c \in ContextType /\ c.life = "making" BY <1>0 DEF ContextType, Lives
  <2> HIDE DEF c
  <2> QED BY <1>0, <2>1, <2>2, TendCreation
<1>4. CASE CreateRejects(x)
  <2>1. ctx' = [ctx EXCEPT ![x] = Released] /\ failed' = failed /\ lock \in {None, x}
    BY <1>4 DEF CreateRejects
  <2> QED BY <1>0, <1>r, <2>1, TendCreation
<1>5. CASE HelperEnds(x) \/ \E answer \in {"ready", "refused"} : HelperReplies(x, answer)
  BY <1>0, <1>5, TendSame DEF HelperEnds, HelperReplies
<1>7. CASE TakeDesktop(x)
  <2> DEFINE c == [ctx[x] EXCEPT !.desktop = TRUE]
  <2>1. ctx' = [ctx EXCEPT ![x] = c] /\ failed' = failed /\ lock' = lock /\ ctx[x].life = "making"
    BY <1>0, <1>7 DEF TakeDesktop
  <2>2. c \in ContextType /\ c.life = "making" BY <1>0, <2>1 DEF ContextType
  <2>3. lock = x /\ failed = None BY <1>0, <2>1 DEF Tended
  <2> HIDE DEF c
  <2> QED BY <1>0, <2>1, <2>2, <2>3, TendCreation
<1>8. CASE Publish(x)
  <2> DEFINE c == [ctx[x] EXCEPT !.life = "open", !.linked = TRUE, !.job = TRUE, !.ui = FALSE]
  <2>1. ctx' = [ctx EXCEPT ![x] = c] /\ failed' = failed /\ ctx[x].life = "making"
    BY <1>0, <1>8 DEF Publish
  <2>2. c \in ContextType /\ c.life = "open" /\ c.linked BY <1>0 DEF ContextType, Lives
  <2>3. lock = x BY <1>0, <2>1 DEF Tended
  <2> HIDE DEF c
  <2> QED BY <1>0, <2>1, <2>2, <2>3, TendCreation
<1>9. CASE CreateFails(x)
  <2>0. ctx[x].life = "making" /\ ~ctx[x].linked /\ ~ctx[x].job BY <1>0, <1>9 DEF CreateFails, Own
  <2>1. lock = x /\ failed = None BY <1>0, <2>0 DEF Tended
  <2>2. PICK inTime \in {TRUE, HelperGone(x)} :
          \E d \in IF inTime THEN Disposed(ctx[x]) ELSE {ctx[x]} :
            /\ ctx' = [ctx EXCEPT ![x] = Kept(d)]
            /\ failed' = IF d = Released THEN None ELSE x
    BY <1>9 DEF CreateFails
  <2>3. PICK d \in IF inTime THEN Disposed(ctx[x]) ELSE {ctx[x]} :
            /\ ctx' = [ctx EXCEPT ![x] = Kept(d)]
            /\ failed' = IF d = Released THEN None ELSE x
    BY <2>2
  <2>4. /\ Kept(d) \in ContextType /\ Kept(d).life \in {"failed", "gone"}
        /\ d = Released => Kept(d).life = "gone"
    <3>1. CASE inTime BY <1>0, <1>r, <2>0, <2>3, <3>1, DisposedKeeps
    <3>2. CASE ~inTime
      <4>1. d = ctx[x] BY <2>3, <3>2
      <4> QED BY <1>0, <1>r, <2>0, <4>1 DEF Kept, ContextType, Lives
    <3> QED BY <3>1, <3>2
  <2> QED BY <1>0, <2>1, <2>3, <2>4, TendCreation
<1>10. CASE StageFails(x) \/ Seal(x)
  <2>1. PICK c \in {[ctx[x] EXCEPT !.sealed = TRUE], [ctx[x] EXCEPT !.poisoned = TRUE]} : ctx' = [ctx EXCEPT ![x] = c]
    BY <1>0, <1>10 DEF StageFails, Seal
  <2>2. c \in ContextType /\ c.life = ctx[x].life /\ c.linked = ctx[x].linked BY <1>0, <2>1 DEF ContextType
  <2>3. failed' = failed /\ lock = None /\ ctx[x].linked BY <1>10 DEF StageFails, Seal
  <2>4. c.life = "open" /\ c.linked BY <1>0, <2>2, <2>3 DEF Own
  <2> QED BY <1>0, <2>1, <2>2, <2>3, <2>4, TendCreation
<1> QED BY <1>1, <1>2, <1>3, <1>4, <1>5, <1>7, <1>8, <1>9, <1>10 DEF ContextStep

(* A step of a destroy: it unlinks the workspace, links it again when it   *)
(* stops, or releases it.                                                  *)
LEMMA TendDestroy ==
  ASSUME CoreInv, TendInv, NEW x \in Contexts, Destroy(x) \/ DestroyRefused(x) \/ DestroyStep(x)
  PROVE  TendInv'
<1>0. /\ ctx \in [Contexts -> ContextType] /\ ctx[x] \in ContextType /\ Own(x) /\ HostTied(x) /\ x # None
      /\ host \in [Contexts -> {"idle", "streams", "records", "drain", "profile"}]
  BY ContextAssumption DEF CoreInv, ContextInv, ContextTyped, TieInv, HostTyped
<1>1. ctx[x].life = "open"
  <2>1. ctx[x].linked \/ host[x] # "idle"
    BY DEF Destroy, DestroyRefused, DestroyStep, StreamsGone, StreamsWaitFails, TakeRecord, TakeRecordFails, Drain,
           Drained, DrainFails, CloseDesktop, DeleteProfile
  <2> QED BY <1>0, <2>1 DEF Own, HostTied
<1>2. /\ failed' = failed /\ (lock' = lock \/ lock \in {None, x})
      /\ \A y \in Contexts \ {x} : ctx'[y] = ctx[y] /\ host'[y] = host[y]
  BY <1>0 DEF Destroy, DestroyRefused, DestroyStep, StreamsGone, StreamsWaitFails, TakeRecord, TakeRecordFails, Drain,
         Drained, DrainFails, CloseDesktop, DeleteProfile, Retry, contextVars, hostVars
<1>3. ctx'[x].life \in {"open", "gone"} /\ (ctx'[x].life = "open" /\ ~ctx'[x].linked => host'[x] # "idle")
  <2>1. CASE Destroy(x)
    <3>1. ctx' = [ctx EXCEPT ![x].poisoned = TRUE, ![x].linked = FALSE] /\ host' = [host EXCEPT ![x] = "streams"]
      BY <2>1 DEF Destroy
    <3> QED BY <1>0, <1>1, <3>1 DEF ContextType
  <2>2. CASE DestroyRefused(x)
    <3>1. ctx' = [ctx EXCEPT ![x].poisoned = TRUE] /\ ctx[x].linked BY <2>2 DEF DestroyRefused
    <3> QED BY <1>0, <1>1, <3>1 DEF ContextType
  <2>3. CASE StreamsGone(x) \/ TakeRecord(x) \/ Drained(x) \/ Drain(x)
    <3>1. ctx' = ctx /\ host'[x] # "idle"
      BY <1>0, <2>3 DEF StreamsGone, TakeRecord, Drained, Drain, contextVars, hostVars
    <3> QED BY <1>1, <3>1
  <2>4. CASE StreamsWaitFails(x) \/ TakeRecordFails(x) \/ DrainFails(x)
    <3>1. ctx' = [ctx EXCEPT ![x].linked = TRUE] BY <2>4 DEF StreamsWaitFails, TakeRecordFails, DrainFails
    <3> QED BY <1>0, <1>1, <3>1 DEF ContextType
  <2>5. CASE CloseDesktop(x)
    <3>1. \/ ctx' = [ctx EXCEPT ![x].desktop = FALSE] /\ host' = [host EXCEPT ![x] = "profile"]
          \/ ctx' = [ctx EXCEPT ![x].linked = TRUE]
      BY <2>5 DEF CloseDesktop
    <3> QED BY <1>0, <1>1, <3>1 DEF ContextType
  <2>6. CASE DeleteProfile(x)
    <3>1. \/ ctx' = [ctx EXCEPT ![x] = Released]
          \/ ctx' = [ctx EXCEPT ![x].job = FALSE, ![x].linked = TRUE]
      BY <2>6 DEF DeleteProfile
    <3>2. Released.life = "gone" BY DEF Released, NewContext
    <3> QED BY <1>0, <1>1, <3>1, <3>2 DEF ContextType
  <2> QED BY <2>1, <2>2, <2>3, <2>4, <2>5, <2>6 DEF DestroyStep
<1>4. ASSUME NEW y \in Contexts, y # x PROVE Tended(y)'
  <2>1. Tended(y) /\ y # None BY ContextAssumption DEF TendInv
  <2> QED BY <1>2, <1>4, <2>1 DEF Tended
<1> QED BY <1>3, <1>4 DEF TendInv, Tended

LEMMA TendStep ==
  ASSUME CoreInv, TendInv, [Next]_vars
  PROVE  TendInv'
<1>1. CASE UNCHANGED vars BY <1>1, TendSame DEF vars, contextVars, hostVars
<1>2. ASSUME NEW x \in Contexts, ContextStep(x) /\ UNCHANGED OtherVars PROVE TendInv'
  BY <1>2, TendContext DEF CoreInv
<1>3. ASSUME NEW x \in Contexts, Destroy(x) \/ DestroyRefused(x) \/ DestroyStep(x) PROVE TendInv'
  BY <1>3, TendDestroy
<1>4. ASSUME NEW p \in Procs,
             \/ Spawn(p) \/ SpawnFails(p) \/ SpawnReturns(p) \/ Kill(p) \/ Exits(p) \/ ChildExits(p) \/ Kernel(p)
             \/ WaitEnter(p) \/ WaitRefused(p) \/ WaitNoHang(p) \/ WaitBreaks(p) \/ WaitEnds(p) \/ WaitFails(p)
      PROVE  TendInv'
  <2>1. UNCHANGED <<ctx, failed, lock, host>>
    BY <1>4 DEF Spawn, SpawnFails, SpawnReturns, Kill, Exits, ChildExits, Kernel, Emit, ConsoleCloses, WaitEnter,
                WaitRefused, WaitNoHang, WaitBreaks, WaitEnds, WaitFails, contextVars, hostVars
  <2> QED BY <2>1, TendSame
<1>5. ASSUME \/ \E s \in Streams : Close(s) \/ \E t \in Threads, op \in {"read", "poll", "write"} : Enter(t, s, op)
             \/ \E t \in Threads : ThreadStep(t) \/ Written(t)
      PROVE  TendInv'
  <2>1. UNCHANGED <<ctx, failed, lock, host>>
    BY <1>5 DEF Close, Enter, ThreadStep, TakeReader, Submit, PeekCompletes, PeekEnds, TakeByte, EnterMore, TakeMore,
                WriteCancelled, Leave, Written, contextVars, hostVars
  <2> QED BY <2>1, TendSame
<1> QED BY <1>1, <1>2, <1>3, <1>4, <1>5 DEF Next

-----------------------------------------------------------------------------
(* A workspace has what its stage needs and no more and one who will       *)
(* release it, a record and the kernel agree on its process, a stream      *)
(* counts the threads in a call on it, a spawn that has not returned keeps *)
(* its workspace, and a destroy has got rid of what its stage says, in     *)
(* every state.                                                            *)
THEOREM JailInvariant == Spec => []JailInv
<1>1. Init => JailInv
  <2>1. ASSUME Init PROVE LeaveInv /\ TendInv
    <3>1. leaving = {} /\ \A p \in Procs : console[p] = "none" BY <2>1 DEF Init
    <3>2. ASSUME NEW x \in Contexts PROVE Tended(x)
      <4>1. ctx[x] \in {SealedContext, NewContext} BY <2>1 DEF Init, ContextInit
      <4>2. SealedContext.life = "open" /\ SealedContext.linked /\ NewContext.life = "none"
        BY DEF SealedContext, NewContext
      <4> QED BY <4>1, <4>2 DEF Tended
    <3> QED BY <3>1, <3>2 DEF LeaveInv, TendInv
  <2> QED BY <2>1, CoreInit DEF JailInv
<1>2. JailInv /\ [Next]_vars => JailInv' BY CoreStep, LeaveStep, TendStep DEF JailInv
<1> QED BY <1>1, <1>2, PTL DEF Spec

-----------------------------------------------------------------------------
(* visjail.h: "destroy terminates and waits for every context descendant   *)
(* before releasing it".  A workspace that was released, or never          *)
(* published, has no helper, process, console, stream or handle left and   *)
(* no spawn with its console or its pins still to give up, whatever failed *)
(* and whoever was inside (visjail_windows_destroy, under the monitor of   *)
(* WindowsJail that spawn and close share).                                *)
THEOREM WorkspaceReleased == Spec => []ReleasedOwnsNothing
<1>1. ASSUME JailInv, NEW x \in Contexts, ctx[x].life \in {"none", "gone"}
      PROVE  ~Owns(ctx[x]) /\ HelperGone(x)
  BY <1>1 DEF JailInv, CoreInv, ContextInv, Own, Owns
<1>2. ASSUME JailInv, NEW x \in Contexts, ctx[x].life \in {"none", "gone"}, NEW p \in Procs, Home[p] = x
      PROVE  /\ active[p] = {} /\ console[p] \in {"none", "closed"} /\ Nothing(rec[p])
             /\ p \notin leaving /\ \A s \in Streams : s[1] = p => str[s].life # "live"
  <2>1. Record(p) /\ ProcTied(p) /\ ProcTyped /\ \A s \in Streams : StreamTied(s)
    BY <1>2 DEF JailInv, CoreInv, ProcInv, TieInv
  <2>2. ~ctx[x].job BY <1>1, <1>2 DEF Owns
  <2>3. active[p] = {} BY <1>2, <2>1, <2>2 DEF ProcTied
  <2>4. ~(rec[p].life = "live" /\ rec[p].home # None) BY <1>2, <2>1 DEF ProcTied
  <2>5. rec[p].life \in {"none", "live", "freed"} BY <2>1 DEF ProcTyped, ProcessType
  <2>6. Nothing(NewProcess) BY DEF Nothing, NewProcess
  <2>7. Nothing(rec[p]) BY <2>1, <2>4, <2>5, <2>6 DEF Record, Unborn, Spent
  <2>8. console[p] \in {"none", "closed"} /\ p \notin leaving
    <3>1. p \notin leaving BY <1>1, <1>2 DEF JailInv, LeaveInv, Owns
    <3> QED BY <1>2, <2>1, <2>7, <3>1 DEF Record, Owned, Nothing, ProcTyped, JailInv, LeaveInv
  <2>9. \A s \in Streams : s[1] = p => str[s].life # "live" BY <1>2, <2>1 DEF StreamTied
  <2> QED BY <2>3, <2>7, <2>8, <2>9
<1>3. JailInv => ReleasedOwnsNothing BY <1>1, <1>2 DEF ReleasedOwnsNothing, Nothing
<1> QED BY <1>3, JailInvariant, PTL

(* stream_get and stream_release: a thread in a call keeps its stream and, *)
(* through it, the workspace; the record a destroy drains stays the        *)
(* destroy's; and a console a record still owns is open, so that           *)
(* close_console runs once for it.                                         *)
THEOREM NothingAfterFree == Spec => []NothingUsedAfterFree
<1>1. ASSUME CoreInv, NEW t \in Threads, ~At(t, "idle")
      PROVE  str[thr[t].s].life = "live" /\ ctx[Home[thr[t].s[1]]].life = "open"
  <2>1. thr[t].s \in Streams /\ str[thr[t].s].life = "live" BY <1>1, UserLive DEF CoreInv, At
  <2> QED BY <1>1, <2>1 DEF CoreInv, TieInv, StreamTied
<1>2. ASSUME CoreInv, NEW x \in Contexts, hand[x] # None
      PROVE  rec[hand[x]].life = "live" /\ rec[hand[x]].home = x
  BY <1>2 DEF CoreInv, TieInv, HostTied
<1>3. ASSUME CoreInv, NEW p \in Procs, rec[p].console PROVE console[p] = "open"
  BY <1>3 DEF CoreInv, ProcInv, Record, Owned
<1>4. JailInv => NothingUsedAfterFree BY <1>1, <1>2, <1>3 DEF JailInv, NothingUsedAfterFree
<1> QED BY <1>4, JailInvariant, PTL

(* A workspace that owns anything, or whose helper still runs, has one who *)
(* will release it and not two: its creation, the table's failed_context,  *)
(* the host that may still destroy it, or the destroy that is under way    *)
(* (visjail_windows_create, dispose_failed_context,                        *)
(* visjail_windows_destroy).                                               *)
THEOREM NothingIsForgotten == Spec => []NothingForgotten
<1>1. ASSUME JailInv, NEW x \in Contexts, Owns(ctx[x]) \/ ~HelperGone(x)
      PROVE  \/ ctx[x].life = "making" /\ lock = x
             \/ ctx[x].life = "failed" /\ failed = x
             \/ ctx[x].life = "open" /\ (ctx[x].linked <=> host[x] = "idle")
  <2>1. /\ Own(x) /\ Tended(x) /\ ctx[x] \in ContextType /\ HostTied(x)
    BY <1>1 DEF JailInv, CoreInv, ContextInv, ContextTyped, TieInv, TendInv
  <2>2. ctx[x].life \notin {"none", "gone"} BY <1>1, <2>1 DEF Own, Owns
  <2>3. ctx[x].life \in Lives BY <2>1 DEF ContextType
  <2> QED BY <2>1, <2>2, <2>3 DEF Lives, Tended, HostTied
<1>2. JailInv => NothingForgotten BY <1>1 DEF NothingForgotten
<1> QED BY <1>2, JailInvariant, PTL

(* "Preserve an exit record even when Java's reaper has not entered wait": *)
(* whether a wait, another wait or a destroy reaps the process, the first  *)
(* answer about it is its exit code, an error of the wait or the 1 of a    *)
(* destroy that could not ask; that it is unknown is said only while its   *)
(* record is kept, when no handle could be had (visjail_wait, reclaim).    *)
THEOREM FirstAnswer == Spec => []FirstWaitAnswers
<1>1. JailInv => FirstWaitAnswers BY DEF JailInv, CoreInv, ProcInv, Record, Answered, FirstWaitAnswers
<1> QED BY <1>1, JailInvariant, PTL
=============================================================================
