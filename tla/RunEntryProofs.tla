--------------------------- MODULE RunEntryProofs ---------------------------
(***************************************************************************)
(* RunEntry proved for every number of threads, sessions and nested runs,  *)
(* and every depth of the session stack.                                   *)
(*                                                                         *)
(* What a host call is told depends on the stack the code keeps, so the    *)
(* invariant says how that stack follows the true nesting: the depth is    *)
(* the number of runs in progress, the entries that exist are the names of *)
(* those runs (StackInv), and what a run was told is its own place         *)
(* (ToldInv).                                                              *)
(***************************************************************************)
EXTENDS RunEntry, SequenceTheorems, TLAPS

ModeInv == \A t \in Threads : mode[t] = "out" <=> Len(frames[t]) = 0

StackInv ==
  \A t \in Threads :
    /\ depth[t] = Len(frames[t])
    /\ \A k \in 1..Len(frames[t]) : k <= Depth => names[t][k] = frames[t][k].session

Place(k, s) == IF k > Depth \/ s = None THEN 0 ELSE k

ToldInv ==
  \A t \in Threads : \A k \in 1..Len(frames[t]) :
    frames[t][k].asked => frames[t][k].told = Place(k, frames[t][k].session)

RunInv == TypeOK /\ ModeInv /\ StackInv /\ ToldInv /\ SlotNamesARun

-----------------------------------------------------------------------------
Told(f, n, a, p) == [f EXCEPT ![n].asked = a, ![n].told = p]

OnlyTold(f, n, a, p, g) ==
  /\ g \in Seq(Frame)
  /\ Len(g) = Len(f)
  /\ \A k \in 1..Len(f) : g[k].kind = f[k].kind /\ g[k].session = f[k].session
  /\ \A k \in 1..Len(f) : k # n => g[k] = f[k]
  /\ g[n].asked = a /\ g[n].told = p

(* A host call or its return changes what its run was told and nothing     *)
(* else of the runs in progress.                                           *)
LEMMA SetTold ==
  ASSUME NEW f \in Seq(Frame), NEW n \in 1..Len(f), NEW a \in BOOLEAN, NEW p \in 0..Depth,
         NEW g, g = Told(f, n, a, p)
  PROVE  OnlyTold(f, n, a, p, g)
<1>1. DOMAIN f = 1..Len(f) /\ Len(f) \in Nat /\ f \in [1..Len(f) -> Frame] OBVIOUS
<1>2. f[n] \in Frame BY <1>1
<1>3. PICK h : h = [f[n] EXCEPT !.asked = a, !.told = p] OBVIOUS
<1>4. h \in Frame /\ h.kind = f[n].kind /\ h.session = f[n].session /\ h.asked = a /\ h.told = p
  BY <1>2, <1>3 DEF Frame
<1>5. g = [f EXCEPT ![n] = h]
  BY <1>1, <1>2, <1>3 DEF Frame, Told
<1>6. g \in Seq(Frame) /\ Len(g) = Len(f) BY <1>4, <1>5, ExceptSeq
<1> QED BY <1>1, <1>4, <1>5, <1>6 DEF OnlyTold

(* The pointer of vis_py_current_session is the place of the innermost     *)
(* run, when that has an entry with a name.                                *)
LEMMA CurrentIsTop ==
  ASSUME RunInv, NEW t \in Threads, Len(frames[t]) > 0
  PROVE  CurrentSession(t) = Place(Len(frames[t]), Top(t).session) /\ CurrentSession(t) \in 0..Depth
<1>1. frames[t] \in Seq(Frame) /\ Len(frames[t]) \in Nat BY DEF RunInv, TypeOK
<1>2. depth[t] = Len(frames[t]) BY DEF RunInv, StackInv
<1>3. Depth \in Nat BY RunAssumption
<1>4. CASE depth[t] > Depth BY <1>1, <1>2, <1>3, <1>4 DEF CurrentSession, Place
<1>5. CASE depth[t] <= Depth
  <2>1. Len(frames[t]) \in 1..Len(frames[t]) BY <1>1
  <2>2. names[t][Len(frames[t])] = Top(t).session
    BY <1>2, <1>5, <2>1 DEF RunInv, StackInv, Top
  <2> QED BY <1>1, <1>2, <1>3, <1>5, <2>2 DEF CurrentSession, Place
<1> QED BY <1>1, <1>2, <1>3, <1>4, <1>5

-----------------------------------------------------------------------------
LEMMA EnterKeeps ==
  ASSUME RunInv, NEW t \in Threads, NEW kind \in Kinds, NEW s \in Names, Enter(t, kind, s)
  PROVE  RunInv'
<1>1. frames \in [Threads -> Seq(Frame)] /\ Depth \in Nat /\ Depth # 0
  BY RunAssumption DEF RunInv, TypeOK
<1>2. PICK r : r = [kind |-> kind, session |-> s, asked |-> FALSE, told |-> 0] OBVIOUS
<1>3. r \in Frame /\ r.kind = kind /\ r.session = s /\ r.asked = FALSE
  BY <1>1, <1>2 DEF Frame
<1>4. frames' = [frames EXCEPT ![t] = Append(frames[t], r)] BY <1>2 DEF Enter
<1>5. PICK n \in Nat : n = Len(frames[t]) BY <1>1
<1>6. frames'[t] = Append(frames[t], r) /\ frames' \in [Threads -> Seq(Frame)]
  BY <1>1, <1>3, <1>4
<1>7. Len(frames'[t]) = n + 1 /\ frames'[t][n + 1] = r /\ \A k \in 1..n : frames'[t][k] = frames[t][k]
  BY <1>1, <1>3, <1>5, <1>6
<1>8. \A u \in Threads : u # t => frames'[u] = frames[u] BY <1>1, <1>4
<1>9. depth[t] = n /\ depth \in [Threads -> Nat] /\ names \in [Threads -> [1..Depth -> Names]]
  BY <1>5 DEF RunInv, StackInv, TypeOK
<1>10. depth' = [depth EXCEPT ![t] = n + 1]
  BY <1>9 DEF Enter, RunPush
<1>11. names' = IF n < Depth THEN [names EXCEPT ![t][n + 1] = s] ELSE names
  BY <1>9 DEF Enter, RunPush
<1>12. names' \in [Threads -> [1..Depth -> Names]]
  <2>1. CASE n < Depth
    <3>1. n + 1 \in 1..Depth BY <1>1, <1>5, <2>1
    <3> QED BY <1>9, <1>11, <2>1, <3>1
  <2> QED BY <1>9, <1>11, <2>1
<1>13. \A u \in Threads, k \in 1..Depth : (u # t \/ k # n + 1) => names'[u][k] = names[u][k]
  BY <1>9, <1>11
<1>14. n + 1 <= Depth => names'[t][n + 1] = s
  <2> SUFFICES ASSUME n + 1 <= Depth PROVE names'[t][n + 1] = s OBVIOUS
  <2>1. n < Depth /\ n + 1 \in 1..Depth BY <1>1
  <2> QED BY <1>9, <1>11, <2>1
<1>15. TypeOK'
  <2>1. running_thread' \in Threads \cup {None} BY DEF Enter, RunInv, TypeOK
  <2>2. mode' \in [Threads -> {"out", "python", "host"}] BY DEF Enter, RunInv, TypeOK
  <2>3. depth' \in [Threads -> Nat] BY <1>9, <1>10
  <2> QED BY <1>6, <1>12, <2>1, <2>2, <2>3 DEF Enter, RunInv, TypeOK
<1>16. ModeInv'
  <2> SUFFICES ASSUME NEW u \in Threads PROVE mode'[u] = "out" <=> Len(frames'[u]) = 0 BY DEF ModeInv
  <2>1. mode' = [mode EXCEPT ![t] = "python"] /\ mode \in [Threads -> {"out", "python", "host"}]
    BY DEF Enter, RunInv, TypeOK
  <2>2. CASE u = t BY <1>7, <2>1, <2>2
  <2>3. CASE u # t BY <1>8, <2>1, <2>3 DEF RunInv, ModeInv
  <2> QED BY <2>2, <2>3
<1>17. StackInv'
  <2> SUFFICES ASSUME NEW u \in Threads
               PROVE  /\ depth'[u] = Len(frames'[u])
                      /\ \A k \in 1..Len(frames'[u]) : k <= Depth => names'[u][k] = frames'[u][k].session
    BY DEF StackInv
  <2>1. CASE u # t
    <3>1. depth'[u] = depth[u] BY <1>9, <1>10, <2>1
    <3>2. frames'[u] = frames[u] /\ Len(frames[u]) \in Nat BY <1>1, <1>8, <2>1
    <3>3. ASSUME NEW k \in 1..Len(frames[u]), k <= Depth PROVE names'[u][k] = names[u][k]
      <4>1. k \in 1..Depth BY <1>1, <3>2, <3>3
      <4> QED BY <1>13, <2>1, <4>1
    <3> QED BY <3>1, <3>2, <3>3 DEF RunInv, StackInv
  <2>2. CASE u = t
    <3>1. ASSUME NEW k \in 1..(n + 1), k <= Depth PROVE names'[t][k] = frames'[t][k].session
      <4>1. CASE k = n + 1 BY <1>3, <1>7, <1>14, <3>1, <4>1
      <4>2. CASE k # n + 1
        <5>1. k \in 1..n /\ k \in 1..Depth BY <1>1, <1>5, <3>1, <4>2
        <5>2. names'[t][k] = names[t][k] BY <1>13, <4>2, <5>1
        <5>3. names[t][k] = frames[t][k].session BY <1>5, <3>1, <5>1 DEF RunInv, StackInv
        <5> QED BY <1>7, <5>1, <5>2, <5>3
      <4> QED BY <4>1, <4>2
    <3> QED BY <1>7, <1>9, <1>10, <2>2, <3>1
  <2> QED BY <2>1, <2>2
<1>18. ToldInv'
  <2> SUFFICES ASSUME NEW u \in Threads, NEW k \in 1..Len(frames'[u]), frames'[u][k].asked
               PROVE  frames'[u][k].told = Place(k, frames'[u][k].session)
    BY DEF ToldInv, Place
  <2>1. CASE u # t BY <1>8, <2>1 DEF RunInv, ToldInv
  <2>2. CASE u = t
    <3>1. k # n + 1 BY <1>3, <1>7, <2>2
    <3>2. k \in 1..n BY <1>5, <1>7, <2>2, <3>1
    <3> QED BY <1>5, <1>7, <2>2, <3>2 DEF RunInv, ToldInv
  <2> QED BY <2>1, <2>2
<1>19. SlotNamesARun'
  <2> SUFFICES ASSUME running_thread' # None
               PROVE  \E k \in 1..Len(frames'[running_thread']) : frames'[running_thread'][k].kind = "run"
    BY DEF SlotNamesARun, Named
  <2>1. CASE kind = "run"
    <3>1. running_thread' = t BY <2>1 DEF Enter
    <3>2. n + 1 \in 1..Len(frames'[t]) BY <1>5, <1>7
    <3> QED BY <1>3, <1>7, <2>1, <3>1, <3>2
  <2>2. CASE kind # "run"
    <3>1. running_thread' = running_thread /\ running_thread \in Threads
      BY <2>2 DEF Enter, RunInv, TypeOK
    <3>2. PICK k \in 1..Len(frames[running_thread]) : frames[running_thread][k].kind = "run"
      BY <3>1 DEF RunInv, SlotNamesARun, Named
    <3>3. CASE running_thread = t
      <4>1. k \in 1..n /\ k \in 1..(n + 1) BY <1>5, <3>3
      <4> QED BY <1>7, <3>1, <3>2, <3>3, <4>1
    <3>4. CASE running_thread # t BY <1>8, <3>1, <3>2, <3>4
    <3> QED BY <3>3, <3>4
  <2> QED BY <2>1, <2>2
<1> QED BY <1>15, <1>16, <1>17, <1>18, <1>19 DEF RunInv

LEMMA LeaveKeeps ==
  ASSUME RunInv, NEW t \in Threads, Leave(t)
  PROVE  RunInv'
<1>1. frames \in [Threads -> Seq(Frame)] /\ Depth \in Nat
  BY RunAssumption DEF RunInv, TypeOK
<1>2. mode[t] = "python" BY DEF Leave
<1>3. PICK n \in Nat : n = Len(frames[t]) BY <1>1
<1>4. n > 0 /\ n - 1 \in Nat BY <1>2, <1>3 DEF RunInv, ModeInv
<1>5. frames' = [frames EXCEPT ![t] = SubSeq(frames[t], 1, n - 1)] BY <1>3 DEF Leave
<1>6. frames'[t] = SubSeq(frames[t], 1, n - 1) BY <1>1, <1>5
<1>7. frames'[t] \in Seq(Frame) /\ Len(frames'[t]) = n - 1 /\ \A k \in 1..(n - 1) : frames'[t][k] = frames[t][k]
  BY <1>1, <1>3, <1>4, <1>6
<1>8. \A u \in Threads : u # t => frames'[u] = frames[u] BY <1>1, <1>5
<1>9. frames' \in [Threads -> Seq(Frame)] BY <1>1, <1>5, <1>6, <1>7
<1>10. depth[t] = n /\ depth \in [Threads -> Nat] BY <1>3 DEF RunInv, StackInv, TypeOK
<1>11. depth' = [depth EXCEPT ![t] = n - 1] BY <1>4, <1>10 DEF Leave, RunPop
<1>12. names' = names BY DEF Leave
<1>13. TypeOK'
  <2>1. running_thread' \in Threads \cup {None} BY DEF Leave, RunInv, TypeOK
  <2>2. mode' \in [Threads -> {"out", "python", "host"}] BY DEF Leave, RunInv, TypeOK
  <2>3. depth' \in [Threads -> Nat] BY <1>4, <1>10, <1>11
  <2>4. pending' \in [Threads -> BOOLEAN]
    <3>1. pending' = [pending EXCEPT ![t] = pending[t] /\ Len(frames[t]) > 1] BY DEF Leave
    <3>2. (pending[t] /\ Len(frames[t]) > 1) \in BOOLEAN OBVIOUS
    <3> QED BY <3>1, <3>2, Zenon DEF RunInv, TypeOK
  <2> QED BY <1>9, <1>12, <2>1, <2>2, <2>3, <2>4 DEF Leave, RunInv, TypeOK
<1>14. ModeInv'
  <2> SUFFICES ASSUME NEW u \in Threads PROVE mode'[u] = "out" <=> Len(frames'[u]) = 0 BY DEF ModeInv
  <2>1. mode' = [mode EXCEPT ![t] = IF n = 1 THEN "out" ELSE "host"] /\ mode \in [Threads -> {"out", "python", "host"}]
    BY <1>3 DEF Leave, RunInv, TypeOK
  <2>2. CASE u = t BY <1>4, <1>7, <2>1, <2>2
  <2>3. CASE u # t BY <1>8, <2>1, <2>3 DEF RunInv, ModeInv
  <2> QED BY <2>2, <2>3
<1>15. StackInv'
  <2> SUFFICES ASSUME NEW u \in Threads
               PROVE  /\ depth'[u] = Len(frames'[u])
                      /\ \A k \in 1..Len(frames'[u]) : k <= Depth => names'[u][k] = frames'[u][k].session
    BY DEF StackInv
  <2>1. CASE u # t BY <1>8, <1>10, <1>11, <1>12, <2>1 DEF RunInv, StackInv
  <2>2. CASE u = t
    <3>1. ASSUME NEW k \in 1..(n - 1), k <= Depth PROVE names[t][k] = frames'[t][k].session
      <4>1. k \in 1..n BY <1>4
      <4> QED BY <1>3, <1>7, <3>1, <4>1 DEF RunInv, StackInv
    <3> QED BY <1>7, <1>10, <1>11, <1>12, <2>2, <3>1
  <2> QED BY <2>1, <2>2
<1>16. ToldInv'
  <2> SUFFICES ASSUME NEW u \in Threads, NEW k \in 1..Len(frames'[u]), frames'[u][k].asked
               PROVE  frames'[u][k].told = Place(k, frames'[u][k].session)
    BY DEF ToldInv, Place
  <2>1. CASE u # t BY <1>8, <2>1 DEF RunInv, ToldInv
  <2>2. CASE u = t
    <3>1. k \in 1..(n - 1) /\ k \in 1..n BY <1>4, <1>7, <2>2
    <3> QED BY <1>3, <1>7, <2>2, <3>1 DEF RunInv, ToldInv
  <2> QED BY <2>1, <2>2
<1>17. SlotNamesARun'
  <2> SUFFICES ASSUME running_thread' # None
               PROVE  \E k \in 1..Len(frames'[running_thread']) : frames'[running_thread'][k].kind = "run"
    BY DEF SlotNamesARun, Named
  <2>1. frames[t][n].kind # "run" /\ running_thread' = running_thread
    BY <1>3 DEF Leave, Top
  <2>2. running_thread \in Threads BY <2>1 DEF RunInv, TypeOK
  <2>3. PICK k \in 1..Len(frames[running_thread]) : frames[running_thread][k].kind = "run"
    BY <2>1 DEF RunInv, SlotNamesARun, Named
  <2>4. CASE running_thread = t
    <3>1. k # n BY <2>1, <2>3, <2>4
    <3>2. k \in 1..(n - 1) BY <1>3, <1>4, <2>4, <3>1
    <3> QED BY <1>7, <2>1, <2>3, <2>4, <3>2
  <2>5. CASE running_thread # t BY <1>8, <2>1, <2>2, <2>3, <2>5
  <2> QED BY <2>4, <2>5
<1> QED BY <1>13, <1>14, <1>15, <1>16, <1>17 DEF RunInv

(* A step of a host call: the runs stay and one was told something.        *)
TellsTop(t, a, p) ==
  frames' = [frames EXCEPT ![t][Len(frames[t])].asked = a, ![t][Len(frames[t])].told = p]

LEMMA TellKeeps ==
  ASSUME RunInv, NEW t \in Threads, NEW a \in BOOLEAN, NEW p \in 0..Depth,
         Len(frames[t]) > 0, TellsTop(t, a, p),
         a => p = Place(Len(frames[t]), Top(t).session),
         UNCHANGED <<names, depth, running_thread>>
  PROVE  /\ frames' \in [Threads -> Seq(Frame)]
         /\ \A u \in Threads : Len(frames'[u]) = Len(frames[u])
         /\ StackInv' /\ ToldInv' /\ SlotNamesARun'
<1>1. frames \in [Threads -> Seq(Frame)] BY DEF RunInv, TypeOK
<1>2. PICK f \in Seq(Frame) : f = frames[t] BY <1>1
<1>3. PICK g : g = Told(f, Len(f), a, p) OBVIOUS
<1>4. frames' = [frames EXCEPT ![t] = g] BY <1>1, <1>2, <1>3 DEF TellsTop, Told
<1>5. Len(f) \in 1..Len(f) BY <1>2
<1>6. /\ g \in Seq(Frame)
      /\ Len(g) = Len(f)
      /\ \A k \in 1..Len(f) : g[k].kind = f[k].kind /\ g[k].session = f[k].session
      /\ \A k \in 1..Len(f) : k # Len(f) => g[k] = f[k]
      /\ g[Len(f)].asked = a /\ g[Len(f)].told = p
  <2>1. PICK n \in 1..Len(f) : n = Len(f) BY <1>5
  <2>2. g = Told(f, n, a, p) BY <1>3, <2>1
  <2>3. OnlyTold(f, n, a, p, g) BY <2>2, SetTold
  <2> QED BY <2>1, <2>3 DEF OnlyTold
<1>7. frames'[t] = g /\ \A u \in Threads : u # t => frames'[u] = frames[u] BY <1>1, <1>4
<1>8. frames' \in [Threads -> Seq(Frame)] BY <1>1, <1>4, <1>6
<1>9. \A u \in Threads : Len(frames'[u]) = Len(frames[u]) BY <1>2, <1>6, <1>7
<1>10. StackInv'
  <2> SUFFICES ASSUME NEW u \in Threads
               PROVE  /\ depth'[u] = Len(frames'[u])
                      /\ \A k \in 1..Len(frames'[u]) : k <= Depth => names'[u][k] = frames'[u][k].session
    BY DEF StackInv
  <2>1. CASE u # t BY <1>7, <2>1 DEF RunInv, StackInv
  <2>2. CASE u = t BY <1>2, <1>6, <1>7, <2>2 DEF RunInv, StackInv
  <2> QED BY <2>1, <2>2
<1>11. ToldInv'
  <2> SUFFICES ASSUME NEW u \in Threads, NEW k \in 1..Len(frames'[u]), frames'[u][k].asked
               PROVE  frames'[u][k].told = Place(k, frames'[u][k].session)
    BY DEF ToldInv, Place
  <2>1. CASE u # t BY <1>7, <2>1 DEF RunInv, ToldInv
  <2>2. CASE u = t
    <3>1. k \in 1..Len(f) BY <1>6, <1>7, <2>2
    <3>2. CASE k = Len(f)
      <4>1. a BY <1>6, <1>7, <2>2, <3>2
      <4>2. p = Place(Len(f), f[Len(f)].session) BY <1>2, <4>1 DEF Top
      <4> QED BY <1>5, <1>6, <1>7, <2>2, <3>2, <4>2
    <3>3. CASE k # Len(f)
      <4>1. g[k] = f[k] BY <1>6, <3>1, <3>3
      <4>2. f[k].asked => f[k].told = Place(k, f[k].session) BY <1>2, <3>1 DEF RunInv, ToldInv
      <4> QED BY <1>7, <2>2, <4>1, <4>2
    <3> QED BY <3>2, <3>3
  <2> QED BY <2>1, <2>2
<1>12. SlotNamesARun'
  <2> SUFFICES ASSUME running_thread' # None
               PROVE  \E k \in 1..Len(frames'[running_thread']) : frames'[running_thread'][k].kind = "run"
    BY DEF SlotNamesARun, Named
  <2>1. running_thread' = running_thread /\ running_thread \in Threads BY DEF RunInv, TypeOK
  <2>2. PICK k \in 1..Len(frames[running_thread]) : frames[running_thread][k].kind = "run"
    BY <2>1 DEF RunInv, SlotNamesARun, Named
  <2>3. CASE running_thread = t BY <1>2, <1>6, <1>7, <2>1, <2>2, <2>3
  <2>4. CASE running_thread # t BY <1>7, <2>1, <2>2, <2>4
  <2> QED BY <2>3, <2>4
<1> QED BY <1>8, <1>9, <1>10, <1>11, <1>12

LEMMA HostCallKeeps ==
  ASSUME RunInv, NEW t \in Threads, HostCall(t)
  PROVE  RunInv'
<1>1. Len(frames[t]) > 0
  <2>1. frames[t] \in Seq(Frame) /\ Len(frames[t]) \in Nat BY DEF RunInv, TypeOK
  <2>2. Len(frames[t]) # 0 BY DEF HostCall, RunInv, ModeInv
  <2> QED BY <2>1, <2>2
<1>2. PICK p \in 0..Depth : p = CurrentSession(t) /\ p = Place(Len(frames[t]), Top(t).session)
  BY <1>1, CurrentIsTop
<1>3. TellsTop(t, TRUE, p) BY <1>2 DEF HostCall, TellsTop
<1>4. UNCHANGED <<names, depth, running_thread>> BY DEF HostCall
<1>5. /\ frames' \in [Threads -> Seq(Frame)]
      /\ \A u \in Threads : Len(frames'[u]) = Len(frames[u])
      /\ StackInv' /\ ToldInv' /\ SlotNamesARun'
  BY <1>1, <1>2, <1>3, <1>4, TellKeeps
<1>6. TypeOK' BY <1>5 DEF HostCall, RunInv, TypeOK
<1>7. ModeInv'
  <2>1. mode' = [mode EXCEPT ![t] = "host"] /\ mode \in [Threads -> {"out", "python", "host"}]
    BY DEF HostCall, RunInv, TypeOK
  <2> SUFFICES ASSUME NEW u \in Threads PROVE mode'[u] = "out" <=> Len(frames'[u]) = 0 BY DEF ModeInv
  <2>2. Len(frames'[u]) = Len(frames[u]) BY <1>5
  <2>3. CASE u = t BY <1>1, <2>1, <2>2, <2>3
  <2>4. CASE u # t BY <2>1, <2>2, <2>4 DEF RunInv, ModeInv
  <2> QED BY <2>3, <2>4
<1> QED BY <1>5, <1>6, <1>7 DEF RunInv

LEMMA HostReturnKeeps ==
  ASSUME RunInv, NEW t \in Threads, HostReturn(t)
  PROVE  RunInv'
<1>1. Len(frames[t]) > 0
  <2>1. frames[t] \in Seq(Frame) /\ Len(frames[t]) \in Nat BY DEF RunInv, TypeOK
  <2>2. Len(frames[t]) # 0 BY DEF HostReturn, RunInv, ModeInv
  <2> QED BY <2>1, <2>2
<1>2. 0 \in 0..Depth BY RunAssumption
<1>3. TellsTop(t, FALSE, 0) BY DEF HostReturn, TellsTop
<1>4. UNCHANGED <<names, depth, running_thread>> BY DEF HostReturn
<1>5. /\ frames' \in [Threads -> Seq(Frame)]
      /\ \A u \in Threads : Len(frames'[u]) = Len(frames[u])
      /\ StackInv' /\ ToldInv' /\ SlotNamesARun'
  BY <1>1, <1>2, <1>3, <1>4, TellKeeps
<1>6. TypeOK' BY <1>5 DEF HostReturn, RunInv, TypeOK
<1>7. ModeInv'
  <2>1. mode' = [mode EXCEPT ![t] = "python"] /\ mode \in [Threads -> {"out", "python", "host"}]
    BY DEF HostReturn, RunInv, TypeOK
  <2> SUFFICES ASSUME NEW u \in Threads PROVE mode'[u] = "out" <=> Len(frames'[u]) = 0 BY DEF ModeInv
  <2>2. Len(frames'[u]) = Len(frames[u]) BY <1>5
  <2>3. CASE u = t BY <1>1, <2>1, <2>2, <2>3
  <2>4. CASE u # t BY <2>1, <2>2, <2>4 DEF RunInv, ModeInv
  <2> QED BY <2>3, <2>4
<1> QED BY <1>5, <1>6, <1>7 DEF RunInv

(* What the invariant says of the runs needs nothing but them.             *)
LEMMA RunsUnchanged ==
  ASSUME RunInv, UNCHANGED <<mode, frames, names, depth, running_thread>>, TypeOK'
  PROVE  RunInv'
BY DEF RunInv, ModeInv, StackInv, ToldInv, SlotNamesARun, Named

-----------------------------------------------------------------------------
(* RunInv is an invariant of the entry points.                             *)
THEOREM RunInvariance == Spec => []RunInv
<1>1. Init => RunInv
  <2> SUFFICES ASSUME Init PROVE RunInv OBVIOUS
  <2>1. \A t \in Threads : frames[t] = <<>> /\ Len(frames[t]) = 0 /\ mode[t] = "out" /\ depth[t] = 0
    BY DEF Init
  <2>2. TypeOK
    <3>1. frames \in [Threads -> Seq(Frame)]
      <4>1. << >> \in Seq(Frame) BY EmptySeq
      <4> QED BY <4>1 DEF Init
    <3>2. names \in [Threads -> [1..Depth -> Names]] BY DEF Init, Names
    <3> QED BY <3>1, <3>2 DEF Init, TypeOK
  <2>3. ModeInv /\ StackInv /\ ToldInv BY <2>1 DEF ModeInv, StackInv, ToldInv
  <2> QED BY <2>2, <2>3 DEF Init, RunInv, SlotNamesARun
<1>2. RunInv /\ [Next]_vars => RunInv'
  <2> SUFFICES ASSUME RunInv, [Next]_vars PROVE RunInv' OBVIOUS
  <2>1. CASE UNCHANGED vars
    <3>1. TypeOK' BY <2>1 DEF vars, RunInv, TypeOK
    <3> QED BY <2>1, <3>1, RunsUnchanged DEF vars
  <2>2. ASSUME NEW t \in Threads, NEW kind \in Kinds, NEW s \in Names, Enter(t, kind, s) PROVE RunInv'
    BY <2>2, EnterKeeps
  <2>3. ASSUME NEW t \in Threads, Leave(t) PROVE RunInv' BY <2>3, LeaveKeeps
  <2>4. ASSUME NEW t \in Threads, DropGil(t) PROVE RunInv'
    <3>1. TypeOK' BY <2>4 DEF DropGil, RunInv, TypeOK
    <3> QED BY <2>4, <3>1, RunsUnchanged DEF DropGil
  <2>5. ASSUME NEW t \in Threads, TakeGil(t) PROVE RunInv'
    <3>1. TypeOK' BY <2>5 DEF TakeGil, RunInv, TypeOK
    <3> QED BY <2>5, <3>1, RunsUnchanged DEF TakeGil
  <2>6. ASSUME NEW t \in Threads, HostCall(t) PROVE RunInv' BY <2>6, HostCallKeeps
  <2>7. ASSUME NEW t \in Threads, HostReturn(t) PROVE RunInv' BY <2>7, HostReturnKeeps
  <2>8. ASSUME NEW t \in Threads, Land(t) PROVE RunInv'
    <3>1. TypeOK' BY <2>8 DEF Land, RunInv, TypeOK
    <3> QED BY <2>8, <3>1, RunsUnchanged DEF Land
  <2>9. CASE ReadTarget
    <3>1. TypeOK' BY <2>9 DEF ReadTarget, RunInv, TypeOK
    <3> QED BY <2>9, <3>1, RunsUnchanged DEF ReadTarget
  <2>10. CASE RaiseInterrupt
    <3>1. target \in Threads BY <2>10 DEF RaiseInterrupt, RunInv, TypeOK
    <3>2. pending' \in [Threads -> BOOLEAN]
      BY <2>10, <3>1 DEF RaiseInterrupt, RunInv, TypeOK
    <3>3. TypeOK' BY <2>10, <3>2 DEF RaiseInterrupt, RunInv, TypeOK
    <3> QED BY <2>10, <3>3, RunsUnchanged DEF RaiseInterrupt
  <2> QED BY <2>1, <2>2, <2>3, <2>4, <2>5, <2>6, <2>7, <2>8, <2>9, <2>10 DEF Next
<1> QED BY <1>1, <1>2, PTL DEF Spec

(* The types of the entry points' state: the pointer a host call keeps     *)
(* never leaves the session stack.                                         *)
THEOREM RunTypes == Spec => []TypeOK
<1>1. RunInv => TypeOK BY DEF RunInv
<1> QED BY <1>1, RunInvariance, PTL

(* vis_py_running_thread names a thread with a run that named it, or none. *)
THEOREM SlotIsSound == Spec => []SlotNamesARun
<1>1. RunInv => SlotNamesARun BY DEF RunInv
<1> QED BY <1>1, RunInvariance, PTL

(* A host call is attributed to its own run, or to nobody when that run is *)
(* too deep for the stack, however the runs nest.                          *)
THEOREM UpcallsAreTheirs == Spec => []UpcallsNameTheirRun
<1>1. RunInv => UpcallsNameTheirRun
  <2> SUFFICES ASSUME RunInv, NEW t \in Threads, NEW k \in 1..Len(frames[t]), frames[t][k].asked
               PROVE  NameAt(t, frames[t][k].told) = IF k > Depth THEN None ELSE frames[t][k].session
    BY DEF UpcallsNameTheirRun
  <2>1. frames[t][k].told = Place(k, frames[t][k].session) BY DEF RunInv, ToldInv
  <2>2. Depth \in Nat /\ Len(frames[t]) \in Nat BY RunAssumption DEF RunInv, TypeOK
  <2>3. k <= Depth => names[t][k] = frames[t][k].session BY DEF RunInv, StackInv
  <2>4. CASE k > Depth BY <2>1, <2>4 DEF Place, NameAt
  <2>5. CASE k <= Depth BY <2>1, <2>2, <2>3, <2>5 DEF Place, NameAt
  <2> QED BY <2>2, <2>4, <2>5
<1> QED BY <1>1, RunInvariance, PTL
=============================================================================
