---------------------------- MODULE LimitsProofs ----------------------------
(* Proofs about what the runtime bounds: the diagnostic ring of LogRing,   *)
(* which may only lose records it reports, and the thread cap and the one  *)
(* entry budget of a block of Budgets, through any nesting of calls and    *)
(* gathers.                                                                *)
EXTENDS Budgets, LogRing, FiniteSetTheorems, SequenceTheorems, TLAPS

-----------------------------------------------------------------------------
(* The diagnostic ring.  Its two safety properties are proved together:    *)
(* what the next drain reads is what the ring holds, so that no record is  *)
(* ever met out of place follows from RingHoldsTheRest, and                *)
(* RingHoldsTheRest needs the types alone.  The places of the ring are     *)
(* computed modulo Slots; a place is never more than one turn away, so the *)
(* modulus is a test.                                                      *)

(* The modulus of a number below the divisor: no wrap.                     *)
LEMMA ModSmall ==
  ASSUME NEW S \in Nat \ {0}, NEW a \in Nat, a < S
  PROVE  a % S = a
BY Z3

(* The modulus of a number in the second turn: one wrap.                   *)
LEMMA ModWrap ==
  ASSUME NEW S \in Nat \ {0}, NEW a \in Nat, a >= S, a < S + S
  PROVE  a % S = a - S
BY Z3

(* Two numbers of one turn make less than two turns.                       *)
LEMMA OneTurn ==
  ASSUME NEW S \in Nat, NEW a \in Nat, NEW b \in Nat, a < S, b < S
  PROVE  a + b \in Nat /\ a + b < S + S
OBVIOUS

Wrap(a) == IF a < Slots THEN a ELSE a - Slots

(* Every place the code computes from a place and a count of the ring.     *)
LEMMA Place ==
  ASSUME NEW a \in Nat, a < Slots + Slots
  PROVE  a % Slots = Wrap(a) /\ Wrap(a) \in Indices
<1>1. Slots \in Nat \ {0} BY LogAssumption
<1>2. CASE a < Slots BY <1>1, <1>2, ModSmall DEF Wrap, Indices
<1>3. CASE ~(a < Slots)
  <2>1. a >= Slots BY <1>1, <1>3
  <2>2. a % Slots = a - Slots BY <1>1, <2>1, ModWrap
  <2> QED BY <1>1, <1>3, <2>1, <2>2 DEF Wrap, Indices
<1> QED BY <1>2, <1>3

(* The inductive invariant.                                                *)
RingInv == TypeOK /\ RingHoldsTheRest /\ GapsNameThemselves

(* vis_py_record keeps what the ring holds, full or not.                   *)
LEMMA PutKeeps ==
  ASSUME RingInv, NEW w \in Writers, Record(w)
  PROVE  RingInv'
<1>0. Slots \in Nat /\ Slots > 0 BY LogAssumption
<1>1. head \in 0..(Slots - 1) /\ count \in 0..Slots /\ dropped \in Nat /\ place \in Nat /\ written \in Nat
      /\ slot \in [Indices -> Nat]
  BY DEF RingInv, TypeOK, Indices
<1>2. place + dropped + count = written + 1 BY DEF RingInv, RingHoldsTheRest
<1>3. ASSUME NEW i \in 0..(count - 1) PROVE slot[Wrap(head + i)] = place + dropped + i
  <2>1. head + i \in Nat /\ head + i < Slots + Slots BY <1>0, <1>1
  <2>2. (head + i) % Slots = Wrap(head + i) BY <2>1, Place
  <2> QED BY <2>2 DEF RingInv, RingHoldsTheRest
<1>4. place' = place /\ written' = written + 1 /\ astray' = astray /\ Put(written + 1)
  BY DEF Record
<1>5. (head + count) % Slots = Wrap(head + count) /\ Wrap(head + count) \in Indices
  <2>1. head + count \in Nat /\ head + count < Slots + Slots BY <1>0, <1>1
  <2> QED BY <2>1, Place
<1>6. (head + 1) % Slots = Wrap(head + 1) /\ Wrap(head + 1) \in Indices
  <2>1. head + 1 \in Nat /\ head + 1 < Slots + Slots BY <1>0, <1>1
  <2> QED BY <2>1, Place
<1>7. slot' = [slot EXCEPT ![Wrap(head + count)] = written + 1] BY <1>4, <1>5 DEF Put
<1>8. slot' \in [Indices -> Nat] BY <1>1, <1>5, <1>7
<1>9. CASE count = Slots
  <2>1. head' = Wrap(head + 1) /\ dropped' = dropped + 1 /\ count' = count
    BY <1>4, <1>6, <1>9 DEF Put
  <2>2. place' + dropped' + count' = written' + 1 BY <1>1, <1>2, <1>4, <2>1
  <2>3. ASSUME NEW i \in 0..(count' - 1) PROVE slot'[(head' + i) % Slots] = place' + dropped' + i
    <3>1. head' \in 0..(Slots - 1) BY <1>6, <2>1 DEF Indices
    <3>2. i \in Nat /\ i < Slots BY <1>0, <1>9, <2>1
    <3>3. head' + i \in Nat /\ head' + i < Slots + Slots BY <1>0, <1>9, <2>1, <3>1, <3>2
    <3>4. (head' + i) % Slots = Wrap(head' + i) /\ Wrap(head' + i) \in Indices BY <3>3, Place
    <3>5. CASE i = Slots - 1
      <4>1. Wrap(head' + i) = Wrap(head + count)
        BY <1>0, <1>1, <1>9, <2>1, <3>5 DEF Wrap
      <4>2. slot'[Wrap(head' + i)] = written + 1 BY <1>1, <1>5, <1>7, <4>1
      <4> QED BY <1>0, <1>1, <1>2, <1>4, <1>9, <2>1, <3>4, <3>5, <4>2
    <3>6. CASE i < Slots - 1
      <4>1. i + 1 \in 0..(count - 1) BY <1>0, <1>9, <3>2, <3>6
      <4>2. Wrap(head' + i) = Wrap(head + (i + 1))
        BY <1>0, <1>1, <2>1, <3>2, <3>6 DEF Wrap
      <4>3. Wrap(head' + i) # Wrap(head + count)
        BY <1>0, <1>1, <1>9, <3>2, <3>6, <4>2 DEF Wrap
      <4>4. slot'[Wrap(head' + i)] = slot[Wrap(head + (i + 1))]
        BY <1>1, <1>7, <3>4, <4>2, <4>3
      <4>5. slot[Wrap(head + (i + 1))] = place + dropped + (i + 1) BY <1>3, <4>1
      <4> QED BY <1>1, <1>4, <2>1, <3>2, <3>4, <4>4, <4>5
    <3> QED BY <1>0, <3>2, <3>5, <3>6
  <2>4. TypeOK' BY <1>0, <1>1, <1>4, <1>6, <1>8, <2>1 DEF RingInv, TypeOK, Record, drainVars, Indices
  <2> QED BY <1>4, <2>2, <2>3, <2>4 DEF RingInv, RingHoldsTheRest, GapsNameThemselves
<1>10. CASE count # Slots
  <2>1. head' = head /\ dropped' = dropped /\ count' = count + 1
    BY <1>4, <1>10 DEF Put
  <2>2. place' + dropped' + count' = written' + 1 BY <1>1, <1>2, <1>4, <2>1
  <2>3. ASSUME NEW i \in 0..(count' - 1) PROVE slot'[(head' + i) % Slots] = place' + dropped' + i
    <3>1. i \in Nat /\ i <= count BY <1>1, <2>1
    <3>2. head + i \in Nat /\ head + i < Slots + Slots BY <1>0, <1>1, <1>10, <3>1
    <3>3. (head' + i) % Slots = Wrap(head + i) /\ Wrap(head + i) \in Indices BY <2>1, <3>2, Place
    <3>4. CASE i = count
      <4>1. slot'[Wrap(head + i)] = written + 1 BY <1>1, <1>5, <1>7, <3>4
      <4> QED BY <1>1, <1>2, <1>4, <2>1, <3>3, <3>4, <4>1
    <3>5. CASE i < count
      <4>1. i \in 0..(count - 1) BY <1>1, <3>1, <3>5
      <4>2. Wrap(head + i) # Wrap(head + count)
        BY <1>0, <1>1, <1>10, <3>1, <3>5 DEF Wrap
      <4>3. slot'[Wrap(head + i)] = slot[Wrap(head + i)] BY <1>1, <1>7, <3>3, <4>2
      <4> QED BY <1>3, <1>4, <2>1, <3>3, <4>1, <4>3
    <3> QED BY <1>1, <3>1, <3>4, <3>5
  <2>4. TypeOK' BY <1>0, <1>1, <1>4, <1>8, <1>10, <2>1 DEF RingInv, TypeOK, Record, drainVars, Indices
  <2> QED BY <1>4, <2>2, <2>3, <2>4 DEF RingInv, RingHoldsTheRest, GapsNameThemselves
<1> QED BY <1>9, <1>10

(* A drain reads the records the reader expects, and leaves the ring       *)
(* holding the rest.                                                       *)
LEMMA TakeKeeps ==
  ASSUME RingInv, NEW d \in Drainers, Drain(d)
  PROVE  RingInv'
<1>0. Slots \in Nat /\ Slots > 0 /\ Fits \in Nat BY LogAssumption
<1>1. head \in 0..(Slots - 1) /\ count \in 0..Slots /\ dropped \in Nat /\ place \in Nat /\ written \in Nat
      /\ slot \in [Indices -> Nat] /\ astray = FALSE
  BY DEF RingInv, TypeOK, Indices, GapsNameThemselves
<1>2. place + dropped + count = written + 1 BY DEF RingInv, RingHoldsTheRest
<1>3. ASSUME NEW i \in 0..(count - 1) PROVE slot[Wrap(head + i)] = place + dropped + i
  <2>1. head + i \in Nat /\ head + i < Slots + Slots BY <1>0, <1>1
  <2>2. (head + i) % Slots = Wrap(head + i) BY <2>1, Place
  <2> QED BY <2>2 DEF RingInv, RingHoldsTheRest
<1>4. PICK k \in Lines(count) : Take(k) BY DEF Drain
<1>5. k \in Nat /\ k <= count BY <1>1 DEF Lines
<1>6. head' = Wrap(head + k) /\ Wrap(head + k) \in Indices
  <2>1. head + k \in Nat /\ head + k < Slots + Slots BY <1>0, <1>1, <1>5
  <2> QED BY <1>4, <2>1, Place DEF Take
<1>7. count' = count - k /\ dropped' = 0 /\ place' = place + dropped + k /\ slot' = slot
  BY <1>4 DEF Take
<1>8. written' = written BY DEF Drain
<1>9. ASSUME NEW j \in 1..k PROVE Oldest(k)[j] = place + dropped + j - 1
  <2>1. j - 1 \in 0..(count - 1) BY <1>1, <1>5
  <2>2. head + j - 1 \in Nat /\ head + j - 1 < Slots + Slots /\ head + j - 1 = head + (j - 1)
    BY <1>0, <1>1, <2>1
  <2>3. (head + j - 1) % Slots = Wrap(head + (j - 1)) BY <2>2, Place
  <2>4. slot[Wrap(head + (j - 1))] = place + dropped + (j - 1) BY <1>3, <2>1
  <2>5. Oldest(k)[j] = slot[(head + j - 1) % Slots] BY DEF Oldest
  <2>6. place + dropped + (j - 1) = place + dropped + j - 1 BY <1>1, <1>5
  <2> QED BY <2>3, <2>4, <2>5, <2>6
<1>10. astray' = FALSE
  <2>1. ~ \E j \in 1..k : Oldest(k)[j] # place + dropped + j - 1 BY <1>9
  <2>2. astray' = (astray \/ \E j \in 1..k : Oldest(k)[j] # place + dropped + j - 1)
    BY <1>4 DEF Take
  <2> QED BY <1>1, <2>1, <2>2
<1>11. RingHoldsTheRest'
  <2>1. place' + dropped' + count' = written' + 1 BY <1>1, <1>2, <1>5, <1>7, <1>8
  <2>2. ASSUME NEW i \in 0..(count' - 1) PROVE slot'[(head' + i) % Slots] = place' + dropped' + i
    <3>1. i \in Nat /\ i + k < count /\ i + k \in 0..(count - 1) BY <1>1, <1>5, <1>7
    <3>2. head' \in 0..(Slots - 1) BY <1>6 DEF Indices
    <3>3. i < Slots BY <1>0, <1>1, <1>5, <1>7, <3>1
    <3>4. head' \in Nat /\ head' < Slots BY <1>0, <3>2
    <3>5. head' + i \in Nat /\ head' + i < Slots + Slots BY <1>0, <3>1, <3>3, <3>4, OneTurn
    <3>6. (head' + i) % Slots = Wrap(head' + i) BY <3>5, Place
    <3>7. Wrap(head' + i) = Wrap(head + (i + k))
      BY <1>0, <1>1, <1>5, <1>6, <3>1 DEF Wrap
    <3>8. slot[Wrap(head + (i + k))] = place + dropped + (i + k) BY <1>3, <3>1
    <3> QED BY <1>1, <1>5, <1>7, <3>1, <3>6, <3>7, <3>8
  <2> QED BY <2>1, <2>2 DEF RingHoldsTheRest
<1>12. TypeOK'
  <2>1. dpc' \in [Drainers -> {"absent", "asleep", "pass", "giving", "gone"}]
    BY DEF RingInv, TypeOK, Drain
  <2>2. count' \in 0..Slots /\ place' \in Nat /\ dropped' \in Nat /\ head' \in Indices
    BY <1>0, <1>1, <1>5, <1>6, <1>7
  <2> QED BY <1>7, <1>10, <2>1, <2>2 DEF RingInv, TypeOK, Drain
<1> QED BY <1>10, <1>11, <1>12 DEF RingInv, GapsNameThemselves

(* RingInv is inductive.                                                   *)
THEOREM RingInvariance == RingSpec => []RingInv
<1>1. RingInit => RingInv
  <2> SUFFICES ASSUME RingInit PROVE RingInv OBVIOUS
  <2>1. Slots \in Nat /\ Slots > 0 BY LogAssumption
  <2>2. TypeOK
    <3>1. 0 \in Indices /\ 0 \in 0..Slots BY <2>1 DEF Indices
    <3>2. slot \in [Indices -> Nat] BY DEF RingInit
    <3>3. level \in Off..Debug BY DEF RingInit, Off, Debug
    <3> QED BY <3>1, <3>2, <3>3 DEF RingInit, TypeOK
  <2>3. RingHoldsTheRest BY DEF RingInit, RingHoldsTheRest
  <2> QED BY <2>2, <2>3 DEF RingInit, RingInv, GapsNameThemselves
<1>2. RingInv /\ [RingNext]_logVars => RingInv'
  <2> SUFFICES ASSUME RingInv, [RingNext]_logVars PROVE RingInv' OBVIOUS
  <2> USE DEF RingInv, RingHoldsTheRest, GapsNameThemselves
  <2>1. CASE UNCHANGED logVars
    BY <2>1 DEF logVars, ringVars, drainVars, TypeOK
  <2>2. ASSUME NEW l \in Levels, SetLevel(l) PROVE RingInv'
    BY <2>2, LogAssumption DEF SetLevel, ringVars, drainVars, TypeOK
  <2>3. ASSUME NEW w \in Writers, Record(w) PROVE RingInv'
    BY <2>3, PutKeeps DEF RingInv
  <2>4. ASSUME NEW w \in Writers, NEW l \in {Warn, Debug}, BeginRecord(w, l) PROVE RingInv'
    BY <2>4 DEF BeginRecord, ringVars, drainVars, TypeOK
  <2>5. ASSUME NEW d \in Drainers, Drain(d) PROVE RingInv'
    BY <2>5, TakeKeeps
  <2>6. ASSUME NEW d \in Drainers, Wake(d) PROVE RingInv'
    BY <2>6 DEF Wake, ringVars, TypeOK
  <2>7. ASSUME NEW d \in Drainers, Accept(d) PROVE RingInv'
    BY <2>7 DEF Accept, ringVars, TypeOK
  <2>8. ASSUME NEW d \in Drainers, SinkThrows(d) PROVE RingInv'
    BY <2>8 DEF SinkThrows, ringVars, TypeOK
  <2>9. ASSUME NEW d \in Drainers, DrainTo(d) PROVE RingInv'
    BY <2>9 DEF DrainTo, Stopped, ringVars, TypeOK
  <2>10. CASE StopDraining
    BY <2>10 DEF StopDraining, Stopped, ringVars, TypeOK
  <2> QED BY <2>1, <2>2, <2>3, <2>4, <2>5, <2>6, <2>7, <2>8, <2>9, <2>10 DEF RingNext
<1> QED BY <1>1, <1>2, PTL DEF RingSpec

(* The type invariant of the ring and its drainers: no place outside the   *)
(* ring, and never more records waiting than it has slots.                 *)
THEOREM RingTypes == RingSpec => []TypeOK
<1>1. RingInv => TypeOK BY DEF RingInv
<1> QED BY <1>1, RingInvariance, PTL

(* What is written and not drained is in the ring in order, or counted.    *)
THEOREM RingIsExact == RingSpec => []RingHoldsTheRest
<1>1. RingInv => RingHoldsTheRest BY DEF RingInv
<1> QED BY <1>1, RingInvariance, PTL

(* A reader who believes the log is never wrong about what it misses.      *)
THEOREM GapsAreNamed == RingSpec => []GapsNameThemselves
<1>1. RingInv => GapsNameThemselves BY DEF RingInv
<1> QED BY <1>1, RingInvariance, PTL

-----------------------------------------------------------------------------
(* The thread cap: the states the hook has counted are still there when it *)
(* reads the idle count, for a state goes only with the GIL.  Unless the   *)
(* host moved the cap meanwhile, the three reads are of one positive cap.  *)

AskInv ==
  asking # None => /\ asking \in [states : Nat, cap : Int, moved : BOOLEAN]
                   /\ asking.states <= Cardinality(States)
                   /\ asking.cap > 0 /\ (~asking.moved => cap = asking.cap)
DeniedInv ==
  denied # None => /\ asking # None /\ denied \in [alive : Nat, bound : Int]
                   /\ denied.alive >= denied.bound
                   /\ ~asking.moved => denied.bound = asking.cap

ThreadInv ==
  /\ guests \subseteq Guests /\ pool \subseteq Workers /\ cap \in Int \ {0}
  /\ AskInv /\ DeniedInv /\ RefusalIsHonest

-----------------------------------------------------------------------------
(* The calls nested on a host thread.                                      *)

Scans == Budgets \cup {None}
Plain == [kind : {"block", "eval", "task"}, previous : Scans]
Par == [kind : {"par"}, scan : Scans, queued : Nat, left : Nat]
Calls == Plain \cup Par
Stack == Seq(Calls)

(* The budget that was current when a call began. *)
Entered(c) == IF c.kind = "par" THEN c.scan ELSE c.previous

Places == {"none", "awake", "idle", "claims", "ready", "runs"}
Busy(w) == worker[w] \in {"claims", "ready", "runs"}

BudgetType ==
  /\ calls \in [Hosts -> Stack]
  /\ worker \in [Workers -> Places]
  /\ job \in [Workers -> (Hosts \X Nat) \cup {None}]
  /\ current \in [Hosts \cup Workers -> Scans]
  /\ before = [w \in Workers |-> None]
  /\ budget \in [Budgets -> [life : {"free", "live", "freed"}, remaining : Nat, references : Int, spent : Int]]
  /\ \A w \in Workers : worker[w] # "none" => w \in pool

(* A block is under the call at i. *)
InBlock(h, i) == \E j \in 1..i - 1 : calls[h][j].kind = "block"
HasBlock(h) == \E j \in DOMAIN calls[h] : calls[h][j].kind = "block"

(* A thread has a budget from its outermost block on, and the same for all *)
(* the calls above; a task is what stands on a gather, and nothing else.   *)
Nested(h) ==
  /\ Len(calls[h]) <= MaxDepth
  /\ current[h] # None <=> HasBlock(h)
  /\ \A i \in DOMAIN calls[h] : Entered(calls[h][i]) = IF InBlock(h, i) THEN current[h] ELSE None
  /\ \A i \in DOMAIN calls[h] : calls[h][i].kind = "task" <=> i > 1 /\ calls[h][i - 1].kind = "par"

(* The tasks of a gather: in the queue, on workers, or on its caller. *)
On(h, i) == {w \in Workers : Busy(w) /\ job[w] = <<h, i>>}
Tallied(h, i) ==
  calls[h][i].left = calls[h][i].queued + Cardinality(On(h, i)) + (IF i < Len(calls[h]) THEN 1 ELSE 0)
Tally == \A h \in Hosts : \A i \in DOMAIN calls[h] : calls[h][i].kind = "par" => Tallied(h, i)

(* A worker has a budget while it runs a task, that of the gather. *)
WorkInv(w) ==
  /\ Busy(w) => \E h \in Hosts : \E i \in DOMAIN calls[h] :
                  /\ job[w] = <<h, i>> /\ calls[h][i].kind = "par"
                  /\ worker[w] = "runs" => current[w] = calls[h][i].scan
  /\ worker[w] # "runs" => current[w] = None

(* Each budget is the one of one block. *)
Apart == \A g, h \in Hosts : current[g] # None /\ current[g] = current[h] => g = h

Accounted(b) ==
  /\ budget[b].life = "live" <=> \E h \in Hosts : current[h] = b
  /\ budget[b].references = References(b)
  /\ budget[b].life # "free" => budget[b].spent + budget[b].remaining = Entries

BudgetInv ==
  /\ BudgetType /\ (\A h \in Hosts : Nested(h)) /\ Tally /\ (\A w \in Workers : WorkInv(w))
  /\ Apart /\ \A b \in Budgets : Accounted(b)
-----------------------------------------------------------------------------
(* The thread cap: proof.                                                  *)

LEMMA FiniteThreads ==
  ASSUME ThreadInv
  PROVE  /\ IsFiniteSet(States) /\ IsFiniteSet(Idle) /\ IsFiniteSet(States \cup pool)
         /\ Cardinality(States) \in Nat /\ Cardinality(Idle) \in Nat
<1>1. IsFiniteSet(Hosts \cup Workers) BY FS_Union, BudgetsAssumption
<1>2. IsFiniteSet((Hosts \cup Workers) \cup Guests) BY <1>1, FS_Union, BudgetsAssumption
<1>3. States \subseteq (Hosts \cup Workers) \cup Guests BY DEF States, ThreadInv
<1>4. pool \subseteq (Hosts \cup Workers) \cup Guests BY DEF ThreadInv
<1>5. Idle \subseteq (Hosts \cup Workers) \cup Guests BY <1>4 DEF Idle
<1>6. IsFiniteSet(States) /\ IsFiniteSet(Idle) BY <1>2, <1>3, <1>5, FS_Subset
<1>7. States \cup pool \subseteq (Hosts \cup Workers) \cup Guests BY <1>3, <1>4
<1>8. IsFiniteSet(States \cup pool) BY <1>2, <1>7, FS_Subset
<1> QED BY <1>6, <1>8, FS_CardinalityType

(* A worker that is idle has no state, so nobody is counted twice. *)
LEMMA CountedOnce ==
  ASSUME ThreadInv
  PROVE  Cardinality(States) + Cardinality(Idle) <= Cardinality(States \cup pool)
<1>1. States \cap Idle = {} BY BudgetsAssumption DEF States, Idle, ThreadInv
<1>2. IsFiniteSet(States) /\ IsFiniteSet(Idle) /\ IsFiniteSet(States \cup pool) BY FiniteThreads
<1>3. Cardinality(States \cup Idle) = Cardinality(States) + Cardinality(Idle) - Cardinality(States \cap Idle)
  BY <1>2, FS_Union
<1>4. Cardinality(States \cap Idle) = 0 BY <1>1, FS_EmptySet
<1>5. States \cup Idle \subseteq States \cup pool BY DEF Idle
<1>6. Cardinality(States \cup Idle) <= Cardinality(States \cup pool) BY <1>2, <1>5, FS_Subset
<1>7. Cardinality(States) \in Nat /\ Cardinality(Idle) \in Nat BY FiniteThreads
<1> QED BY <1>3, <1>4, <1>6, <1>7

LEMMA RefuseHonest ==
  ASSUME ThreadInv, Refuse
  PROVE  ThreadInv'
<1>1. /\ asking # None /\ asking \in [states : Nat, cap : Int, moved : BOOLEAN]
      /\ asking.states <= Cardinality(States) /\ (~asking.moved => cap = asking.cap)
  BY DEF ThreadInv, AskInv, Refuse
<1>2. Cardinality(States) \in Nat /\ Cardinality(Idle) \in Nat BY FiniteThreads
<1>3. Cardinality(States) + Cardinality(Idle) <= Cardinality(States \cup pool) BY CountedOnce
<1>4. PICK bound \in {asking.cap, cap} :
        /\ Counted(asking.states) >= bound
        /\ denied' = [alive |-> Cardinality(States \cup pool), bound |-> bound]
  BY DEF Refuse
<1>5. bound \in Int /\ (~asking.moved => bound = asking.cap) BY <1>1, <1>4 DEF ThreadInv
<1>6. PICK n : n = Cardinality(States \cup pool) OBVIOUS
<1>7. n \in Nat BY <1>6, FiniteThreads, FS_CardinalityType
<1>8. asking.states \in Nat /\ asking.states + Cardinality(Idle) >= bound BY <1>1, <1>4 DEF Counted
<1>9. n >= bound BY <1>1, <1>2, <1>3, <1>5, <1>6, <1>7, <1>8
<1>10. UNCHANGED <<cap, pool, guests, asking, refused, worker, calls>> BY DEF Refuse, workVars, scanVars
<1>11. States' = States BY <1>10 DEF States
<1>12. denied' = [alive |-> n, bound |-> bound] BY <1>4, <1>6
<1>13. DeniedInv' BY <1>1, <1>5, <1>7, <1>9, <1>10, <1>12 DEF DeniedInv
<1> QED BY <1>10, <1>11, <1>13 DEF ThreadInv, AskInv, RefusalIsHonest

LEMMA NameHonest ==
  ASSUME ThreadInv, NameCap
  PROVE  ThreadInv'
<1>1. /\ asking # None /\ asking.cap > 0 /\ (~asking.moved => cap = asking.cap /\ denied.bound = cap)
      /\ denied \in [alive : Nat, bound : Int] /\ denied.alive >= denied.bound
  BY DEF ThreadInv, AskInv, DeniedInv, NameCap
<1>2. asking' = None /\ denied' = None /\ UNCHANGED <<cap, pool, guests>> BY DEF NameCap
<1>3. refused' = [alive |-> denied.alive, bound |-> denied.bound, named |-> cap, moved |-> asking.moved] BY DEF NameCap
<1>4. RefusalIsHonest' BY <1>1, <1>3 DEF RefusalIsHonest
<1> QED BY <1>2, <1>4 DEF ThreadInv, AskInv, DeniedInv

(* Without the GIL no state goes away. *)
LEMMA StatesStay ==
  ASSUME BudgetType, ThreadInv,
         \E w \in Workers : GoIdle(w) \/ MakeState(w) \/ \E h \in Hosts, i \in 1..MaxDepth : TakeTask(w, h, i)
  PROVE  States \subseteq States' /\ UNCHANGED threadVars
<1>1. worker \in [Workers -> Places] BY DEF BudgetType
<1>3. CASE \E w \in Workers : GoIdle(w)
  <2>1. PICK w \in Workers : GoIdle(w) BY <1>3
  <2>2. UNCHANGED threadVars /\ UNCHANGED <<pool, guests, calls>> /\ worker[w] = "awake"
        /\ worker' = [worker EXCEPT ![w] = "idle"]
    BY <2>1 DEF GoIdle, threadVars, scanVars
  <2>3. \A v \in Workers : worker[v] \in {"ready", "runs"} => worker'[v] = worker[v] BY <1>1, <2>2
  <2> QED BY <2>2, <2>3 DEF States, ThreadInv
<1>4. CASE \E w \in Workers : MakeState(w)
  <2>1. PICK w \in Workers : MakeState(w) BY <1>4
  <2>2. UNCHANGED threadVars /\ UNCHANGED <<pool, guests, calls>> /\ worker[w] = "claims"
        /\ worker' = [worker EXCEPT ![w] = "ready"]
    BY <2>1 DEF MakeState, threadVars, scanVars
  <2>3. \A v \in Workers : worker[v] \in {"ready", "runs"} => worker'[v] = worker[v] BY <1>1, <2>2
  <2> QED BY <2>2, <2>3 DEF States, ThreadInv
<1>5. CASE \E w \in Workers : \E h \in Hosts, i \in 1..MaxDepth : TakeTask(w, h, i)
  <2>1. PICK w \in Workers : \E h \in Hosts, i \in 1..MaxDepth : TakeTask(w, h, i) BY <1>5
  <2>2. PICK h \in Hosts : \E i \in 1..MaxDepth : TakeTask(w, h, i) BY <2>1
  <2>3. PICK i \in 1..MaxDepth : TakeTask(w, h, i) BY <2>2
  <2>4. UNCHANGED threadVars /\ UNCHANGED <<pool, guests>> /\ worker[w] \in {"awake", "idle"}
        /\ worker' = [worker EXCEPT ![w] = "claims"] /\ i \in DOMAIN calls[h]
        /\ calls' = [calls EXCEPT ![h][i].queued = @ - 1]
    BY <2>3 DEF TakeTask, threadVars
  <2>5. \A v \in Workers : worker[v] \in {"ready", "runs"} => worker'[v] = worker[v] BY <1>1, <2>4
  <2>6. ASSUME NEW g \in Hosts, calls[g] # <<>> PROVE calls'[g] # <<>>
    <3>1. calls \in [Hosts -> Stack] BY DEF BudgetType
    <3>2. CASE g # h BY <2>4, <2>6, <3>1, <3>2
    <3>3. CASE g = h
      <4>1. PICK q : q = [calls[h][i] EXCEPT !.queued = calls[h][i].queued - 1] OBVIOUS
      <4>2. calls'[h] = [calls[h] EXCEPT ![i] = q] BY <2>4, <3>1, <4>1
      <4>3. DOMAIN calls'[h] = DOMAIN calls[h] BY <4>2
      <4>4. DOMAIN <<>> = {} OBVIOUS
      <4> QED BY <2>4, <3>3, <4>3, <4>4
    <3> QED BY <3>2, <3>3
  <2> QED BY <2>4, <2>5, <2>6 DEF States, ThreadInv
<1> QED BY <1>3, <1>4, <1>5

(* The host moves the cap under the hook or not. *)
LEMMA SetCapKeeps ==
  ASSUME ThreadInv, NEW c \in Caps, SetCap(c)
  PROVE  ThreadInv'
<1>1. UNCHANGED <<pool, guests, denied, refused, worker, calls>> /\ cap' = c BY DEF SetCap, workVars, scanVars
<1>2. c \in Int \ {0} BY BudgetsAssumption
<1>3. States' = States BY <1>1 DEF States
<1>4. CASE asking = None
  <2>1. asking' = None BY <1>4 DEF SetCap
  <2> QED BY <1>1, <1>2, <1>4, <2>1 DEF ThreadInv, AskInv, DeniedInv, RefusalIsHonest
<1>5. CASE asking # None
  <2>1. asking' = [asking EXCEPT !.moved = TRUE] BY <1>5 DEF SetCap
  <2>2. asking \in [states : Nat, cap : Int, moved : BOOLEAN] BY <1>5 DEF ThreadInv, AskInv
  <2>3. asking' \in [states : Nat, cap : Int, moved : BOOLEAN] BY <2>1, <2>2
  <2>4. asking'.states = asking.states /\ asking'.cap = asking.cap /\ asking'.moved BY <2>1, <2>2
  <2>5. AskInv' BY <1>3, <1>5, <2>3, <2>4 DEF ThreadInv, AskInv
  <2>6. asking' # None BY <2>3, BudgetsAssumption
  <2>7. DeniedInv' BY <1>1, <1>5, <2>4, <2>6 DEF ThreadInv, DeniedInv
  <2> QED BY <1>1, <1>2, <2>5, <2>7 DEF ThreadInv, RefusalIsHonest
<1> QED BY <1>4, <1>5

LEMMA ThreadStep == BudgetType /\ ThreadInv /\ [Next]_vars => ThreadInv'
<1> SUFFICES ASSUME BudgetType, ThreadInv, [Next]_vars PROVE ThreadInv' OBVIOUS
<1>1. CASE UNCHANGED vars
  <2>1. UNCHANGED <<cap, pool, guests, asking, denied, refused, worker, calls>>
    BY <1>1 DEF vars, threadVars, hookVars, workVars, scanVars
  <2>2. States' = States BY <2>1 DEF States
  <2> QED BY <2>1, <2>2 DEF ThreadInv, AskInv, DeniedInv, RefusalIsHonest
<1>2. CASE /\ asking' = None /\ denied = None /\ denied' = None /\ refused' = refused
           /\ guests' \subseteq Guests /\ pool' \subseteq Workers /\ cap' = cap
  BY <1>2 DEF ThreadInv, AskInv, DeniedInv, RefusalIsHonest
<1>3. CASE AskThread
  <2>1. /\ asking' = [states |-> Cardinality(States), cap |-> cap, moved |-> FALSE]
        /\ UNCHANGED <<cap, pool, guests, denied, refused, worker, calls>> /\ cap >= 0 /\ asking = None
    BY <1>3 DEF AskThread, HasGil, workVars, scanVars
  <2>2. States' = States BY <2>1 DEF States
  <2>3. Cardinality(States) \in Nat BY FiniteThreads
  <2>4. PICK n \in Nat : n = Cardinality(States) BY <2>3
  <2>5. denied = None BY <2>1 DEF ThreadInv, DeniedInv
  <2>6. cap \in Int /\ cap > 0 BY <2>1 DEF ThreadInv
  <2>7. asking' = [states |-> n, cap |-> cap, moved |-> FALSE] BY <2>1, <2>4
  <2>8. AskInv' BY <2>1, <2>2, <2>4, <2>6, <2>7 DEF AskInv
  <2> QED BY <2>1, <2>5, <2>8 DEF ThreadInv, DeniedInv, RefusalIsHonest
<1>4. CASE Refuse \/ NameCap BY <1>4, RefuseHonest, NameHonest
<1>5. CASE Admit
  <2>1. /\ asking' = None /\ denied = None /\ denied' = denied /\ refused' = refused
        /\ guests' \subseteq Guests /\ pool' = pool /\ cap' = cap
    BY <1>5 DEF Admit, ThreadInv
  <2> QED BY <1>2, <2>1 DEF ThreadInv
<1>6. CASE AdmitUncapped \/ \E g \in Guests : GuestEnds(g)
  <2>1. asking = None /\ UNCHANGED <<cap, pool, hookVars>> /\ guests' \subseteq Guests
    BY <1>6 DEF AdmitUncapped, GuestEnds, HasGil, ThreadInv
  <2>2. denied = None BY <2>1 DEF ThreadInv, DeniedInv
  <2> QED BY <1>2, <2>1, <2>2 DEF ThreadInv, hookVars
<1>7. CASE \E w \in Workers : GoIdle(w) \/ MakeState(w) \/ \E h \in Hosts, i \in 1..MaxDepth : TakeTask(w, h, i)
  <2>1. States \subseteq States' /\ UNCHANGED threadVars BY <1>7, StatesStay
  <2>2. IsFiniteSet(States')
    <3>1. IsFiniteSet((Hosts \cup Workers) \cup Guests) BY FS_Union, BudgetsAssumption
    <3>2. States' \subseteq (Hosts \cup Workers) \cup Guests BY <2>1 DEF States, ThreadInv, threadVars
    <3> QED BY <3>1, <3>2, FS_Subset
  <2>3. Cardinality(States) <= Cardinality(States') BY <2>1, <2>2, FS_Subset
  <2>4. Cardinality(States) \in Nat /\ Cardinality(States') \in Nat BY <2>2, FiniteThreads, FS_CardinalityType
  <2>5. UNCHANGED <<cap, pool, guests, asking, denied, refused>> BY <2>1 DEF threadVars, hookVars
  <2>6. AskInv' BY <2>3, <2>4, <2>5 DEF ThreadInv, AskInv
  <2> QED BY <2>5, <2>6 DEF ThreadInv, DeniedInv, RefusalIsHonest
<1>8. CASE \/ \E h \in Hosts : \/ EnterBlock(h) \/ LeaveBlock(h) \/ EnterEval(h) \/ LeaveEval(h)
                              \/ ClosePar(h) \/ CallerStarts(h) \/ CallerEnds(h)
           \/ \E t \in Hosts \cup Workers : Spend(t)
           \/ \E w \in Workers : StartTask(w) \/ EndTask(w)
  <2>1. asking = None /\ UNCHANGED threadVars
    BY <1>8 DEF EnterBlock, LeaveBlock, EnterEval, LeaveEval, ClosePar, CallerStarts, CallerEnds, MayEnter, Running,
                Spend, StartTask, EndTask, HasGil
  <2>2. denied = None BY <2>1 DEF ThreadInv, DeniedInv
  <2> QED BY <1>2, <2>1, <2>2 DEF ThreadInv, threadVars, hookVars
<1>9. CASE \E h \in Hosts : OpenPar(h)
  <2>1. asking = None /\ UNCHANGED <<cap, guests, hookVars>> BY <1>9 DEF OpenPar, Running, HasGil
  <2>2. pool' \subseteq Workers BY <1>9 DEF OpenPar, ThreadInv
  <2>3. denied = None BY <2>1 DEF ThreadInv, DeniedInv
  <2> QED BY <1>2, <2>1, <2>2, <2>3 DEF ThreadInv, hookVars
<1>10. CASE \E c \in Caps : SetCap(c) BY <1>10, SetCapKeeps
<1> QED BY <1>1, <1>3, <1>4, <1>5, <1>6, <1>7, <1>8, <1>9, <1>10 DEF Next

-----------------------------------------------------------------------------
(* The calls of a thread: what a push and a pop leave.                     *)

LEMMA CallFields ==
  ASSUME NEW c \in Calls
  PROVE  /\ c.kind = "par" => c \in Par
         /\ c.kind # "par" => c \in Plain
         /\ Entered(c) \in Scans
<1>1. \A d \in Plain : d.kind # "par" /\ d.previous \in Scans BY DEF Plain
<1>2. \A d \in Par : d.kind = "par" /\ d.scan \in Scans BY DEF Par
<1> QED BY <1>1, <1>2 DEF Calls, Entered

LEMMA PushedStack ==
  ASSUME NEW s \in Stack, NEW c \in Calls
  PROVE  /\ Append(s, c) \in Stack /\ Len(Append(s, c)) = Len(s) + 1 /\ Len(s) \in Nat
         /\ DOMAIN s = 1..Len(s) /\ DOMAIN Append(s, c) = 1..(Len(s) + 1)
         /\ \A i \in 1..Len(s) : Append(s, c)[i] = s[i]
         /\ Append(s, c)[Len(s) + 1] = c
BY AppendProperties, LenProperties DEF Stack

LEMMA PoppedStack ==
  ASSUME NEW s \in Stack, s # <<>>
  PROVE  /\ SubSeq(s, 1, Len(s) - 1) \in Stack /\ Len(s) \in Nat /\ Len(s) > 0
         /\ Len(SubSeq(s, 1, Len(s) - 1)) = Len(s) - 1
         /\ DOMAIN s = 1..Len(s) /\ DOMAIN SubSeq(s, 1, Len(s) - 1) = 1..(Len(s) - 1)
         /\ \A i \in 1..(Len(s) - 1) : SubSeq(s, 1, Len(s) - 1)[i] = s[i]
<1>1. Len(s) \in Nat /\ DOMAIN s = 1..Len(s) BY LenProperties DEF Stack
<1>2. Len(s) > 0 BY <1>1, EmptySeq DEF Stack
<1>3. PICK n : n = Len(s) - 1 OBVIOUS
<1>4. n \in Nat BY <1>1, <1>2, <1>3
<1>5. \A i \in 1..n : s[i] \in Calls BY <1>1, <1>3, ElementOfSeq DEF Stack
<1>6. PICK q : q = SubSeq(s, 1, n) OBVIOUS
<1>7. q \in Seq(Calls) /\ Len(q) = n /\ \A i \in 1..n : q[i] = s[i] BY <1>4, <1>5, <1>6, SubSeqProperties
<1>8. DOMAIN q = 1..n BY <1>7, LenProperties
<1> QED BY <1>1, <1>2, <1>3, <1>6, <1>7, <1>8 DEF Stack

(* The next state of a stack has the kinds and budgets of this one up to n. *)
Agrees(h, n) ==
  \A i \in 1..n : calls'[h][i].kind = calls[h][i].kind /\ Entered(calls'[h][i]) = Entered(calls[h][i])

LEMMA SameNested ==
  ASSUME NEW h \in Hosts, Nested(h), calls[h] \in Stack, calls'[h] \in Stack, Len(calls'[h]) = Len(calls[h]),
         Agrees(h, Len(calls[h])), current'[h] = current[h]
  PROVE  Nested(h)'
<1>1. PICK s : s = calls[h] OBVIOUS
<1>2. PICK r : r = calls'[h] OBVIOUS
<1>3. Len(s) \in Nat /\ DOMAIN s = 1..Len(s) /\ DOMAIN r = 1..Len(s) BY <1>1, <1>2, LenProperties DEF Stack
<1>4. \A i \in 1..Len(s) : r[i].kind = s[i].kind /\ Entered(r[i]) = Entered(s[i]) BY <1>1, <1>2 DEF Agrees
<1>5. HasBlock(h)' <=> HasBlock(h) BY <1>1, <1>2, <1>3, <1>4 DEF HasBlock
<1>6. ASSUME NEW i \in 1..Len(s) PROVE InBlock(h, i)' <=> InBlock(h, i)
  <2>1. \A j \in 1..i - 1 : j \in 1..Len(s) BY <1>3
  <2> QED BY <1>1, <1>2, <1>4, <2>1 DEF InBlock
<1>7. \A i \in 1..Len(s) : Entered(r[i]) = IF InBlock(h, i)' THEN current'[h] ELSE None
  BY <1>1, <1>3, <1>4, <1>6 DEF Nested
<1>8. \A i \in 1..Len(s) : r[i].kind = "task" <=> i > 1 /\ r[i - 1].kind = "par"
  <2>1. \A i \in 1..Len(s) : i > 1 => i - 1 \in 1..Len(s) BY <1>3
  <2>2. \A i \in 1..Len(s) : s[i].kind = "task" <=> i > 1 /\ s[i - 1].kind = "par" BY <1>1, <1>3 DEF Nested
  <2> QED BY <1>4, <2>1, <2>2
<1>9. Len(r) <= MaxDepth /\ (current'[h] # None <=> HasBlock(h)') BY <1>1, <1>2, <1>5 DEF Nested
<1> QED BY <1>2, <1>3, <1>7, <1>8, <1>9 DEF Nested

LEMMA PushNested ==
  ASSUME NEW h \in Hosts, Nested(h), calls[h] \in Stack, calls'[h] \in Stack, Len(calls'[h]) = Len(calls[h]) + 1,
         Len(calls[h]) < MaxDepth, Agrees(h, Len(calls[h])), NEW c, calls'[h][Len(calls[h]) + 1] = c,
         Entered(c) = current[h],
         c.kind = "task" <=> calls[h] # <<>> /\ Top(h).kind = "par",
         IF c.kind = "block" /\ current[h] = None THEN current'[h] # None ELSE current'[h] = current[h]
  PROVE  Nested(h)'
<1>1. PICK s : s = calls[h] OBVIOUS
<1>2. PICK r : r = calls'[h] OBVIOUS
<1>3. PICK n : n = Len(s) OBVIOUS
<1>4. n \in Nat /\ DOMAIN s = 1..n /\ DOMAIN r = 1..(n + 1) BY <1>1, <1>2, <1>3, LenProperties DEF Stack
<1>5. \A i \in 1..n : r[i].kind = s[i].kind /\ Entered(r[i]) = Entered(s[i]) BY <1>1, <1>2, <1>3 DEF Agrees
<1>6. r[n + 1] = c BY <1>1, <1>2, <1>3
<1>7. HasBlock(h)' <=> HasBlock(h) \/ c.kind = "block"
  <2>1. HasBlock(h)' <=> \E j \in 1..(n + 1) : r[j].kind = "block" BY <1>2, <1>4 DEF HasBlock
  <2>2. HasBlock(h) <=> \E j \in 1..n : s[j].kind = "block" BY <1>1, <1>4 DEF HasBlock
  <2>3. n + 1 \in 1..(n + 1) /\ \A j \in 1..(n + 1) : j = n + 1 \/ j \in 1..n BY <1>4
  <2>4. \A j \in 1..n : j \in 1..(n + 1) BY <1>4
  <2> QED BY <1>5, <1>6, <2>1, <2>2, <2>3, <2>4
<1>8. ASSUME NEW i \in 1..(n + 1)
      PROVE  InBlock(h, i)' <=> \E j \in 1..i - 1 : s[j].kind = "block"
  <2>1. \A j \in 1..i - 1 : j \in 1..n BY <1>4
  <2> QED BY <1>2, <1>5, <2>1 DEF InBlock
<1>9. InBlock(h, n + 1)' <=> HasBlock(h)
  <2>1. n + 1 \in 1..(n + 1) /\ (n + 1) - 1 = n BY <1>4
  <2> QED BY <1>1, <1>4, <1>8, <2>1 DEF HasBlock
<1>10. current[h] # None <=> HasBlock(h) BY DEF Nested
<1>11. current'[h] # None <=> HasBlock(h)' BY <1>7, <1>10
<1>12. ASSUME NEW i \in 1..(n + 1) PROVE Entered(r[i]) = IF InBlock(h, i)' THEN current'[h] ELSE None
  <2>1. CASE i = n + 1 BY <1>6, <1>9, <1>10, <2>1
  <2>2. CASE i # n + 1
    <3>1. i \in 1..n BY <1>4, <2>2
    <3>2. InBlock(h, i)' <=> InBlock(h, i) BY <1>1, <1>8 DEF InBlock
    <3>3. Entered(s[i]) = IF InBlock(h, i) THEN current[h] ELSE None BY <1>1, <1>4, <3>1 DEF Nested
    <3>4. InBlock(h, i) => HasBlock(h)
      <4>1. \A j \in 1..i - 1 : j \in 1..n BY <1>4, <3>1
      <4> QED BY <1>1, <1>4, <4>1 DEF InBlock, HasBlock
    <3>5. InBlock(h, i) => current'[h] = current[h] BY <1>10, <3>4
    <3> QED BY <1>5, <3>1, <3>2, <3>3, <3>5
  <2> QED BY <2>1, <2>2
<1>13. ASSUME NEW i \in 1..(n + 1) PROVE r[i].kind = "task" <=> i > 1 /\ r[i - 1].kind = "par"
  <2>1. CASE i = n + 1
    <3>1. s # <<>> <=> n > 0 BY <1>1, <1>3, <1>4, EmptySeq DEF Stack
    <3>2. i - 1 = n /\ (i > 1 <=> n > 0) BY <1>4, <2>1
    <3>3. n > 0 => r[n].kind = s[n].kind BY <1>4, <1>5
    <3>4. Top(h) = s[n] BY <1>1, <1>3 DEF Top
    <3> QED BY <1>1, <1>6, <2>1, <3>1, <3>2, <3>3, <3>4
  <2>2. CASE i # n + 1
    <3>1. i \in 1..n BY <1>4, <2>2
    <3>2. i > 1 => i - 1 \in 1..n BY <1>4, <3>1
    <3>3. s[i].kind = "task" <=> i > 1 /\ s[i - 1].kind = "par" BY <1>1, <1>4, <3>1 DEF Nested
    <3> QED BY <1>5, <3>1, <3>2, <3>3
  <2> QED BY <2>1, <2>2
<1>14. Len(r) <= MaxDepth BY <1>1, <1>2, <1>3, <1>4, BudgetsAssumption
<1> QED BY <1>2, <1>4, <1>11, <1>12, <1>13, <1>14 DEF Nested

(* Only an outermost block was entered with another budget than the one    *)
(* that is current when it is left.                                        *)
LEMMA TopEntered ==
  ASSUME NEW h \in Hosts, Nested(h), calls[h] \in Stack, calls[h] # <<>>
  PROVE  /\ Len(calls[h]) \in DOMAIN calls[h]
         /\ Entered(Top(h)) = IF InBlock(h, Len(calls[h])) THEN current[h] ELSE None
         /\ Top(h).kind # "block" => Entered(Top(h)) = current[h]
         /\ Top(h).kind = "block" => current[h] # None
<1>1. PICK s : s = calls[h] OBVIOUS
<1>2. PICK n : n = Len(s) OBVIOUS
<1>3. n \in Nat /\ n > 0 /\ DOMAIN s = 1..n BY <1>1, <1>2, PoppedStack
<1>4. n \in 1..n BY <1>3
<1>5. Top(h) = s[n] BY <1>1, <1>2 DEF Top
<1>6. Entered(s[n]) = IF InBlock(h, n) THEN current[h] ELSE None BY <1>1, <1>3, <1>4 DEF Nested
<1>7. s[n].kind # "block" => (HasBlock(h) <=> InBlock(h, n))
  <2>1. HasBlock(h) <=> \E j \in 1..n : s[j].kind = "block" BY <1>1, <1>3 DEF HasBlock
  <2>2. InBlock(h, n) <=> \E j \in 1..n - 1 : s[j].kind = "block" BY <1>1 DEF InBlock
  <2>3. \A j \in 1..n : j = n \/ j \in 1..n - 1 BY <1>3
  <2>4. \A j \in 1..n - 1 : j \in 1..n BY <1>3
  <2> QED BY <2>1, <2>2, <2>3, <2>4
<1>8. s[n].kind = "block" => HasBlock(h) BY <1>1, <1>3, <1>4 DEF HasBlock
<1>9. current[h] # None <=> HasBlock(h) BY DEF Nested
<1> QED BY <1>1, <1>2, <1>3, <1>4, <1>5, <1>6, <1>7, <1>8, <1>9

LEMMA PopNested ==
  ASSUME NEW h \in Hosts, Nested(h), calls[h] \in Stack, calls[h] # <<>>, calls'[h] \in Stack,
         Len(calls'[h]) = Len(calls[h]) - 1, Agrees(h, Len(calls[h]) - 1), current'[h] = Entered(Top(h))
  PROVE  Nested(h)'
<1>1. PICK s : s = calls[h] OBVIOUS
<1>2. PICK r : r = calls'[h] OBVIOUS
<1>3. PICK n : n = Len(s) OBVIOUS
<1>4. n \in Nat /\ n > 0 /\ DOMAIN s = 1..n BY <1>1, <1>3, PoppedStack
<1>5. DOMAIN r = 1..n - 1 BY <1>1, <1>2, <1>3, LenProperties DEF Stack
<1>6. \A i \in 1..n - 1 : r[i].kind = s[i].kind /\ Entered(r[i]) = Entered(s[i]) BY <1>1, <1>2, <1>3 DEF Agrees
<1>7. HasBlock(h)' <=> InBlock(h, n) BY <1>1, <1>2, <1>5, <1>6 DEF HasBlock, InBlock
<1>8. current'[h] = IF InBlock(h, n) THEN current[h] ELSE None BY <1>1, <1>3, TopEntered
<1>9. current[h] # None <=> HasBlock(h) BY DEF Nested
<1>10. \A j \in 1..n - 1 : j \in 1..n BY <1>4
<1>11. InBlock(h, n) => HasBlock(h) BY <1>1, <1>4, <1>10 DEF HasBlock, InBlock
<1>12. current'[h] # None <=> HasBlock(h)' BY <1>7, <1>8, <1>9, <1>11
<1>13. ASSUME NEW i \in 1..n - 1 PROVE Entered(r[i]) = IF InBlock(h, i)' THEN current'[h] ELSE None
  <2>1. \A j \in 1..i - 1 : j \in 1..n - 1 BY <1>4
  <2>2. InBlock(h, i)' <=> InBlock(h, i) BY <1>1, <1>2, <1>6, <2>1 DEF InBlock
  <2>3. InBlock(h, i) => InBlock(h, n) BY <2>1 DEF InBlock
  <2>4. Entered(s[i]) = IF InBlock(h, i) THEN current[h] ELSE None BY <1>1, <1>4, <1>10 DEF Nested
  <2> QED BY <1>6, <1>8, <2>2, <2>3, <2>4
<1>14. ASSUME NEW i \in 1..n - 1 PROVE r[i].kind = "task" <=> i > 1 /\ r[i - 1].kind = "par"
  <2>1. i > 1 => i - 1 \in 1..n - 1 BY <1>4
  <2>2. s[i].kind = "task" <=> i > 1 /\ s[i - 1].kind = "par" BY <1>1, <1>4, <1>10 DEF Nested
  <2> QED BY <1>6, <2>1, <2>2
<1>15. Len(r) <= MaxDepth
  <2>1. Len(r) = n - 1 /\ n <= MaxDepth BY <1>1, <1>2, <1>3 DEF Nested
  <2> QED BY <1>4, <2>1, BudgetsAssumption
<1> QED BY <1>2, <1>5, <1>12, <1>13, <1>14, <1>15 DEF Nested

-----------------------------------------------------------------------------
(* References.                                                             *)

IsGather(h, i, b) == i \in DOMAIN calls[h] /\ calls[h][i].kind = "par" /\ calls[h][i].scan = b

LEMMA RefsFinite ==
  ASSUME NEW b
  PROVE  /\ IsFiniteSet(Holders(b)) /\ IsFiniteSet(Gathers(b))
         /\ Cardinality(Holders(b)) \in Nat /\ Cardinality(Gathers(b)) \in Nat
<1>1. Holders(b) \subseteq Hosts BY DEF Holders
<1>2. IsFiniteSet(1..MaxDepth) BY FS_Interval, BudgetsAssumption
<1>3. IsFiniteSet(Hosts \X (1..MaxDepth)) BY <1>2, FS_Product, BudgetsAssumption
<1>4. Gathers(b) \subseteq Hosts \X (1..MaxDepth) BY DEF Gathers
<1>5. IsFiniteSet(Holders(b)) /\ IsFiniteSet(Gathers(b)) BY <1>1, <1>3, <1>4, FS_Subset, BudgetsAssumption
<1> QED BY <1>5, FS_CardinalityType

(* The holders of a budget are the threads that have it. *)
LEMMA HoldersAre ==
  ASSUME \A h \in Hosts : Nested(h), NEW b \in Budgets
  PROVE  Holders(b) = {h \in Hosts : current[h] = b}
<1>1. ASSUME NEW h \in Hosts, current[h] = b PROVE \E i \in DOMAIN calls[h] : calls[h][i].kind = "block"
  <2>1. current[h] # None BY <1>1, BudgetsAssumption
  <2> QED BY <2>1 DEF Nested, HasBlock
<1> QED BY <1>1 DEF Holders

(* A gather has the budget of its thread. *)
LEMMA GatherOfHolder ==
  ASSUME BudgetType, NEW h \in Hosts, Nested(h), NEW b \in Budgets, NEW i, IsGather(h, i, b)
  PROVE  current[h] = b /\ InBlock(h, i) /\ i \in 1..MaxDepth
<1>1. i \in DOMAIN calls[h] /\ calls[h][i].kind = "par" /\ calls[h][i].scan = b BY DEF IsGather
<1>2. Entered(calls[h][i]) = b BY <1>1 DEF Entered
<1>3. Entered(calls[h][i]) = IF InBlock(h, i) THEN current[h] ELSE None BY <1>1 DEF Nested
<1>4. b # None BY BudgetsAssumption
<1>5. i \in 1..MaxDepth
  <2>1. calls[h] \in Stack BY DEF BudgetType
  <2>2. Len(calls[h]) \in Nat /\ DOMAIN calls[h] = 1..Len(calls[h]) BY <2>1, LenProperties DEF Stack
  <2>3. Len(calls[h]) <= MaxDepth BY DEF Nested
  <2> QED BY <1>1, <2>2, <2>3, BudgetsAssumption
<1> QED BY <1>2, <1>3, <1>4, <1>5

LEMMA GathersSame ==
  ASSUME NEW b, \A h \in Hosts : \A i \in 1..MaxDepth : IsGather(h, i, b)' <=> IsGather(h, i, b)
  PROVE  Gathers(b)' = Gathers(b)
<1>1. ASSUME NEW g \in Hosts \X (1..MaxDepth) PROVE g \in Gathers(b)' <=> g \in Gathers(b)
  <2>1. g[1] \in Hosts /\ g[2] \in 1..MaxDepth OBVIOUS
  <2>2. g \in Gathers(b) <=> IsGather(g[1], g[2], b) BY DEF Gathers, IsGather
  <2>3. g \in Gathers(b)' <=> IsGather(g[1], g[2], b)' BY DEF Gathers, IsGather
  <2> QED BY <2>1, <2>2, <2>3
<1>2. Gathers(b) \subseteq Hosts \X (1..MaxDepth) /\ Gathers(b)' \subseteq Hosts \X (1..MaxDepth) BY DEF Gathers
<1> QED BY <1>1, <1>2

(* One gather more, and one less. *)
LEMMA GathersMore ==
  ASSUME NEW b, NEW h \in Hosts, NEW n \in 1..MaxDepth, ~IsGather(h, n, b),
         \A g \in Hosts : \A i \in 1..MaxDepth : IsGather(g, i, b)' <=> IsGather(g, i, b) \/ (g = h /\ i = n)
  PROVE  Cardinality(Gathers(b)') = Cardinality(Gathers(b)) + 1
<1>1. ASSUME NEW g \in Hosts \X (1..MaxDepth) PROVE g \in Gathers(b)' <=> g \in Gathers(b) \cup {<<h, n>>}
  <2>1. g[1] \in Hosts /\ g[2] \in 1..MaxDepth /\ g = <<g[1], g[2]>> OBVIOUS
  <2>2. g \in Gathers(b) <=> IsGather(g[1], g[2], b) BY DEF Gathers, IsGather
  <2>3. g \in Gathers(b)' <=> IsGather(g[1], g[2], b)' BY DEF Gathers, IsGather
  <2>4. g = <<h, n>> <=> g[1] = h /\ g[2] = n BY <2>1
  <2> QED BY <2>1, <2>2, <2>3, <2>4
<1>2. Gathers(b) \subseteq Hosts \X (1..MaxDepth) /\ Gathers(b)' \subseteq Hosts \X (1..MaxDepth) BY DEF Gathers
<1>3. Gathers(b)' = Gathers(b) \cup {<<h, n>>} BY <1>1, <1>2
<1>4. <<h, n>> \notin Gathers(b) BY DEF Gathers, IsGather
<1> QED BY <1>3, <1>4, RefsFinite, FS_AddElement

LEMMA GathersLess ==
  ASSUME NEW b, NEW h \in Hosts, NEW n \in 1..MaxDepth, IsGather(h, n, b),
         \A g \in Hosts : \A i \in 1..MaxDepth : IsGather(g, i, b)' <=> IsGather(g, i, b) /\ ~(g = h /\ i = n)
  PROVE  Cardinality(Gathers(b)') = Cardinality(Gathers(b)) - 1
<1>1. ASSUME NEW g \in Hosts \X (1..MaxDepth) PROVE g \in Gathers(b)' <=> g \in Gathers(b) \ {<<h, n>>}
  <2>1. g[1] \in Hosts /\ g[2] \in 1..MaxDepth /\ g = <<g[1], g[2]>> OBVIOUS
  <2>2. g \in Gathers(b) <=> IsGather(g[1], g[2], b) BY DEF Gathers, IsGather
  <2>3. g \in Gathers(b)' <=> IsGather(g[1], g[2], b)' BY DEF Gathers, IsGather
  <2>4. g = <<h, n>> <=> g[1] = h /\ g[2] = n BY <2>1
  <2> QED BY <2>1, <2>2, <2>3, <2>4
<1>2. Gathers(b) \subseteq Hosts \X (1..MaxDepth) /\ Gathers(b)' \subseteq Hosts \X (1..MaxDepth) BY DEF Gathers
<1>3. Gathers(b)' = Gathers(b) \ {<<h, n>>} BY <1>1, <1>2
<1>4. <<h, n>> \in Gathers(b) BY DEF Gathers, IsGather
<1> QED BY <1>3, <1>4, RefsFinite, FS_RemoveElement

-----------------------------------------------------------------------------
(* Steps that leave a part of the invariant alone.                         *)

LEMMA RefsSame ==
  ASSUME \A h \in Hosts : Nested(h), \A h \in Hosts : Nested(h)', NEW b \in Budgets,
         \A h \in Hosts : current'[h] = b <=> current[h] = b,
         \A h \in Hosts : \A i \in 1..MaxDepth : IsGather(h, i, b)' <=> IsGather(h, i, b)
  PROVE  References(b)' = References(b)
<1>1. Gathers(b)' = Gathers(b) BY GathersSame
<1>2. Holders(b) = {h \in Hosts : current[h] = b} BY HoldersAre
<1>3. Holders(b)' = {h \in Hosts : current'[h] = b}
  <2>1. ASSUME NEW h \in Hosts, current'[h] = b PROVE \E i \in DOMAIN calls'[h] : calls'[h][i].kind = "block"
    <3>1. current'[h] # None BY <2>1, BudgetsAssumption
    <3> QED BY <3>1 DEF Nested, HasBlock
  <2> QED BY <2>1 DEF Holders
<1>4. Holders(b)' = Holders(b) BY <1>2, <1>3
<1> QED BY <1>1, <1>4 DEF References

LEMMA AccountSame ==
  ASSUME \A h \in Hosts : Nested(h), \A h \in Hosts : Nested(h)', NEW b \in Budgets, Accounted(b),
         budget'[b].life = budget[b].life, budget'[b].references = budget[b].references,
         budget'[b].spent + budget'[b].remaining = budget[b].spent + budget[b].remaining,
         \A h \in Hosts : current'[h] = b <=> current[h] = b,
         \A h \in Hosts : \A i \in 1..MaxDepth : IsGather(h, i, b)' <=> IsGather(h, i, b)
  PROVE  Accounted(b)'
<1>1. References(b)' = References(b) BY RefsSame
<1> QED BY <1>1 DEF Accounted

(* Stacks of the same kinds and budgets have the same gathers. *)
LEMMA GatherAgrees ==
  ASSUME NEW h \in Hosts, calls[h] \in Stack, calls'[h] \in Stack, Len(calls'[h]) = Len(calls[h]),
         Agrees(h, Len(calls[h])), NEW b, NEW i
  PROVE  IsGather(h, i, b)' <=> IsGather(h, i, b)
<1>1. Len(calls[h]) \in Nat /\ DOMAIN calls[h] = 1..Len(calls[h]) /\ DOMAIN calls'[h] = 1..Len(calls[h])
  BY LenProperties DEF Stack
<1>2. \A j \in 1..Len(calls[h]) : calls'[h][j].kind = calls[h][j].kind /\ Entered(calls'[h][j]) = Entered(calls[h][j])
  BY DEF Agrees
<1>3. IsGather(h, i, b) <=> i \in 1..Len(calls[h]) /\ calls[h][i].kind = "par" /\ Entered(calls[h][i]) = b
  BY <1>1 DEF IsGather, Entered
<1>4. IsGather(h, i, b)' <=> i \in 1..Len(calls[h]) /\ calls'[h][i].kind = "par" /\ Entered(calls'[h][i]) = b
  BY <1>1 DEF IsGather, Entered
<1> QED BY <1>2, <1>3, <1>4

(* The stacks, the budgets of the hosts and the accounts stay. *)
LEMMA HostsStay ==
  ASSUME BudgetInv, UNCHANGED <<calls, budget>>, \A h \in Hosts : current'[h] = current[h]
  PROVE  (\A h \in Hosts : Nested(h)') /\ Apart' /\ \A b \in Budgets : Accounted(b)'
<1>1. ASSUME NEW h \in Hosts PROVE Nested(h)'
  <2>1. Nested(h) BY DEF BudgetInv
  <2> QED BY <2>1 DEF Nested, HasBlock, InBlock
<1>2. Apart' BY DEF BudgetInv, Apart
<1>3. ASSUME NEW b \in Budgets PROVE Accounted(b)'
  <2>1. \A h \in Hosts : \A i \in 1..MaxDepth : IsGather(h, i, b)' <=> IsGather(h, i, b) BY DEF IsGather
  <2>2. Accounted(b) /\ \A h \in Hosts : Nested(h) BY DEF BudgetInv
  <2> QED BY <1>1, <2>1, <2>2, AccountSame
<1> QED BY <1>1, <1>2, <1>3

LEMMA BudgetKept ==
  ASSUME BudgetInv, UNCHANGED <<pool, worker, job, before, calls, current, budget>>
  PROVE  BudgetInv'
<1>1. (\A h \in Hosts : Nested(h)') /\ Apart' /\ \A b \in Budgets : Accounted(b)' BY HostsStay
<1>2. BudgetType' BY DEF BudgetInv, BudgetType
<1>3. \A h, i : On(h, i)' = On(h, i) BY DEF On, Busy
<1>4. Tally' BY <1>3 DEF BudgetInv, Tally, Tallied
<1>5. \A w \in Workers : WorkInv(w)' BY DEF BudgetInv, WorkInv, Busy
<1> QED BY <1>1, <1>2, <1>4, <1>5 DEF BudgetInv

(* A worker's own step, which takes it from one place to another. *)
LEMMA GoIdleKeeps ==
  ASSUME BudgetInv, NEW w \in Workers, GoIdle(w) \/ MakeState(w)
  PROVE  BudgetInv'
<1>1. UNCHANGED <<pool, job, before, calls, current, budget>> BY DEF GoIdle, MakeState, threadVars, scanVars
<1>2. BudgetType BY DEF BudgetInv
<1>3. PICK to \in {"idle", "ready"} :
        worker' = [worker EXCEPT ![w] = to] /\ worker[w] = (IF to = "idle" THEN "awake" ELSE "claims")
  BY DEF GoIdle, MakeState
<1>4. worker' \in [Workers -> Places] BY <1>2, <1>3 DEF BudgetType, Places
<1>5. \A v \in Workers : /\ Busy(v)' <=> Busy(v)
                         /\ worker'[v] = "runs" <=> worker[v] = "runs"
                         /\ worker'[v] # "none" => worker[v] # "none"
  BY <1>2, <1>3 DEF BudgetType, Busy
<1>6. (\A h \in Hosts : Nested(h)') /\ Apart' /\ \A b \in Budgets : Accounted(b)' BY <1>1, HostsStay
<1>7. BudgetType' BY <1>1, <1>2, <1>4, <1>5 DEF BudgetType
<1>8. \A h, i : On(h, i)' = On(h, i) BY <1>1, <1>5 DEF On
<1>9. Tally' BY <1>1, <1>8 DEF BudgetInv, Tally, Tallied
<1>10. ASSUME NEW v \in Workers PROVE WorkInv(v)'
  <2>1. WorkInv(v) BY DEF BudgetInv
  <2> QED BY <1>1, <1>5, <2>1 DEF WorkInv
<1> QED BY <1>6, <1>7, <1>9, <1>10 DEF BudgetInv

LEMMA StartTaskKeeps ==
  ASSUME BudgetInv, NEW w \in Workers, StartTask(w)
  PROVE  BudgetInv'
<1>1. /\ UNCHANGED <<pool, job, calls, budget>> /\ worker[w] = "ready" /\ worker' = [worker EXCEPT ![w] = "runs"]
      /\ before' = [before EXCEPT ![w] = current[w]]
      /\ current' = [current EXCEPT ![w] = calls[job[w][1]][job[w][2]].scan]
  BY DEF StartTask, threadVars
<1>2. BudgetType BY DEF BudgetInv
<1>3. WorkInv(w) /\ Busy(w) BY <1>1 DEF BudgetInv, Busy
<1>4. PICK h \in Hosts : \E i \in DOMAIN calls[h] : job[w] = <<h, i>> /\ calls[h][i].kind = "par" BY <1>3 DEF WorkInv
<1>5. PICK i \in DOMAIN calls[h] : job[w] = <<h, i>> /\ calls[h][i].kind = "par" BY <1>4
<1>6. calls[h][i].scan \in Scans
  <2>1. calls[h] \in Stack BY <1>2 DEF BudgetType
  <2>2. calls[h][i] \in Calls BY <1>5, <2>1, ElementOfSeq, LenProperties DEF Stack
  <2> QED BY <1>5, <2>2, CallFields DEF Entered
<1>7. current' = [current EXCEPT ![w] = calls[h][i].scan] BY <1>1, <1>5
<1>8. current' \in [Hosts \cup Workers -> Scans] BY <1>2, <1>6, <1>7 DEF BudgetType
<1>9. \A g \in Hosts : current'[g] = current[g] BY <1>2, <1>7, BudgetsAssumption DEF BudgetType
<1>10. current[w] = None BY <1>1, <1>3 DEF WorkInv
<1>11. before' = [v \in Workers |-> None] BY <1>1, <1>2, <1>10 DEF BudgetType
<1>12. worker' \in [Workers -> Places] BY <1>1, <1>2 DEF BudgetType, Places
<1>13. \A v \in Workers : /\ Busy(v)' <=> Busy(v)
                          /\ v # w => worker'[v] = worker[v] /\ current'[v] = current[v]
                          /\ worker'[v] # "none" => worker[v] # "none"
  BY <1>1, <1>2, <1>7 DEF BudgetType, Busy
<1>14. BudgetType' BY <1>1, <1>2, <1>8, <1>11, <1>12, <1>13 DEF BudgetType
<1>15. (\A g \in Hosts : Nested(g)') /\ Apart' /\ \A b \in Budgets : Accounted(b)' BY <1>1, <1>9, HostsStay
<1>16. \A g, k : On(g, k)' = On(g, k) BY <1>1, <1>13 DEF On
<1>17. Tally' BY <1>1, <1>16 DEF BudgetInv, Tally, Tallied
<1>18. ASSUME NEW v \in Workers PROVE WorkInv(v)'
  <2>1. CASE v = w
    <3>1. current'[w] = calls[h][i].scan /\ worker'[w] = "runs" BY <1>1, <1>2, <1>7 DEF BudgetType
    <3> QED BY <1>1, <1>5, <2>1, <3>1 DEF WorkInv
  <2>2. CASE v # w
    <3>1. WorkInv(v) BY DEF BudgetInv
    <3> QED BY <1>1, <1>13, <2>2, <3>1 DEF WorkInv
  <2> QED BY <2>1, <2>2
<1> QED BY <1>14, <1>15, <1>17, <1>18 DEF BudgetInv

(* An entry goes from what is left of a budget to what is spent of it. *)
LEMMA SpendKeeps ==
  ASSUME BudgetInv, NEW t \in Hosts \cup Workers, Spend(t)
  PROVE  BudgetInv'
<1>1. UNCHANGED <<pool, worker, job, before, calls, current>> /\ current[t] # None /\ MaySpend(current[t])
  BY DEF Spend, threadVars, workVars
<1>2. BudgetType BY DEF BudgetInv
<1>3. PICK b : b = current[t] OBVIOUS
<1>4. b \in Budgets BY <1>1, <1>2, <1>3 DEF BudgetType, Scans
<1>5. budget' = [budget EXCEPT ![b].remaining = @ - 1, ![b].spent = @ + 1] BY <1>3 DEF Spend
<1>6. PICK u : u = budget[b] OBVIOUS
<1>7. u \in [life : {"free", "live", "freed"}, remaining : Nat, references : Int, spent : Int] BY <1>2, <1>4, <1>6 DEF BudgetType
<1>8. u.remaining > 0 BY <1>1, <1>3, <1>4, <1>6, BudgetsAssumption DEF MaySpend
<1>9. PICK v : v = [life |-> u.life, remaining |-> u.remaining - 1, references |-> u.references, spent |-> u.spent + 1] OBVIOUS
<1>10. budget' = [budget EXCEPT ![b] = v] BY <1>2, <1>4, <1>5, <1>6, <1>7, <1>9 DEF BudgetType
<1>11. v \in [life : {"free", "live", "freed"}, remaining : Nat, references : Int, spent : Int] BY <1>7, <1>8, <1>9
<1>12. BudgetType' BY <1>1, <1>2, <1>4, <1>10, <1>11 DEF BudgetType
<1>13. \A h \in Hosts : Nested(h)' BY <1>1 DEF BudgetInv, Nested, HasBlock, InBlock
<1>14. ASSUME NEW a \in Budgets PROVE Accounted(a)'
  <2>1. Accounted(a) /\ \A h \in Hosts : Nested(h) BY DEF BudgetInv
  <2>2. \A h \in Hosts : \A i \in 1..MaxDepth : IsGather(h, i, a)' <=> IsGather(h, i, a) BY <1>1 DEF IsGather
  <2>3. \A h \in Hosts : current'[h] = a <=> current[h] = a BY <1>1
  <2>4. CASE a = b
    <3>1. budget'[b] = v BY <1>2, <1>4, <1>10 DEF BudgetType
    <3>2. v.life = u.life /\ v.references = u.references /\ v.spent = u.spent + 1 /\ v.remaining = u.remaining - 1 BY <1>9
    <3>3. u.spent \in Int /\ u.remaining \in Int BY <1>7
    <3>4. v.spent + v.remaining = u.spent + u.remaining BY <3>2, <3>3
    <3> QED BY <1>6, <1>13, <2>1, <2>2, <2>3, <2>4, <3>1, <3>2, <3>4, AccountSame
  <2>5. CASE a # b
    <3>1. budget'[a] = budget[a] BY <1>2, <1>10, <2>5 DEF BudgetType
    <3> QED BY <1>13, <2>1, <2>2, <2>3, <3>1, AccountSame
  <2> QED BY <2>4, <2>5
<1>15. \A h, i : On(h, i)' = On(h, i) BY <1>1 DEF On, Busy
<1>16. Tally' BY <1>1, <1>15 DEF BudgetInv, Tally, Tallied
<1>17. \A w \in Workers : WorkInv(w)' BY <1>1 DEF BudgetInv, WorkInv, Busy
<1>18. Apart' BY <1>1 DEF BudgetInv, Apart
<1> QED BY <1>12, <1>13, <1>14, <1>16, <1>17, <1>18 DEF BudgetInv

-----------------------------------------------------------------------------
(* Steps that change the stack of one thread.                              *)

(* A worker keeps its gather as long as the gather is there. *)
LEMMA WorkFrame ==
  ASSUME NEW w \in Workers, WorkInv(w), Busy(w)' => Busy(w), worker'[w] = "runs" <=> worker[w] = "runs",
         job'[w] = job[w], current'[w] = current[w],
         \A h \in Hosts : \A i \in DOMAIN calls[h] :
           calls[h][i].kind = "par" /\ Busy(w) /\ job[w] = <<h, i>> =>
             i \in DOMAIN calls'[h] /\ calls'[h][i].kind = "par" /\ calls'[h][i].scan = calls[h][i].scan
  PROVE  WorkInv(w)'
<1>1. ASSUME Busy(w)'
      PROVE  \E h \in Hosts : \E i \in DOMAIN calls'[h] :
               /\ job'[w] = <<h, i>> /\ calls'[h][i].kind = "par"
               /\ worker'[w] = "runs" => current'[w] = calls'[h][i].scan
  <2>1. PICK h \in Hosts : \E i \in DOMAIN calls[h] :
               /\ job[w] = <<h, i>> /\ calls[h][i].kind = "par"
               /\ worker[w] = "runs" => current[w] = calls[h][i].scan
    BY <1>1 DEF WorkInv
  <2>2. PICK i \in DOMAIN calls[h] :
               /\ job[w] = <<h, i>> /\ calls[h][i].kind = "par"
               /\ worker[w] = "runs" => current[w] = calls[h][i].scan
    BY <2>1
  <2>3. i \in DOMAIN calls'[h] /\ calls'[h][i].kind = "par" /\ calls'[h][i].scan = calls[h][i].scan BY <1>1, <2>2
  <2> QED BY <2>2, <2>3
<1>2. worker'[w] # "runs" => current'[w] = None BY DEF WorkInv
<1> QED BY <1>1, <1>2 DEF WorkInv

(* The other threads keep their calls, their tallies and their gathers. *)
LEMMA OthersStay ==
  ASSUME BudgetInv, NEW h \in Hosts, NEW r \in Stack, calls' = [calls EXCEPT ![h] = r],
         \A g \in Hosts : g # h => current'[g] = current[g]
  PROVE  /\ calls' \in [Hosts -> Stack] /\ calls'[h] = r
         /\ \A g \in Hosts : g # h => calls'[g] = calls[g]
         /\ \A g \in Hosts : g # h => Nested(g)'
         /\ \A g \in Hosts : \A i, b : g # h => (IsGather(g, i, b)' <=> IsGather(g, i, b))
<1>1. calls \in [Hosts -> Stack] BY DEF BudgetInv, BudgetType
<1>2. calls' \in [Hosts -> Stack] /\ calls'[h] = r BY <1>1
<1>3. \A g \in Hosts : g # h => calls'[g] = calls[g] BY <1>1
<1>4. ASSUME NEW g \in Hosts, g # h PROVE Nested(g)'
  <2>1. Nested(g) BY DEF BudgetInv
  <2>2. calls'[g] = calls[g] /\ current'[g] = current[g] BY <1>3, <1>4
  <2> QED BY <2>1, <2>2 DEF Nested, HasBlock, InBlock
<1>5. \A g \in Hosts : \A i, b : g # h => (IsGather(g, i, b)' <=> IsGather(g, i, b)) BY <1>3 DEF IsGather
<1> QED BY <1>2, <1>3, <1>4, <1>5

LEMMA TallyFrame ==
  ASSUME Tally, NEW h \in Hosts, \A g \in Hosts : g # h => calls'[g] = calls[g],
         \A g \in Hosts : \A i : g # h => On(g, i)' = On(g, i),
         \A i \in DOMAIN calls'[h] : calls'[h][i].kind = "par" => Tallied(h, i)'
  PROVE  Tally'
<1>1. ASSUME NEW g \in Hosts, NEW i \in DOMAIN calls'[g], calls'[g][i].kind = "par" PROVE Tallied(g, i)'
  <2>1. CASE g = h BY <1>1, <2>1
  <2>2. CASE g # h
    <3>1. calls'[g] = calls[g] /\ On(g, i)' = On(g, i) BY <2>2
    <3>2. Tallied(g, i) BY <1>1, <3>1 DEF Tally
    <3> QED BY <3>1, <3>2 DEF Tallied
  <2> QED BY <2>1, <2>2
<1> QED BY <1>1 DEF Tally

(* Nobody works for a gather that is not there. *)
LEMMA OnGather ==
  ASSUME \A w \in Workers : WorkInv(w), NEW h \in Hosts, NEW i, i \notin DOMAIN calls[h]
  PROVE  On(h, i) = {}
<1> SUFFICES ASSUME NEW w \in Workers, Busy(w), job[w] = <<h, i>> PROVE FALSE BY DEF On
<1>1. PICK g \in Hosts : \E j \in DOMAIN calls[g] : job[w] = <<g, j>> BY DEF WorkInv
<1>2. PICK j \in DOMAIN calls[g] : job[w] = <<g, j>> BY <1>1
<1>3. g = h /\ j = i BY <1>2
<1> QED BY <1>2, <1>3

(* A call is pushed on a thread that is not in a gather. *)
LEMMA PushStep ==
  ASSUME BudgetInv, NEW h \in Hosts, NEW c \in Calls, Push(h, c), Len(calls[h]) < MaxDepth,
         calls[h] = <<>> \/ Top(h).kind # "par", c.kind # "task", Entered(c) = current[h],
         c.kind = "par" => c.left = c.queued,
         \A g \in Hosts : g # h => current'[g] = current[g], \A w \in Workers : current'[w] = current[w],
         IF c.kind = "block" /\ current[h] = None THEN current'[h] # None ELSE current'[h] = current[h],
         job' = job, \A w \in Workers : (Busy(w)' <=> Busy(w)) /\ (worker'[w] = "runs" <=> worker[w] = "runs")
  PROVE  /\ calls' \in [Hosts -> Stack] /\ (\A g \in Hosts : Nested(g)') /\ Tally' /\ \A w \in Workers : WorkInv(w)'
         /\ \A g \in Hosts : \A i, b : IsGather(g, i, b)' <=>
              IsGather(g, i, b) \/ (g = h /\ i = Len(calls[h]) + 1 /\ c.kind = "par" /\ c.scan = b)
<1>1. PICK s : s = calls[h] OBVIOUS
<1>2. s \in Stack BY <1>1 DEF BudgetInv, BudgetType
<1>3. PICK r : r = Append(s, c) OBVIOUS
<1>4. PICK n : n = Len(s) OBVIOUS
<1>5. /\ r \in Stack /\ Len(r) = n + 1 /\ n \in Nat /\ DOMAIN s = 1..n /\ DOMAIN r = 1..(n + 1)
      /\ (\A i \in 1..n : r[i] = s[i]) /\ r[n + 1] = c
  BY <1>2, <1>3, <1>4, PushedStack
<1>6. calls' = [calls EXCEPT ![h] = r]
  <2>1. calls \in [Hosts -> Stack] BY DEF BudgetInv, BudgetType
  <2> QED BY <1>1, <1>3, <2>1 DEF Push
<1>7. /\ calls' \in [Hosts -> Stack] /\ calls'[h] = r
      /\ \A g \in Hosts : g # h => calls'[g] = calls[g]
      /\ \A g \in Hosts : g # h => Nested(g)'
      /\ \A g \in Hosts : \A i, b : g # h => (IsGather(g, i, b)' <=> IsGather(g, i, b))
  BY <1>5, <1>6, OthersStay
<1>8. Nested(h) /\ \A w \in Workers : WorkInv(w) BY DEF BudgetInv
<1>9. Agrees(h, n) BY <1>1, <1>5, <1>7 DEF Agrees
<1>10. Nested(h)' BY <1>1, <1>2, <1>4, <1>5, <1>7, <1>8, <1>9, PushNested
<1>11. \A g, i : On(g, i)' = On(g, i) BY DEF On
<1>12. n > 0 => s[n].kind # "par"
  <2>1. n > 0 => s # <<>> BY <1>2, <1>4, EmptySeq DEF Stack
  <2> QED BY <1>1, <1>4, <2>1 DEF Top
<1>13. ASSUME NEW i \in DOMAIN calls'[h], calls'[h][i].kind = "par" PROVE Tallied(h, i)'
  <2>1. calls'[h] = r /\ i \in 1..(n + 1) /\ On(h, i)' = On(h, i) BY <1>5, <1>7, <1>11
  <2>2. CASE i = n + 1
    <3>1. i \notin DOMAIN calls[h] BY <1>1, <1>5, <2>2
    <3>2. Cardinality(On(h, i)) = 0 BY <1>8, <3>1, OnGather, FS_EmptySet
    <3>3. r[i] = c BY <1>5, <2>2
    <3>4. c.left = c.queued BY <1>13, <2>1, <3>3
    <3>5. c \in Par BY <1>13, <2>1, <3>3, CallFields
    <3>6. c.queued \in Nat BY <3>5 DEF Par
    <3>7. ~(i < Len(r)) BY <1>5, <2>2
    <3> QED BY <2>1, <3>2, <3>3, <3>4, <3>6, <3>7 DEF Tallied
  <2>3. CASE i # n + 1
    <3>1. i \in 1..n /\ i < Len(r) BY <1>5, <2>1, <2>3
    <3>2. r[i] = s[i] BY <1>5, <3>1
    <3>3. i # n BY <1>12, <1>13, <2>1, <3>1, <3>2
    <3>4. i < Len(s) BY <1>4, <1>5, <3>1, <3>3
    <3>5. Tallied(h, i) BY <1>1, <1>5, <1>13, <2>1, <3>1, <3>2 DEF BudgetInv, Tally
    <3> QED BY <1>1, <2>1, <3>1, <3>2, <3>4, <3>5 DEF Tallied
  <2> QED BY <2>2, <2>3
<1>14. Tally BY DEF BudgetInv
<1>15. Tally' BY <1>7, <1>11, <1>13, <1>14, TallyFrame
<1>16. ASSUME NEW w \in Workers PROVE WorkInv(w)'
  <2>1. ASSUME NEW g \in Hosts, NEW i \in DOMAIN calls[g]
        PROVE  i \in DOMAIN calls'[g] /\ calls'[g][i] = calls[g][i]
    <3>1. CASE g = h
      <4>1. i \in 1..n BY <1>1, <1>5, <2>1, <3>1
      <4>2. i \in 1..(n + 1) BY <1>5, <4>1
      <4> QED BY <1>1, <1>5, <1>7, <3>1, <4>1, <4>2
    <3>2. CASE g # h BY <1>7, <3>2
    <3> QED BY <3>1, <3>2
  <2>2. WorkInv(w) BY <1>8
  <2> QED BY <2>1, <2>2, WorkFrame
<1>17. ASSUME NEW g \in Hosts, NEW i, NEW b
       PROVE  IsGather(g, i, b)' <=> IsGather(g, i, b) \/ (g = h /\ i = n + 1 /\ c.kind = "par" /\ c.scan = b)
  <2>1. CASE g # h BY <1>7, <2>1
  <2>2. CASE g = h
    <3>1. IsGather(h, i, b)' <=> i \in 1..(n + 1) /\ r[i].kind = "par" /\ r[i].scan = b BY <1>5, <1>7 DEF IsGather
    <3>2. IsGather(h, i, b) <=> i \in 1..n /\ s[i].kind = "par" /\ s[i].scan = b BY <1>1, <1>5 DEF IsGather
    <3>3. i \in 1..(n + 1) <=> i \in 1..n \/ i = n + 1 BY <1>5
    <3>4. n + 1 \notin 1..n BY <1>5
    <3> QED BY <1>5, <2>2, <3>1, <3>2, <3>3, <3>4
  <2> QED BY <2>1, <2>2
<1> QED BY <1>1, <1>4, <1>7, <1>10, <1>15, <1>16, <1>17

(* A call that no task stands on is popped. *)
LEMMA PopStep ==
  ASSUME BudgetInv, NEW h \in Hosts, calls[h] # <<>>, Pop(h), Top(h).kind # "task",
         Top(h).kind = "par" => On(h, Len(calls[h])) = {}, current'[h] = Entered(Top(h)),
         \A g \in Hosts : g # h => current'[g] = current[g], \A w \in Workers : current'[w] = current[w],
         UNCHANGED <<worker, job>>
  PROVE  /\ calls' \in [Hosts -> Stack] /\ (\A g \in Hosts : Nested(g)') /\ Tally' /\ \A w \in Workers : WorkInv(w)'
         /\ \A g \in Hosts : \A i, b : IsGather(g, i, b)' <=> IsGather(g, i, b) /\ ~(g = h /\ i = Len(calls[h]))
<1>1. PICK s : s = calls[h] OBVIOUS
<1>2. s \in Stack /\ s # <<>> BY <1>1 DEF BudgetInv, BudgetType
<1>3. PICK n : n = Len(s) OBVIOUS
<1>4. PICK r : r = SubSeq(s, 1, n - 1) OBVIOUS
<1>5. /\ r \in Stack /\ Len(r) = n - 1 /\ n \in Nat /\ n > 0 /\ DOMAIN s = 1..n /\ DOMAIN r = 1..(n - 1)
      /\ \A i \in 1..(n - 1) : r[i] = s[i]
  BY <1>2, <1>3, <1>4, PoppedStack
<1>6. calls' = [calls EXCEPT ![h] = r]
  <2>1. calls \in [Hosts -> Stack] BY DEF BudgetInv, BudgetType
  <2> QED BY <1>1, <1>3, <1>4, <2>1 DEF Pop
<1>7. /\ calls' \in [Hosts -> Stack] /\ calls'[h] = r
      /\ \A g \in Hosts : g # h => calls'[g] = calls[g]
      /\ \A g \in Hosts : g # h => Nested(g)'
      /\ \A g \in Hosts : \A i, b : g # h => (IsGather(g, i, b)' <=> IsGather(g, i, b))
  BY <1>5, <1>6, OthersStay
<1>8. Nested(h) /\ \A w \in Workers : WorkInv(w) BY DEF BudgetInv
<1>9. Agrees(h, n - 1) BY <1>1, <1>5, <1>7 DEF Agrees
<1>10. Nested(h)' BY <1>1, <1>2, <1>3, <1>5, <1>7, <1>8, <1>9, PopNested
<1>11. \A g, i : On(g, i)' = On(g, i) BY DEF On, Busy
<1>12. s[n] = Top(h) BY <1>1, <1>3 DEF Top
<1>13. ASSUME NEW i \in DOMAIN calls'[h], calls'[h][i].kind = "par" PROVE Tallied(h, i)'
  <2>1. calls'[h] = r /\ i \in 1..(n - 1) /\ On(h, i)' = On(h, i) BY <1>5, <1>7, <1>11
  <2>2. r[i] = s[i] /\ i \in 1..n /\ i < n BY <1>5, <2>1
  <2>3. i # n - 1
    <3>1. n \in 1..n BY <1>5
    <3>2. s[n].kind = "task" <=> n > 1 /\ s[n - 1].kind = "par" BY <1>1, <1>5, <1>8, <3>1 DEF Nested
    <3> QED BY <1>5, <1>12, <1>13, <2>1, <2>2, <3>2
  <2>4. i < Len(r) BY <1>5, <2>1, <2>3
  <2>5. Tallied(h, i) BY <1>1, <1>5, <1>13, <2>1, <2>2 DEF BudgetInv, Tally
  <2> QED BY <1>1, <1>3, <2>1, <2>2, <2>4, <2>5 DEF Tallied
<1>14. Tally BY DEF BudgetInv
<1>15. Tally' BY <1>7, <1>11, <1>13, <1>14, TallyFrame
<1>16. ASSUME NEW w \in Workers PROVE WorkInv(w)'
  <2>1. ASSUME NEW g \in Hosts, NEW i \in DOMAIN calls[g], calls[g][i].kind = "par", Busy(w), job[w] = <<g, i>>
        PROVE  i \in DOMAIN calls'[g] /\ calls'[g][i] = calls[g][i]
    <3>1. CASE g = h
      <4>1. i \in 1..n BY <1>1, <1>5, <2>1, <3>1
      <4>2. w \in On(h, i) BY <2>1, <3>1 DEF On
      <4>3. i # n BY <1>1, <1>3, <1>12, <2>1, <3>1, <4>2
      <4>4. i \in 1..(n - 1) BY <1>5, <4>1, <4>3
      <4> QED BY <1>1, <1>5, <1>7, <3>1, <4>4
    <3>2. CASE g # h BY <1>7, <3>2
    <3> QED BY <3>1, <3>2
  <2>2. WorkInv(w) BY <1>8
  <2>3. Busy(w)' => Busy(w) BY DEF Busy
  <2> QED BY <2>1, <2>2, <2>3, WorkFrame
<1>17. ASSUME NEW g \in Hosts, NEW i, NEW b
       PROVE  IsGather(g, i, b)' <=> IsGather(g, i, b) /\ ~(g = h /\ i = n)
  <2>1. CASE g # h BY <1>7, <2>1
  <2>2. CASE g = h
    <3>1. IsGather(h, i, b)' <=> i \in 1..(n - 1) /\ r[i].kind = "par" /\ r[i].scan = b BY <1>5, <1>7 DEF IsGather
    <3>2. IsGather(h, i, b) <=> i \in 1..n /\ s[i].kind = "par" /\ s[i].scan = b BY <1>1, <1>5 DEF IsGather
    <3>3. i \in 1..(n - 1) <=> i \in 1..n /\ i # n BY <1>5
    <3> QED BY <1>5, <2>2, <3>1, <3>2, <3>3
  <2> QED BY <2>1, <2>2
<1> QED BY <1>1, <1>3, <1>7, <1>10, <1>15, <1>16, <1>17

-----------------------------------------------------------------------------
(* Blocks and evaluations.                                                 *)

LEMMA AccountsStay ==
  ASSUME BudgetInv, \A g \in Hosts : Nested(g)', budget' = budget, \A g \in Hosts : current'[g] = current[g],
         \A b \in Budgets : \A g \in Hosts : \A i : IsGather(g, i, b)' <=> IsGather(g, i, b)
  PROVE  Apart' /\ \A b \in Budgets : Accounted(b)'
<1>1. Apart' BY DEF BudgetInv, Apart
<1>2. ASSUME NEW b \in Budgets PROVE Accounted(b)'
  <2>1. Accounted(b) /\ \A g \in Hosts : Nested(g) BY DEF BudgetInv
  <2>2. \A g \in Hosts : current'[g] = b <=> current[g] = b OBVIOUS
  <2>3. \A g \in Hosts : \A i \in 1..MaxDepth : IsGather(g, i, b)' <=> IsGather(g, i, b) OBVIOUS
  <2> QED BY <2>1, <2>2, <2>3, AccountSame
<1> QED BY <1>1, <1>2

(* An evaluation, or a block in a block, keeps the budget of its thread. *)
LEMMA EnterKeeps ==
  ASSUME BudgetInv, NEW h \in Hosts, EnterEval(h) \/ (EnterBlock(h) /\ current[h] # None)
  PROVE  BudgetInv'
<1>1. PICK k \in {"eval", "block"} : Push(h, [kind |-> k, previous |-> current[h]]) /\ (k = "block" => current[h] # None)
  BY DEF EnterEval, EnterBlock
<1>2. MayEnter(h) /\ UNCHANGED <<pool, worker, job, before, current, budget>>
  BY DEF EnterEval, EnterBlock, threadVars, workVars
<1>3. BudgetType BY DEF BudgetInv
<1>4. PICK c : c = [kind |-> k, previous |-> current[h]] OBVIOUS
<1>5. current[h] \in Scans BY <1>3 DEF BudgetType
<1>6. c \in Plain BY <1>4, <1>5 DEF Plain
<1>7. c \in Calls /\ c.kind = k /\ Entered(c) = current[h] BY <1>4, <1>6 DEF Calls, Entered
<1>8. Len(calls[h]) < MaxDepth /\ (calls[h] = <<>> \/ Top(h).kind # "par") BY <1>2 DEF MayEnter, Running
<1>9. \A w \in Workers : (Busy(w)' <=> Busy(w)) /\ (worker'[w] = "runs" <=> worker[w] = "runs") BY <1>2 DEF Busy
<1>10. k # "par" /\ k # "task" OBVIOUS
<1>11. \A g \in Hosts : current'[g] = current[g] BY <1>2
<1>12. \A w \in Workers : current'[w] = current[w] BY <1>2
<1>13. Push(h, c) BY <1>1, <1>4
<1>14. IF c.kind = "block" /\ current[h] = None THEN current'[h] # None ELSE current'[h] = current[h] BY <1>1, <1>7, <1>11
<1>15. job' = job BY <1>2
<1>16. c.kind # "par" /\ c.kind # "task" BY <1>7, <1>10
<1>17. /\ calls' \in [Hosts -> Stack] /\ (\A g \in Hosts : Nested(g)') /\ Tally' /\ \A w \in Workers : WorkInv(w)'
       /\ \A g \in Hosts : \A i, b : IsGather(g, i, b)' <=>
            IsGather(g, i, b) \/ (g = h /\ i = Len(calls[h]) + 1 /\ c.kind = "par" /\ c.scan = b)
  BY <1>7, <1>8, <1>9, <1>11, <1>12, <1>13, <1>14, <1>15, <1>16, PushStep
<1>18. \A g \in Hosts : \A i, b : IsGather(g, i, b)' <=> IsGather(g, i, b) BY <1>16, <1>17
<1>19. BudgetType' BY <1>2, <1>3, <1>17 DEF BudgetType
<1>20. budget' = budget BY <1>2
<1>21. Apart' /\ \A b \in Budgets : Accounted(b)' BY <1>11, <1>17, <1>18, <1>20, AccountsStay
<1> QED BY <1>17, <1>19, <1>21 DEF BudgetInv

(* The outermost block of a thread has a budget of its own. *)
LEMMA EnterOutermost ==
  ASSUME BudgetInv, NEW h \in Hosts, EnterBlock(h), current[h] = None
  PROVE  BudgetInv'
<1>1. PICK b \in Budgets :
        /\ budget[b].life = "free"
        /\ budget' = [budget EXCEPT ![b] = [life |-> "live", remaining |-> Entries, references |-> 1, spent |-> 0]]
        /\ current' = [current EXCEPT ![h] = b]
  BY DEF EnterBlock
<1>2. MayEnter(h) /\ UNCHANGED <<pool, worker, job, before>> BY DEF EnterBlock, threadVars, workVars
<1>3. BudgetType /\ Accounted(b) /\ \A g \in Hosts : Nested(g) BY DEF BudgetInv
<1>4. PICK c : c = [kind |-> "block", previous |-> current[h]] OBVIOUS
<1>5. current[h] \in Scans BY <1>3 DEF BudgetType
<1>6. c \in Plain BY <1>4, <1>5 DEF Plain
<1>7. c \in Calls /\ c.kind = "block" /\ Entered(c) = current[h] BY <1>4, <1>6 DEF Calls, Entered
<1>8. Len(calls[h]) < MaxDepth /\ (calls[h] = <<>> \/ Top(h).kind # "par") BY <1>2 DEF MayEnter, Running
<1>9. \A w \in Workers : (Busy(w)' <=> Busy(w)) /\ (worker'[w] = "runs" <=> worker[w] = "runs") BY <1>2 DEF Busy
<1>10. current'[h] = b /\ b # None BY <1>1, <1>3, BudgetsAssumption DEF BudgetType
<1>11. \A g \in Hosts : g # h => current'[g] = current[g] BY <1>1, <1>3 DEF BudgetType
<1>12. \A w \in Workers : current'[w] = current[w] BY <1>1, <1>3, BudgetsAssumption DEF BudgetType
<1>13. Push(h, c) BY <1>4 DEF EnterBlock
<1>14. IF c.kind = "block" /\ current[h] = None THEN current'[h] # None ELSE current'[h] = current[h] BY <1>7, <1>10
<1>15. c.kind # "par" /\ c.kind # "task" /\ job' = job BY <1>2, <1>7
<1>16. /\ calls' \in [Hosts -> Stack] /\ (\A g \in Hosts : Nested(g)') /\ Tally' /\ \A w \in Workers : WorkInv(w)'
       /\ \A g \in Hosts : \A i, a : IsGather(g, i, a)' <=>
            IsGather(g, i, a) \/ (g = h /\ i = Len(calls[h]) + 1 /\ c.kind = "par" /\ c.scan = a)
  BY <1>7, <1>8, <1>9, <1>11, <1>12, <1>13, <1>14, <1>15, PushStep
<1>17. \A g \in Hosts : \A i, a : IsGather(g, i, a)' <=> IsGather(g, i, a) BY <1>15, <1>16
<1>18. \A g \in Hosts : current[g] # b BY <1>1, <1>3 DEF Accounted
<1>19. PICK v : v = [life |-> "live", remaining |-> Entries, references |-> 1, spent |-> 0] OBVIOUS
<1>20. v \in [life : {"free", "live", "freed"}, remaining : Nat, references : Int, spent : Int]
  BY <1>19, BudgetsAssumption
<1>21. budget' = [budget EXCEPT ![b] = v] BY <1>1, <1>19
<1>22. BudgetType'
  <2>1. budget' \in [Budgets -> [life : {"free", "live", "freed"}, remaining : Nat, references : Int, spent : Int]]
    BY <1>3, <1>20, <1>21 DEF BudgetType
  <2>2. current' \in [Hosts \cup Workers -> Scans] BY <1>1, <1>3 DEF BudgetType, Scans
  <2> QED BY <1>2, <1>3, <1>16, <2>1, <2>2 DEF BudgetType
<1>23. Apart'
  <2>1. Apart BY DEF BudgetInv
  <2> QED BY <1>10, <1>11, <1>18, <2>1 DEF Apart
<1>24. Accounted(b)'
  <2>1. \A g \in Hosts : \A i : ~IsGather(g, i, b) BY <1>3, <1>18, GatherOfHolder
  <2>2. Gathers(b)' = {} BY <1>17, <2>1 DEF Gathers, IsGather
  <2>3. \A g \in Hosts : current'[g] = b <=> g = h BY <1>10, <1>11, <1>18
  <2>4. \E i \in DOMAIN calls'[h] : calls'[h][i].kind = "block" BY <1>10, <1>16 DEF Nested, HasBlock
  <2>5. Holders(b)' = {h} BY <2>3, <2>4 DEF Holders
  <2>6. References(b)' = 1
    <3>1. Cardinality({h}) = 1 BY FS_Singleton
    <3>2. Cardinality({}) = 0 BY FS_EmptySet
    <3>3. References(b)' = Cardinality(Holders(b)') + Cardinality(Gathers(b)') BY DEF References
    <3> QED BY <2>2, <2>5, <3>1, <3>2, <3>3
  <2>7. budget'[b] = v BY <1>3, <1>21 DEF BudgetType
  <2>8. v.life = "live" /\ v.references = 1 /\ v.spent + v.remaining = Entries BY <1>19, BudgetsAssumption
  <2> QED BY <2>3, <2>6, <2>7, <2>8 DEF Accounted
<1>25. ASSUME NEW a \in Budgets, a # b PROVE Accounted(a)'
  <2>1. Accounted(a) BY DEF BudgetInv
  <2>2. budget'[a] = budget[a] BY <1>3, <1>21, <1>25 DEF BudgetType
  <2>3. a # None BY BudgetsAssumption
  <2>4. \A g \in Hosts : current'[g] = a <=> current[g] = a BY <1>10, <1>11, <1>25, <2>3
  <2>5. \A g \in Hosts : \A i \in 1..MaxDepth : IsGather(g, i, a)' <=> IsGather(g, i, a) BY <1>17
  <2> QED BY <1>3, <1>16, <2>1, <2>2, <2>4, <2>5, AccountSame
<1>26. \A a \in Budgets : Accounted(a)' BY <1>24, <1>25
<1> QED BY <1>16, <1>22, <1>23, <1>26 DEF BudgetInv

(* Leaving an evaluation, or a block in a block. *)
LEMMA LeaveKeeps ==
  ASSUME BudgetInv, NEW h \in Hosts, LeaveEval(h) \/ (LeaveBlock(h) /\ Top(h).previous # None)
  PROVE  BudgetInv'
<1>1. BudgetType /\ Nested(h) BY DEF BudgetInv
<1>2. /\ Running(h) /\ Pop(h) /\ (Top(h).kind = "eval" \/ Top(h).kind = "block")
      /\ UNCHANGED <<pool, worker, job, before, budget>>
  BY DEF LeaveEval, LeaveBlock, threadVars, workVars
<1>3. calls[h] \in Stack /\ calls[h] # <<>> BY <1>1, <1>2 DEF BudgetType, Running
<1>4. Entered(Top(h)) = Top(h).previous BY <1>2 DEF Entered
<1>5. /\ Entered(Top(h)) = IF InBlock(h, Len(calls[h])) THEN current[h] ELSE None
      /\ Top(h).kind # "block" => Entered(Top(h)) = current[h]
  BY <1>1, <1>3, TopEntered
<1>6. current'[h] = current[h] /\ current'[h] = Entered(Top(h))
  <2>1. CASE LeaveEval(h)
    <3>1. current' = current /\ Top(h).kind = "eval" BY <2>1 DEF LeaveEval
    <3> QED BY <1>5, <3>1
  <2>2. CASE LeaveBlock(h) /\ Top(h).previous # None
    <3>1. current' = [current EXCEPT ![h] = Top(h).previous] BY <2>2 DEF LeaveBlock
    <3>2. current'[h] = Top(h).previous BY <1>1, <3>1 DEF BudgetType
    <3> QED BY <1>4, <1>5, <2>2, <3>2
  <2> QED BY <2>1, <2>2
<1>7. current' = current
  <2>1. PICK x : current' = current \/ current' = [current EXCEPT ![h] = x] BY DEF LeaveEval, LeaveBlock
  <2> QED BY <1>1, <1>6, <2>1 DEF BudgetType
<1>8. Top(h).kind # "task" /\ Top(h).kind # "par" BY <1>2
<1>9. /\ calls' \in [Hosts -> Stack] /\ (\A g \in Hosts : Nested(g)') /\ Tally' /\ \A w \in Workers : WorkInv(w)'
      /\ \A g \in Hosts : \A i, b : IsGather(g, i, b)' <=> IsGather(g, i, b) /\ ~(g = h /\ i = Len(calls[h]))
  BY <1>2, <1>3, <1>6, <1>7, <1>8, PopStep
<1>10. \A i, b : i = Len(calls[h]) => ~IsGather(h, i, b) BY <1>8 DEF IsGather, Top
<1>11. \A g \in Hosts : \A i, b : IsGather(g, i, b)' <=> IsGather(g, i, b) BY <1>9, <1>10
<1>12. BudgetType' BY <1>1, <1>2, <1>7, <1>9 DEF BudgetType
<1>13. \A g \in Hosts : current'[g] = current[g] BY <1>7
<1>14. budget' = budget BY <1>2
<1>15. Apart' /\ \A b \in Budgets : Accounted(b)' BY <1>9, <1>11, <1>13, <1>14, AccountsStay
<1> QED BY <1>9, <1>12, <1>15 DEF BudgetInv

(* What Release makes of the budget of a block. *)
LEMMA Released ==
  ASSUME BudgetType, NEW b \in Budgets
  PROVE  LET v == [life |-> IF budget[b].references = 1 THEN "freed" ELSE budget[b].life,
                   remaining |-> budget[b].remaining, references |-> budget[b].references - 1,
                   spent |-> budget[b].spent]
         IN /\ v \in [life : {"free", "live", "freed"}, remaining : Nat, references : Int, spent : Int]
            /\ Release(budget, b) = [budget EXCEPT ![b] = v]
<1>1. PICK u : u = budget[b] OBVIOUS
<1>2. u \in [life : {"free", "live", "freed"}, remaining : Nat, references : Int, spent : Int] BY <1>1 DEF BudgetType
<1>3. PICK v : v = [life |-> IF u.references = 1 THEN "freed" ELSE u.life, remaining |-> u.remaining,
                    references |-> u.references - 1, spent |-> u.spent]
  OBVIOUS
<1>4. v \in [life : {"free", "live", "freed"}, remaining : Nat, references : Int, spent : Int] BY <1>2, <1>3
<1>5. b # None BY BudgetsAssumption
<1>6. Release(budget, b) = [budget EXCEPT ![b].references = @ - 1, ![b].life = IF budget[b].references = 1 THEN "freed" ELSE @]
  BY <1>5 DEF Release
<1>7. Release(budget, b) = [budget EXCEPT ![b] = v] BY <1>1, <1>2, <1>3, <1>6 DEF BudgetType
<1> QED BY <1>1, <1>3, <1>4, <1>7

(* When the outermost block ends it has no gather open: its budget goes. *)
LEMMA LeaveOutermost ==
  ASSUME BudgetInv, NEW h \in Hosts, LeaveBlock(h), Top(h).previous = None
  PROVE  BudgetInv'
<1>1. BudgetType /\ Apart /\ \A g \in Hosts : Nested(g) BY DEF BudgetInv
<1>2. /\ Running(h) /\ Pop(h) /\ Top(h).kind = "block" /\ UNCHANGED <<pool, worker, job, before>>
      /\ current' = [current EXCEPT ![h] = None] /\ budget' = Release(budget, current[h])
  BY DEF LeaveBlock, threadVars, workVars
<1>3. calls[h] \in Stack /\ calls[h] # <<>> BY <1>1, <1>2 DEF BudgetType, Running
<1>4. Entered(Top(h)) = None BY <1>2 DEF Entered
<1>5. PICK n : n = Len(calls[h]) OBVIOUS
<1>6. n \in Nat /\ DOMAIN calls[h] = 1..n BY <1>3, <1>5, PoppedStack
<1>7. Entered(Top(h)) = (IF InBlock(h, n) THEN current[h] ELSE None) /\ current[h] # None
  BY <1>1, <1>2, <1>3, <1>5, TopEntered
<1>8. ~InBlock(h, n) BY <1>4, <1>7
<1>9. PICK b : b = current[h] OBVIOUS
<1>10. b \in Budgets BY <1>1, <1>7, <1>9 DEF BudgetType, Scans
<1>11. ASSUME NEW g \in Hosts, NEW i, IsGather(g, i, b) PROVE FALSE
  <2>1. current[g] = b /\ InBlock(g, i) BY <1>1, <1>10, <1>11, GatherOfHolder
  <2>2. g = h BY <1>1, <1>7, <1>9, <2>1 DEF Apart
  <2>3. i \in 1..n BY <1>6, <1>11, <2>2 DEF IsGather
  <2>4. \A j \in 1..i - 1 : j \in 1..n - 1 BY <1>6, <2>3
  <2> QED BY <1>8, <2>1, <2>2, <2>4 DEF InBlock
<1>12. current'[h] = None /\ \A g \in Hosts : g # h => current'[g] = current[g] BY <1>1, <1>2 DEF BudgetType
<1>13. \A w \in Workers : current'[w] = current[w] BY <1>1, <1>2, BudgetsAssumption DEF BudgetType
<1>14. Top(h).kind # "task" /\ Top(h).kind # "par" BY <1>2
<1>15. /\ calls' \in [Hosts -> Stack] /\ (\A g \in Hosts : Nested(g)') /\ Tally' /\ \A w \in Workers : WorkInv(w)'
       /\ \A g \in Hosts : \A i, a : IsGather(g, i, a)' <=> IsGather(g, i, a) /\ ~(g = h /\ i = Len(calls[h]))
  BY <1>2, <1>3, <1>4, <1>12, <1>13, <1>14, PopStep
<1>16. \A i, a : i = Len(calls[h]) => ~IsGather(h, i, a) BY <1>14 DEF IsGather, Top
<1>17. \A g \in Hosts : \A i, a : IsGather(g, i, a)' <=> IsGather(g, i, a) BY <1>15, <1>16
<1>18. \A g \in Hosts : current[g] = b <=> g = h BY <1>1, <1>7, <1>9 DEF Apart
<1>19. budget[b].references = 1
  <2>1. Gathers(b) = {} BY <1>11 DEF Gathers, IsGather
  <2>2. Holders(b) = {h} BY <1>1, <1>10, <1>18, HoldersAre
  <2>3. Cardinality({h}) = 1 /\ Cardinality({}) = 0 BY FS_Singleton, FS_EmptySet
  <2>4. References(b) = 1 BY <2>1, <2>2, <2>3 DEF References
  <2> QED BY <1>10, <2>4 DEF BudgetInv, Accounted
<1>20. PICK v : v = [life |-> IF budget[b].references = 1 THEN "freed" ELSE budget[b].life,
                     remaining |-> budget[b].remaining, references |-> budget[b].references - 1,
                     spent |-> budget[b].spent]
  OBVIOUS
<1>21. /\ v \in [life : {"free", "live", "freed"}, remaining : Nat, references : Int, spent : Int]
       /\ budget' = [budget EXCEPT ![b] = v]
  BY <1>1, <1>2, <1>9, <1>10, <1>20, Released
<1>22. BudgetType'
  <2>1. budget' \in [Budgets -> [life : {"free", "live", "freed"}, remaining : Nat, references : Int, spent : Int]]
    BY <1>1, <1>21 DEF BudgetType
  <2>2. current' \in [Hosts \cup Workers -> Scans] BY <1>1, <1>2 DEF BudgetType, Scans
  <2> QED BY <1>1, <1>2, <1>15, <2>1, <2>2 DEF BudgetType
<1>23. Apart' BY <1>1, <1>12 DEF Apart
<1>24. b # None BY <1>7, <1>9
<1>25. Accounted(b)'
  <2>1. Gathers(b)' = {} BY <1>11, <1>17 DEF Gathers, IsGather
  <2>2. \A g \in Hosts : current'[g] # b BY <1>12, <1>18, <1>24
  <2>3. Holders(b)' = {} BY <2>2 DEF Holders
  <2>4. Cardinality({}) = 0 BY FS_EmptySet
  <2>5. References(b)' = Cardinality(Holders(b)') + Cardinality(Gathers(b)') BY DEF References
  <2>6. References(b)' = 0 BY <2>1, <2>3, <2>4, <2>5
  <2>7. budget'[b] = v BY <1>1, <1>10, <1>21 DEF BudgetType
  <2>8. v.life = "freed" /\ v.references = 0 BY <1>19, <1>20
  <2>9. v.spent = budget[b].spent /\ v.remaining = budget[b].remaining BY <1>20
  <2>10. budget[b].life = "live" BY <1>9, <1>10 DEF BudgetInv, Accounted
  <2>11. budget[b].spent + budget[b].remaining = Entries BY <1>10, <2>10 DEF BudgetInv, Accounted
  <2> QED BY <2>2, <2>6, <2>7, <2>8, <2>9, <2>11 DEF Accounted
<1>26. ASSUME NEW a \in Budgets, a # b PROVE Accounted(a)'
  <2>1. Accounted(a) BY DEF BudgetInv
  <2>2. budget'[a] = budget[a] BY <1>1, <1>21, <1>26 DEF BudgetType
  <2>3. a # None BY BudgetsAssumption
  <2>4. \A g \in Hosts : current'[g] = a <=> current[g] = a BY <1>9, <1>12, <1>26, <2>3
  <2>5. \A g \in Hosts : \A i \in 1..MaxDepth : IsGather(g, i, a)' <=> IsGather(g, i, a) BY <1>17
  <2> QED BY <1>1, <1>15, <2>1, <2>2, <2>4, <2>5, AccountSame
<1>27. \A a \in Budgets : Accounted(a)' BY <1>25, <1>26
<1> QED BY <1>15, <1>22, <1>23, <1>27 DEF BudgetInv

-----------------------------------------------------------------------------
(* Gathers.                                                                *)

(* A budget gets one reference more or less, and the block stays. *)
LEMMA Referenced ==
  ASSUME BudgetInv, \A g \in Hosts : Nested(g)', NEW b \in Budgets, NEW d \in Int, NEW v,
         \A g \in Hosts : current'[g] = current[g], budget' = [budget EXCEPT ![b] = v],
         v.life = budget[b].life, v.spent = budget[b].spent, v.remaining = budget[b].remaining,
         v.references = budget[b].references + d, Cardinality(Gathers(b)') = Cardinality(Gathers(b)) + d,
         \A a \in Budgets : a # b => \A g \in Hosts : \A i : IsGather(g, i, a)' <=> IsGather(g, i, a)
  PROVE  Apart' /\ \A a \in Budgets : Accounted(a)'
<1>1. BudgetType /\ Apart /\ \A g \in Hosts : Nested(g) BY DEF BudgetInv
<1>2. Apart' BY <1>1 DEF Apart
<1>3. Accounted(b)'
  <2>1. Accounted(b) BY DEF BudgetInv
  <2>2. budget'[b] = v BY <1>1 DEF BudgetType
  <2>3. Holders(b) = {g \in Hosts : current[g] = b} BY <1>1, HoldersAre
  <2>4. ASSUME NEW g \in Hosts, current'[g] = b PROVE \E i \in DOMAIN calls'[g] : calls'[g][i].kind = "block"
    <3>1. current'[g] # None BY <2>4, BudgetsAssumption
    <3> QED BY <3>1 DEF Nested, HasBlock
  <2>5. Holders(b)' = {g \in Hosts : current'[g] = b} BY <2>4 DEF Holders
  <2>6. Holders(b)' = Holders(b) BY <2>3, <2>5
  <2>7. References(b)' = Cardinality(Holders(b)') + Cardinality(Gathers(b)') BY DEF References
  <2>8. References(b) = Cardinality(Holders(b)) + Cardinality(Gathers(b)) BY DEF References
  <2>9. Cardinality(Holders(b)) \in Nat /\ Cardinality(Gathers(b)) \in Nat BY RefsFinite
  <2>10. References(b)' = References(b) + d BY <2>6, <2>7, <2>8, <2>9
  <2> QED BY <2>1, <2>2, <2>10 DEF Accounted
<1>4. ASSUME NEW a \in Budgets, a # b PROVE Accounted(a)'
  <2>1. Accounted(a) BY DEF BudgetInv
  <2>2. budget'[a] = budget[a] BY <1>1, <1>4 DEF BudgetType
  <2>3. \A g \in Hosts : \A i \in 1..MaxDepth : IsGather(g, i, a)' <=> IsGather(g, i, a) BY <1>4
  <2>4. \A g \in Hosts : current'[g] = a <=> current[g] = a OBVIOUS
  <2> QED BY <1>1, <2>1, <2>2, <2>3, <2>4, AccountSame
<1> QED BY <1>2, <1>3, <1>4

(* A gather takes a reference to the budget of its thread. *)
LEMMA OpenParKeeps ==
  ASSUME BudgetInv, NEW h \in Hosts, OpenPar(h)
  PROVE  BudgetInv'
<1>1. BudgetType /\ Nested(h) BY DEF BudgetInv
<1>2. Running(h) /\ Len(calls[h]) < MaxDepth /\ UNCHANGED <<job, before, current>> BY DEF OpenPar
<1>3. PICK c : c = [kind |-> "par", scan |-> current[h], queued |-> Width, left |-> Width] OBVIOUS
<1>4. current[h] \in Scans BY <1>1 DEF BudgetType
<1>5. c \in Par BY <1>3, <1>4, BudgetsAssumption DEF Par
<1>6. c \in Calls /\ c.kind = "par" /\ c.scan = current[h] /\ c.left = c.queued BY <1>3, <1>5 DEF Calls
<1>7. Push(h, c) BY <1>3 DEF OpenPar
<1>8. calls[h] # <<>> /\ Top(h).kind # "par" BY <1>2 DEF Running
<1>9. /\ worker' \in [Workers -> Places]
      /\ \A w \in Workers : worker'[w] # "none" => w \in pool'
      /\ \A w \in Workers : (Busy(w)' <=> Busy(w)) /\ (worker'[w] = "runs" <=> worker[w] = "runs")
  <2>1. CASE pool # {}
    <3>1. UNCHANGED <<pool, worker>> BY <2>1 DEF OpenPar
    <3> QED BY <1>1, <3>1 DEF BudgetType, Busy
  <2>2. CASE pool = {}
    <3>1. PICK ws \in SUBSET Workers : pool' = ws /\ worker' = [w \in Workers |-> IF w \in ws THEN "awake" ELSE "none"]
      BY <2>2 DEF OpenPar
    <3>2. \A w \in Workers : worker[w] = "none" BY <1>1, <2>2 DEF BudgetType
    <3>3. \A w \in Workers : worker'[w] = "awake" \/ worker'[w] = "none" BY <3>1
    <3>4. \A w \in Workers : worker'[w] # "none" => w \in pool' BY <3>1
    <3>5. worker' \in [Workers -> Places] BY <3>1 DEF Places
    <3> QED BY <3>2, <3>3, <3>4, <3>5 DEF Busy
  <2> QED BY <2>1, <2>2
<1>10. Entered(c) = current[h] /\ c.kind # "task" /\ c.kind # "block" BY <1>6 DEF Entered
<1>11. job' = job /\ current' = current BY <1>2
<1>12. \A g \in Hosts : current'[g] = current[g] BY <1>11
<1>13. \A w \in Workers : current'[w] = current[w] BY <1>11
<1>14. IF c.kind = "block" /\ current[h] = None THEN current'[h] # None ELSE current'[h] = current[h] BY <1>10, <1>12
<1>15. \A w \in Workers : (Busy(w)' <=> Busy(w)) /\ (worker'[w] = "runs" <=> worker[w] = "runs") BY <1>9
<1>16. /\ calls' \in [Hosts -> Stack] /\ (\A g \in Hosts : Nested(g)') /\ Tally' /\ \A w \in Workers : WorkInv(w)'
       /\ \A g \in Hosts : \A i, b : IsGather(g, i, b)' <=>
            IsGather(g, i, b) \/ (g = h /\ i = Len(calls[h]) + 1 /\ c.kind = "par" /\ c.scan = b)
  BY <1>2, <1>6, <1>7, <1>8, <1>10, <1>11, <1>12, <1>13, <1>14, <1>15, PushStep
<1>17. PICK m : m = Len(calls[h]) + 1 OBVIOUS
<1>18. \A g \in Hosts : \A i, b : IsGather(g, i, b)' <=> IsGather(g, i, b) \/ (g = h /\ i = m /\ current[h] = b)
  BY <1>6, <1>16, <1>17
<1>19. m \in 1..MaxDepth /\ m \notin DOMAIN calls[h]
  <2>1. calls[h] \in Stack BY <1>1 DEF BudgetType
  <2>2. Len(calls[h]) \in Nat /\ DOMAIN calls[h] = 1..Len(calls[h]) BY <2>1, LenProperties DEF Stack
  <2> QED BY <1>2, <1>17, <2>2, BudgetsAssumption
<1>20. CASE current[h] = None
  <2>1. budget' = budget BY <1>20 DEF OpenPar
  <2>2. \A b \in Budgets : \A g \in Hosts : \A i : IsGather(g, i, b)' <=> IsGather(g, i, b)
    BY <1>18, <1>20, BudgetsAssumption
  <2>3. Apart' /\ \A b \in Budgets : Accounted(b)' BY <1>12, <1>16, <2>1, <2>2, AccountsStay
  <2>4. BudgetType' BY <1>1, <1>2, <1>9, <1>16, <2>1 DEF BudgetType
  <2> QED BY <1>16, <2>3, <2>4 DEF BudgetInv
<1>21. CASE current[h] # None
  <2>1. PICK b : b = current[h] OBVIOUS
  <2>2. b \in Budgets BY <1>4, <1>21, <2>1 DEF Scans
  <2>3. budget' = [budget EXCEPT ![b].references = @ + 1] BY <1>21, <2>1 DEF OpenPar
  <2>4. PICK u : u = budget[b] OBVIOUS
  <2>5. u \in [life : {"free", "live", "freed"}, remaining : Nat, references : Int, spent : Int]
    BY <1>1, <2>2, <2>4 DEF BudgetType
  <2>6. PICK v : v = [life |-> u.life, remaining |-> u.remaining, references |-> u.references + 1, spent |-> u.spent] OBVIOUS
  <2>7. v \in [life : {"free", "live", "freed"}, remaining : Nat, references : Int, spent : Int] BY <2>5, <2>6
  <2>8. budget' = [budget EXCEPT ![b] = v]
    <3>1. PICK e : e = [u EXCEPT !.references = u.references + 1] OBVIOUS
    <3>2. budget' = [budget EXCEPT ![b] = e] BY <1>1, <2>2, <2>3, <2>4, <3>1 DEF BudgetType
    <3>3. e = v BY <2>5, <2>6, <3>1
    <3> QED BY <3>2, <3>3
  <2>9. /\ v.life = budget[b].life /\ v.spent = budget[b].spent /\ v.remaining = budget[b].remaining
        /\ v.references = budget[b].references + 1
    BY <2>4, <2>6
  <2>10. ~IsGather(h, m, b) BY <1>19 DEF IsGather
  <2>11. \A g \in Hosts : \A i \in 1..MaxDepth : IsGather(g, i, b)' <=> IsGather(g, i, b) \/ (g = h /\ i = m)
    BY <1>18, <2>1
  <2>12. Cardinality(Gathers(b)') = Cardinality(Gathers(b)) + 1 BY <1>19, <2>10, <2>11, GathersMore
  <2>13. \A a \in Budgets : a # b => \A g \in Hosts : \A i : IsGather(g, i, a)' <=> IsGather(g, i, a) BY <1>18, <2>1
  <2>14. 1 \in Int OBVIOUS
  <2>15. Apart' /\ \A a \in Budgets : Accounted(a)' BY <1>12, <1>16, <2>2, <2>8, <2>9, <2>12, <2>13, <2>14, Referenced
  <2>16. BudgetType' BY <1>1, <1>2, <1>9, <1>16, <2>2, <2>7, <2>8 DEF BudgetType
  <2> QED BY <1>16, <2>15, <2>16 DEF BudgetInv
<1> QED BY <1>20, <1>21

(* A gather that is done has no worker, and is not the last reference. *)
LEMMA CloseParKeeps ==
  ASSUME BudgetInv, NEW h \in Hosts, ClosePar(h)
  PROVE  BudgetInv'
<1>1. BudgetType /\ \A g \in Hosts : Nested(g) BY DEF BudgetInv
<1>2. /\ calls[h] # <<>> /\ Top(h).kind = "par" /\ Top(h).left = 0 /\ Pop(h)
      /\ UNCHANGED <<pool, worker, job, before, current>> /\ budget' = Release(budget, Top(h).scan)
  BY DEF ClosePar, threadVars, workVars
<1>3. PICK n : n = Len(calls[h]) OBVIOUS
<1>4. calls[h] \in Stack BY <1>1 DEF BudgetType
<1>5. n \in Nat /\ n > 0 /\ DOMAIN calls[h] = 1..n BY <1>2, <1>3, <1>4, PoppedStack
<1>6. n \in DOMAIN calls[h] /\ Entered(Top(h)) = current[h] BY <1>1, <1>2, <1>3, <1>4, TopEntered
<1>7. Top(h) = calls[h][n] /\ Top(h).scan = current[h] BY <1>2, <1>3, <1>6 DEF Top, Entered
<1>8. On(h, n) = {}
  <2>1. Tallied(h, n) BY <1>2, <1>6, <1>7 DEF BudgetInv, Tally
  <2>2. calls[h][n] \in Calls BY <1>4, <1>5, <1>6, ElementOfSeq DEF Stack
  <2>3. calls[h][n] \in Par BY <1>2, <1>7, <2>2, CallFields
  <2>4. calls[h][n].queued \in Nat BY <2>3 DEF Par
  <2>5. On(h, n) \subseteq Workers BY DEF On
  <2>6. IsFiniteSet(On(h, n)) BY <2>5, FS_Subset, BudgetsAssumption
  <2>7. Cardinality(On(h, n)) \in Nat BY <2>6, FS_CardinalityType
  <2>8. calls[h][n].left = calls[h][n].queued + Cardinality(On(h, n)) BY <1>3, <1>5, <2>1, <2>4, <2>7 DEF Tallied
  <2>9. Cardinality(On(h, n)) = 0 BY <1>2, <1>7, <2>4, <2>7, <2>8
  <2> QED BY <2>6, <2>9, FS_EmptySet
<1>9. current'[h] = Entered(Top(h)) /\ (\A g \in Hosts : current'[g] = current[g]) /\ \A w \in Workers : current'[w] = current[w]
  BY <1>2, <1>6
<1>10. /\ calls' \in [Hosts -> Stack] /\ (\A g \in Hosts : Nested(g)') /\ Tally' /\ \A w \in Workers : WorkInv(w)'
       /\ \A g \in Hosts : \A i, b : IsGather(g, i, b)' <=> IsGather(g, i, b) /\ ~(g = h /\ i = Len(calls[h]))
  BY <1>2, <1>3, <1>8, <1>9, PopStep
<1>11. \A g \in Hosts : \A i, b : IsGather(g, i, b)' <=> IsGather(g, i, b) /\ ~(g = h /\ i = n) BY <1>3, <1>10
<1>12. \A b : IsGather(h, n, b) <=> current[h] = b BY <1>2, <1>6, <1>7 DEF IsGather
<1>13. CASE current[h] = None
  <2>1. budget' = budget BY <1>2, <1>7, <1>13 DEF Release
  <2>2. \A b \in Budgets : \A g \in Hosts : \A i : IsGather(g, i, b)' <=> IsGather(g, i, b)
    BY <1>11, <1>12, <1>13, BudgetsAssumption
  <2>3. Apart' /\ \A b \in Budgets : Accounted(b)' BY <1>9, <1>10, <2>1, <2>2, AccountsStay
  <2>4. BudgetType' BY <1>1, <1>2, <1>10, <2>1 DEF BudgetType
  <2> QED BY <1>10, <2>3, <2>4 DEF BudgetInv
<1>14. CASE current[h] # None
  <2>1. PICK b : b = current[h] OBVIOUS
  <2>2. b \in Budgets BY <1>1, <1>14, <2>1 DEF BudgetType, Scans
  <2>3. IsGather(h, n, b) BY <1>12, <2>1
  <2>4. n \in 1..MaxDepth BY <1>1, <2>2, <2>3, GatherOfHolder
  <2>5. \A g \in Hosts : \A i \in 1..MaxDepth : IsGather(g, i, b)' <=> IsGather(g, i, b) /\ ~(g = h /\ i = n) BY <1>11
  <2>6. Cardinality(Gathers(b)') = Cardinality(Gathers(b)) - 1 BY <2>3, <2>4, <2>5, GathersLess
  <2>7. budget[b].references # 1
    <3>1. h \in Holders(b) BY <1>1, <2>1, <2>2, HoldersAre
    <3>2. <<h, n>> \in Gathers(b) BY <2>3, <2>4 DEF Gathers, IsGather
    <3>3. IsFiniteSet(Holders(b)) /\ IsFiniteSet(Gathers(b)) BY RefsFinite
    <3>4. Cardinality(Holders(b)) # 0 /\ Cardinality(Gathers(b)) # 0 BY <3>1, <3>2, <3>3, FS_EmptySet
    <3>5. Cardinality(Holders(b)) \in Nat /\ Cardinality(Gathers(b)) \in Nat BY RefsFinite
    <3>6. budget[b].references = Cardinality(Holders(b)) + Cardinality(Gathers(b)) BY <2>2 DEF BudgetInv, Accounted, References
    <3> QED BY <3>4, <3>5, <3>6
  <2>8. PICK v : v = [life |-> IF budget[b].references = 1 THEN "freed" ELSE budget[b].life,
                      remaining |-> budget[b].remaining, references |-> budget[b].references - 1,
                      spent |-> budget[b].spent]
    OBVIOUS
  <2>9. /\ v \in [life : {"free", "live", "freed"}, remaining : Nat, references : Int, spent : Int]
        /\ budget' = [budget EXCEPT ![b] = v]
    BY <1>1, <1>2, <1>7, <2>1, <2>2, <2>8, Released
  <2>10. /\ v.life = budget[b].life /\ v.spent = budget[b].spent /\ v.remaining = budget[b].remaining
         /\ v.references = budget[b].references - 1
    BY <2>7, <2>8
  <2>11. budget[b].references \in Int BY <1>1, <2>2 DEF BudgetType
  <2>12. v.references = budget[b].references + (-1) BY <2>10, <2>11
  <2>13. Cardinality(Gathers(b)) \in Nat BY RefsFinite
  <2>14. Cardinality(Gathers(b)') = Cardinality(Gathers(b)) + (-1) BY <2>6, <2>13
  <2>15. \A a \in Budgets : a # b => \A g \in Hosts : \A i : IsGather(g, i, a)' <=> IsGather(g, i, a) BY <1>11, <1>12, <2>1
  <2>16. -1 \in Int OBVIOUS
  <2>17. Apart' /\ \A a \in Budgets : Accounted(a)'
    BY <1>9, <1>10, <2>2, <2>9, <2>10, <2>12, <2>14, <2>15, <2>16, Referenced
  <2>18. BudgetType' BY <1>1, <1>2, <1>10, <2>2, <2>9 DEF BudgetType
  <2> QED BY <1>10, <2>17, <2>18 DEF BudgetInv
<1> QED BY <1>13, <1>14

-----------------------------------------------------------------------------
(* Tasks.                                                                  *)

(* The counters of a gather change, and nothing else of its stack. *)
Swap(s, i, q) == [s EXCEPT ![i] = q]

LEMMA Refielded ==
  ASSUME NEW s \in Stack, NEW i \in DOMAIN s, s[i].kind = "par", NEW q \in Par, q.scan = s[i].scan,
         NEW r, r = Swap(s, i, q)
  PROVE  /\ r \in Stack /\ Len(r) = Len(s) /\ Len(s) \in Nat /\ DOMAIN s = 1..Len(s) /\ DOMAIN r = 1..Len(s)
         /\ r[i] = q /\ \A j \in DOMAIN s : j # i => r[j] = s[j]
         /\ \A j \in DOMAIN s : r[j].kind = s[j].kind /\ Entered(r[j]) = Entered(s[j])
<1>1. Len(s) \in Nat /\ DOMAIN s = 1..Len(s) BY LenProperties DEF Stack
<1>2. q \in Calls /\ q.kind = "par" BY DEF Calls, Par
<1>3. r[i] = q /\ DOMAIN r = 1..Len(s) /\ \A j \in DOMAIN s : j # i => r[j] = s[j] BY <1>1 DEF Swap
<1>4. r \in Stack /\ Len(r) = Len(s) BY <1>2, <1>1, ExceptSeq DEF Stack, Swap
<1>5. ASSUME NEW j \in DOMAIN s PROVE r[j].kind = s[j].kind /\ Entered(r[j]) = Entered(s[j])
  <2>1. CASE j = i BY <1>2, <1>3, <2>1 DEF Entered
  <2>2. CASE j # i BY <1>3, <2>2
  <2> QED BY <2>1, <2>2
<1> QED BY <1>1, <1>3, <1>4, <1>5

LEMMA Recounted ==
  ASSUME BudgetInv, NEW h \in Hosts, NEW i \in DOMAIN calls[h], calls[h][i].kind = "par",
         NEW q \in Par, q.scan = calls[h][i].scan, calls' = [calls EXCEPT ![h] = [calls[h] EXCEPT ![i] = q]],
         \A g \in Hosts : current'[g] = current[g], budget' = budget,
         \A g \in Hosts : \A j : ~(g = h /\ j = i) => On(g, j)' = On(g, j),
         q.left = q.queued + Cardinality(On(h, i)') + (IF i < Len(calls[h]) THEN 1 ELSE 0)
  PROVE  /\ calls' \in [Hosts -> Stack] /\ (\A g \in Hosts : Nested(g)') /\ Tally'
         /\ Apart' /\ (\A b \in Budgets : Accounted(b)')
         /\ \A g \in Hosts : \A j \in DOMAIN calls[g] :
              calls[g][j].kind = "par" =>
                j \in DOMAIN calls'[g] /\ calls'[g][j].kind = "par" /\ calls'[g][j].scan = calls[g][j].scan
<1>1. PICK s : s = calls[h] OBVIOUS
<1>2. s \in Stack BY <1>1 DEF BudgetInv, BudgetType
<1>3. PICK r : r = Swap(s, i, q) OBVIOUS
<1>4. /\ r \in Stack /\ Len(r) = Len(s) /\ Len(s) \in Nat /\ DOMAIN s = 1..Len(s) /\ DOMAIN r = 1..Len(s)
      /\ r[i] = q /\ \A j \in DOMAIN s : j # i => r[j] = s[j]
      /\ \A j \in DOMAIN s : r[j].kind = s[j].kind /\ Entered(r[j]) = Entered(s[j])
  BY <1>1, <1>2, <1>3, Refielded
<1>5. calls' = [calls EXCEPT ![h] = r] BY <1>1, <1>3 DEF Swap
<1>6. /\ calls' \in [Hosts -> Stack] /\ calls'[h] = r
      /\ \A g \in Hosts : g # h => calls'[g] = calls[g]
      /\ \A g \in Hosts : g # h => Nested(g)'
      /\ \A g \in Hosts : \A j, b : g # h => (IsGather(g, j, b)' <=> IsGather(g, j, b))
  BY <1>4, <1>5, OthersStay
<1>7. Nested(h) /\ Tally BY DEF BudgetInv
<1>8. Agrees(h, Len(s)) BY <1>1, <1>4, <1>6 DEF Agrees
<1>9. Nested(h)' BY <1>1, <1>2, <1>4, <1>6, <1>7, <1>8, SameNested
<1>10. \A b, j : IsGather(h, j, b)' <=> IsGather(h, j, b) BY <1>1, <1>2, <1>4, <1>6, <1>8, GatherAgrees
<1>11. ASSUME NEW j \in DOMAIN calls'[h], calls'[h][j].kind = "par" PROVE Tallied(h, j)'
  <2>1. calls'[h] = r /\ j \in DOMAIN s BY <1>4, <1>6
  <2>2. CASE j = i BY <1>1, <1>4, <2>1, <2>2 DEF Tallied
  <2>3. CASE j # i
    <3>1. r[j] = s[j] BY <1>4, <2>1, <2>3
    <3>2. Tallied(h, j) BY <1>1, <1>7, <1>11, <2>1, <3>1 DEF Tally
    <3>3. On(h, j)' = On(h, j) BY <2>3
    <3> QED BY <1>1, <1>4, <2>1, <3>1, <3>2, <3>3 DEF Tallied
  <2> QED BY <2>2, <2>3
<1>12. Tally'
  <2>1. \A g \in Hosts : \A j : g # h => On(g, j)' = On(g, j) OBVIOUS
  <2> QED BY <1>6, <1>7, <1>11, <2>1, TallyFrame
<1>13. \A b \in Budgets : \A g \in Hosts : \A j : IsGather(g, j, b)' <=> IsGather(g, j, b) BY <1>6, <1>10
<1>14. \A g \in Hosts : Nested(g)' BY <1>6, <1>9
<1>15. Apart' /\ \A b \in Budgets : Accounted(b)' BY <1>13, <1>14, AccountsStay
<1>16. ASSUME NEW g \in Hosts, NEW j \in DOMAIN calls[g], calls[g][j].kind = "par"
       PROVE  j \in DOMAIN calls'[g] /\ calls'[g][j].kind = "par" /\ calls'[g][j].scan = calls[g][j].scan
  <2>1. CASE g # h BY <1>6, <1>16, <2>1
  <2>2. CASE g = h BY <1>1, <1>4, <1>6, <1>16, <2>2 DEF Entered
  <2> QED BY <2>1, <2>2
<1> QED BY <1>6, <1>12, <1>14, <1>15, <1>16

LEMMA OnFinite ==
  ASSUME NEW h, NEW i
  PROVE  IsFiniteSet(On(h, i)) /\ Cardinality(On(h, i)) \in Nat
<1>1. On(h, i) \subseteq Workers BY DEF On
<1>2. IsFiniteSet(On(h, i)) BY <1>1, FS_Subset, BudgetsAssumption
<1> QED BY <1>2, FS_CardinalityType

(* The gather of an entry of a stack, and its counters. *)
LEMMA ParFields ==
  ASSUME BudgetInv, NEW h \in Hosts, NEW i \in DOMAIN calls[h], calls[h][i].kind = "par"
  PROVE  /\ calls[h][i] \in Par /\ calls[h][i].queued \in Nat /\ calls[h][i].left \in Nat /\ calls[h][i].scan \in Scans
         /\ i \in Nat /\ Tallied(h, i)
<1>1. calls[h] \in Stack BY DEF BudgetInv, BudgetType
<1>2. Len(calls[h]) \in Nat /\ DOMAIN calls[h] = 1..Len(calls[h]) BY <1>1, LenProperties DEF Stack
<1>3. calls[h][i] \in Calls BY <1>1, <1>2, ElementOfSeq DEF Stack
<1>4. calls[h][i] \in Par BY <1>3, CallFields
<1>5. calls[h][i].queued \in Nat /\ calls[h][i].left \in Nat /\ calls[h][i].scan \in Scans BY <1>4 DEF Par
<1>6. Tallied(h, i) BY DEF BudgetInv, Tally
<1> QED BY <1>2, <1>4, <1>5, <1>6

LEMMA TakeTaskKeeps ==
  ASSUME BudgetInv, NEW w \in Workers, NEW h \in Hosts, NEW i, TakeTask(w, h, i)
  PROVE  BudgetInv'
<1>1. /\ worker[w] \in {"awake", "idle"} /\ i \in DOMAIN calls[h] /\ calls[h][i].kind = "par" /\ calls[h][i].queued > 0
      /\ calls' = [calls EXCEPT ![h][i].queued = @ - 1]
      /\ worker' = [worker EXCEPT ![w] = "claims"] /\ job' = [job EXCEPT ![w] = <<h, i>>]
      /\ UNCHANGED <<pool, before, current, budget>>
  BY DEF TakeTask, threadVars
<1>2. BudgetType BY DEF BudgetInv
<1>3. PICK p : p = calls[h][i] OBVIOUS
<1>4. p \in Par /\ p.queued \in Nat /\ p.left \in Nat /\ i \in Nat /\ Tallied(h, i) BY <1>1, <1>3, ParFields
<1>5. PICK q : q = [kind |-> "par", scan |-> p.scan, queued |-> p.queued - 1, left |-> p.left] OBVIOUS
<1>6. q \in Par /\ q.scan = p.scan /\ q.queued = p.queued - 1 /\ q.left = p.left BY <1>1, <1>3, <1>4, <1>5 DEF Par
<1>7. calls' = [calls EXCEPT ![h] = [calls[h] EXCEPT ![i] = q]]
  <2>1. PICK e : e = [p EXCEPT !.queued = p.queued - 1] OBVIOUS
  <2>2. calls' = [calls EXCEPT ![h] = [calls[h] EXCEPT ![i] = e]] BY <1>1, <1>2, <1>3, <2>1 DEF BudgetType
  <2>3. e = q BY <1>4, <1>5, <2>1 DEF Par
  <2> QED BY <2>2, <2>3
<1>8. \A g \in Hosts : current'[g] = current[g] BY <1>1
<1>9. worker' \in [Workers -> Places] /\ job' \in [Workers -> (Hosts \X Nat) \cup {None}]
  BY <1>1, <1>2, <1>4 DEF BudgetType, Places
<1>10. \A v \in Workers : v # w => worker'[v] = worker[v] /\ job'[v] = job[v] BY <1>1, <1>2 DEF BudgetType
<1>11. worker'[w] = "claims" /\ job'[w] = <<h, i>> BY <1>1, <1>2 DEF BudgetType
<1>12. ~Busy(w) /\ Busy(w)' BY <1>1, <1>11 DEF Busy
<1>13. \A v \in Workers : v # w => (Busy(v)' <=> Busy(v)) BY <1>10 DEF Busy
<1>14. \A g \in Hosts : \A j : ~(g = h /\ j = i) => On(g, j)' = On(g, j)
  <2> SUFFICES ASSUME NEW g \in Hosts, NEW j, ~(g = h /\ j = i) PROVE On(g, j)' = On(g, j) OBVIOUS
  <2>1. <<h, i>> # <<g, j>> OBVIOUS
  <2> QED BY <1>10, <1>11, <1>12, <1>13, <2>1 DEF On
<1>15. On(h, i)' = On(h, i) \cup {w} /\ w \notin On(h, i) BY <1>10, <1>11, <1>12, <1>13 DEF On
<1>16. Cardinality(On(h, i)') = Cardinality(On(h, i)) + 1 BY <1>15, OnFinite, FS_AddElement
<1>17. q.left = q.queued + Cardinality(On(h, i)') + (IF i < Len(calls[h]) THEN 1 ELSE 0)
  <2>1. p.left = p.queued + Cardinality(On(h, i)) + (IF i < Len(calls[h]) THEN 1 ELSE 0) BY <1>3, <1>4 DEF Tallied
  <2>2. Cardinality(On(h, i)) \in Nat BY OnFinite
  <2> QED BY <1>4, <1>6, <1>16, <2>1, <2>2
<1>18. budget' = budget BY <1>1
<1>19. /\ calls' \in [Hosts -> Stack] /\ (\A g \in Hosts : Nested(g)') /\ Tally'
       /\ Apart' /\ (\A b \in Budgets : Accounted(b)')
       /\ \A g \in Hosts : \A j \in DOMAIN calls[g] :
            calls[g][j].kind = "par" =>
              j \in DOMAIN calls'[g] /\ calls'[g][j].kind = "par" /\ calls'[g][j].scan = calls[g][j].scan
  BY <1>1, <1>3, <1>6, <1>7, <1>8, <1>14, <1>17, <1>18, Recounted
<1>20. ASSUME NEW v \in Workers PROVE WorkInv(v)'
  <2>1. WorkInv(v) /\ current'[v] = current[v] BY <1>1 DEF BudgetInv
  <2>2. CASE v = w
    <3>1. worker[w] # "runs" /\ worker'[w] # "runs" BY <1>1, <1>11
    <3>2. i \in DOMAIN calls'[h] /\ calls'[h][i].kind = "par" BY <1>1, <1>19
    <3> QED BY <1>11, <2>1, <2>2, <3>1, <3>2 DEF WorkInv
  <2>3. CASE v # w
    <3>1. /\ Busy(v)' => Busy(v)
          /\ worker'[v] = "runs" <=> worker[v] = "runs"
          /\ job'[v] = job[v]
      BY <1>10, <1>13, <2>3
    <3> QED BY <1>19, <2>1, <3>1, WorkFrame
  <2> QED BY <2>2, <2>3
<1>21. BudgetType' BY <1>1, <1>2, <1>9, <1>10, <1>19 DEF BudgetType
<1> QED BY <1>19, <1>20, <1>21 DEF BudgetInv

(* A task that ends was one of those its gather still waits for. *)
LEMMA EndTaskKeeps ==
  ASSUME BudgetInv, NEW w \in Workers, EndTask(w)
  PROVE  BudgetInv'
<1>1. /\ worker[w] = "runs" /\ worker' = [worker EXCEPT ![w] = "awake"] /\ job' = [job EXCEPT ![w] = None]
      /\ calls' = [calls EXCEPT ![job[w][1]][job[w][2]].left = @ - 1]
      /\ current' = [current EXCEPT ![w] = before[w]] /\ before' = [before EXCEPT ![w] = None]
      /\ UNCHANGED <<pool, budget>>
  BY DEF EndTask, threadVars
<1>2. BudgetType BY DEF BudgetInv
<1>3. WorkInv(w) /\ Busy(w) BY <1>1 DEF BudgetInv, Busy
<1>4. PICK h \in Hosts : \E i \in DOMAIN calls[h] : job[w] = <<h, i>> /\ calls[h][i].kind = "par" BY <1>3 DEF WorkInv
<1>5. PICK i \in DOMAIN calls[h] : job[w] = <<h, i>> /\ calls[h][i].kind = "par" BY <1>4
<1>6. PICK p : p = calls[h][i] OBVIOUS
<1>7. p \in Par /\ p.queued \in Nat /\ p.left \in Nat /\ Tallied(h, i) BY <1>5, <1>6, ParFields
<1>8. PICK m : m = Cardinality(On(h, i)) OBVIOUS
<1>9. m \in Nat /\ m > 0
  <2>1. w \in On(h, i) BY <1>3, <1>5 DEF On
  <2>2. IsFiniteSet(On(h, i)) /\ Cardinality(On(h, i)) \in Nat BY OnFinite
  <2>3. Cardinality(On(h, i)) # 0 BY <2>1, <2>2, FS_EmptySet
  <2> QED BY <1>8, <2>2, <2>3
<1>10. p.left = p.queued + m + (IF i < Len(calls[h]) THEN 1 ELSE 0) BY <1>6, <1>7, <1>8 DEF Tallied
<1>11. p.left - 1 \in Nat BY <1>7, <1>9, <1>10
<1>12. PICK q : q = [kind |-> "par", scan |-> p.scan, queued |-> p.queued, left |-> p.left - 1] OBVIOUS
<1>13. q \in Par /\ q.scan = p.scan /\ q.queued = p.queued /\ q.left = p.left - 1 BY <1>7, <1>11, <1>12 DEF Par
<1>14. calls' = [calls EXCEPT ![h] = [calls[h] EXCEPT ![i] = q]]
  <2>1. PICK e : e = [p EXCEPT !.left = p.left - 1] OBVIOUS
  <2>2. job[w][1] = h /\ job[w][2] = i BY <1>5
  <2>3. calls' = [calls EXCEPT ![h][i].left = @ - 1] BY <1>1, <2>2
  <2>4. calls' = [calls EXCEPT ![h] = [calls[h] EXCEPT ![i] = e]] BY <1>2, <1>6, <2>1, <2>3 DEF BudgetType
  <2>5. e = q BY <1>7, <1>12, <2>1 DEF Par
  <2> QED BY <2>4, <2>5
<1>15. before[w] = None /\ before' = [v \in Workers |-> None] BY <1>1, <1>2 DEF BudgetType
<1>16. current' = [current EXCEPT ![w] = None] BY <1>1, <1>15
<1>17. \A g \in Hosts : current'[g] = current[g] BY <1>2, <1>16, BudgetsAssumption DEF BudgetType
<1>18. current' \in [Hosts \cup Workers -> Scans] BY <1>2, <1>16 DEF BudgetType, Scans
<1>19. worker' \in [Workers -> Places] /\ job' \in [Workers -> (Hosts \X Nat) \cup {None}]
  BY <1>1, <1>2 DEF BudgetType, Places
<1>20. \A v \in Workers : v # w => worker'[v] = worker[v] /\ job'[v] = job[v] /\ current'[v] = current[v]
  BY <1>1, <1>2, <1>16 DEF BudgetType
<1>21. worker'[w] = "awake" /\ current'[w] = None BY <1>1, <1>2, <1>16 DEF BudgetType
<1>22. ~Busy(w)' BY <1>21 DEF Busy
<1>23. \A v \in Workers : v # w => (Busy(v)' <=> Busy(v)) BY <1>20 DEF Busy
<1>24. \A g \in Hosts : \A j : ~(g = h /\ j = i) => On(g, j)' = On(g, j)
  <2> SUFFICES ASSUME NEW g \in Hosts, NEW j, ~(g = h /\ j = i) PROVE On(g, j)' = On(g, j) OBVIOUS
  <2>1. <<h, i>> # <<g, j>> OBVIOUS
  <2> QED BY <1>5, <1>20, <1>22, <1>23, <2>1 DEF On
<1>25. On(h, i)' = On(h, i) \ {w} /\ w \in On(h, i) BY <1>3, <1>5, <1>20, <1>22, <1>23 DEF On
<1>26. Cardinality(On(h, i)') = m - 1 BY <1>8, <1>25, OnFinite, FS_RemoveElement
<1>27. q.left = q.queued + Cardinality(On(h, i)') + (IF i < Len(calls[h]) THEN 1 ELSE 0)
  BY <1>7, <1>9, <1>10, <1>13, <1>26
<1>28. budget' = budget BY <1>1
<1>29. /\ calls' \in [Hosts -> Stack] /\ (\A g \in Hosts : Nested(g)') /\ Tally'
       /\ Apart' /\ (\A b \in Budgets : Accounted(b)')
       /\ \A g \in Hosts : \A j \in DOMAIN calls[g] :
            calls[g][j].kind = "par" =>
              j \in DOMAIN calls'[g] /\ calls'[g][j].kind = "par" /\ calls'[g][j].scan = calls[g][j].scan
  BY <1>5, <1>6, <1>13, <1>14, <1>17, <1>24, <1>27, <1>28, Recounted
<1>30. ASSUME NEW v \in Workers PROVE WorkInv(v)'
  <2>1. CASE v = w BY <1>21, <1>22, <2>1 DEF WorkInv
  <2>2. CASE v # w
    <3>1. WorkInv(v) BY DEF BudgetInv
    <3>2. /\ Busy(v)' => Busy(v)
          /\ worker'[v] = "runs" <=> worker[v] = "runs"
          /\ job'[v] = job[v] /\ current'[v] = current[v]
      BY <1>20, <1>23, <2>2
    <3> QED BY <1>29, <3>1, <3>2, WorkFrame
  <2> QED BY <2>1, <2>2
<1>31. w \in pool' BY <1>1, <1>2 DEF BudgetType
<1>32. BudgetType' BY <1>1, <1>2, <1>15, <1>18, <1>19, <1>20, <1>29, <1>31 DEF BudgetType
<1> QED BY <1>29, <1>30, <1>32 DEF BudgetInv

(* The caller takes a task of its own gather. *)
LEMMA CallerStartsKeeps ==
  ASSUME BudgetInv, NEW h \in Hosts, CallerStarts(h)
  PROVE  BudgetInv'
<1>1. BudgetType /\ Nested(h) /\ Tally BY DEF BudgetInv
<1>2. PICK s : s = calls[h] OBVIOUS
<1>3. PICK n : n = Len(s) OBVIOUS
<1>4. /\ s # <<>> /\ Top(h).kind = "par" /\ Top(h).queued > 0 /\ n < MaxDepth
      /\ calls' = [calls EXCEPT ![h] = Append([s EXCEPT ![n].queued = @ - 1], [kind |-> "task", previous |-> current[h]])]
      /\ current' = [current EXCEPT ![h] = Top(h).scan] /\ UNCHANGED <<pool, worker, job, before, budget>>
  BY <1>2, <1>3 DEF CallerStarts, threadVars, workVars
<1>5. s \in Stack BY <1>1, <1>2 DEF BudgetType
<1>6. n \in Nat /\ n > 0 /\ DOMAIN s = 1..n /\ n \in DOMAIN s BY <1>3, <1>4, <1>5, PoppedStack
<1>7. Top(h) = s[n] BY <1>2, <1>3 DEF Top
<1>8. Entered(Top(h)) = current[h] BY <1>1, <1>2, <1>4, <1>5, TopEntered
<1>9. current' = current
  <2>1. Top(h).scan = current[h] BY <1>4, <1>8 DEF Entered
  <2> QED BY <1>1, <1>4, <2>1 DEF BudgetType
<1>10. PICK p : p = s[n] OBVIOUS
<1>11. p \in Par /\ p.queued \in Nat /\ p.left \in Nat /\ Tallied(h, n) BY <1>2, <1>4, <1>6, <1>7, <1>10, ParFields
<1>12. PICK q : q = [kind |-> "par", scan |-> p.scan, queued |-> p.queued - 1, left |-> p.left] OBVIOUS
<1>13. q \in Par /\ q.scan = p.scan /\ q.queued = p.queued - 1 /\ q.left = p.left
  BY <1>4, <1>7, <1>10, <1>11, <1>12 DEF Par
<1>14. PICK x : x = Swap(s, n, q) OBVIOUS
<1>15. /\ x \in Stack /\ Len(x) = n /\ x[n] = q /\ DOMAIN x = 1..n /\ \A j \in DOMAIN s : j # n => x[j] = s[j]
       /\ \A j \in DOMAIN s : x[j].kind = s[j].kind /\ Entered(x[j]) = Entered(s[j])
  <2>1. s[n].kind = "par" /\ q \in Par /\ q.scan = s[n].scan BY <1>4, <1>7, <1>10, <1>13
  <2>2. n \in DOMAIN s BY <1>6
  <2>3. /\ x \in Stack /\ Len(x) = Len(s) /\ Len(s) \in Nat /\ DOMAIN s = 1..Len(s) /\ DOMAIN x = 1..Len(s)
        /\ x[n] = q /\ \A j \in DOMAIN s : j # n => x[j] = s[j]
        /\ \A j \in DOMAIN s : x[j].kind = s[j].kind /\ Entered(x[j]) = Entered(s[j])
    BY <1>5, <1>14, <2>1, <2>2, Refielded
  <2> QED BY <1>3, <2>3
<1>16. PICK c : c = [kind |-> "task", previous |-> current[h]] OBVIOUS
<1>17. c \in Calls /\ c.kind = "task" /\ Entered(c) = current[h]
  <2>1. current[h] \in Scans BY <1>1 DEF BudgetType
  <2>2. c \in Plain BY <1>16, <2>1 DEF Plain
  <2> QED BY <1>16, <2>2 DEF Calls, Entered
<1>18. PICK r : r = Append(x, c) OBVIOUS
<1>19. /\ r \in Stack /\ Len(r) = n + 1 /\ DOMAIN r = 1..(n + 1) /\ (\A i \in 1..n : r[i] = x[i]) /\ r[n + 1] = c
  BY <1>15, <1>17, <1>18, PushedStack
<1>20. calls' = [calls EXCEPT ![h] = r]
  <2>1. PICK e : e = [p EXCEPT !.queued = p.queued - 1] OBVIOUS
  <2>2. e = q BY <1>11, <1>12, <2>1 DEF Par
  <2>3. [s EXCEPT ![n].queued = @ - 1] = [s EXCEPT ![n] = e] BY <1>10, <2>1
  <2>4. [s EXCEPT ![n].queued = @ - 1] = x BY <1>14, <2>2, <2>3 DEF Swap
  <2> QED BY <1>4, <1>16, <1>18, <2>4
<1>21. /\ calls' \in [Hosts -> Stack] /\ calls'[h] = r
       /\ \A g \in Hosts : g # h => calls'[g] = calls[g]
       /\ \A g \in Hosts : g # h => Nested(g)'
       /\ \A g \in Hosts : \A j, b : g # h => (IsGather(g, j, b)' <=> IsGather(g, j, b))
  BY <1>9, <1>19, <1>20, OthersStay
<1>22. \A j \in 1..n : r[j].kind = s[j].kind /\ Entered(r[j]) = Entered(s[j]) BY <1>6, <1>15, <1>19
<1>23. Agrees(h, n) BY <1>2, <1>21, <1>22 DEF Agrees
<1>24. Nested(h)'
  <2>1. c.kind = "task" <=> calls[h] # <<>> /\ Top(h).kind = "par" BY <1>2, <1>4, <1>17
  <2>2. IF c.kind = "block" /\ current[h] = None THEN current'[h] # None ELSE current'[h] = current[h]
    BY <1>9, <1>17
  <2>3. /\ calls[h] \in Stack /\ calls'[h] \in Stack /\ Len(calls'[h]) = Len(calls[h]) + 1
        /\ Len(calls[h]) < MaxDepth /\ Agrees(h, Len(calls[h])) /\ calls'[h][Len(calls[h]) + 1] = c
    <3>1. Len(calls[h]) = n BY <1>2, <1>3
    <3>2. calls'[h] = r /\ r \in Stack /\ Len(r) = n + 1 /\ r[n + 1] = c BY <1>19, <1>21
    <3>3. Agrees(h, Len(calls[h])) BY <1>23, <3>1
    <3>4. calls[h] \in Stack /\ n < MaxDepth BY <1>2, <1>4, <1>5
    <3> QED BY <3>1, <3>2, <3>3, <3>4
  <2>4. Nested(h) /\ Entered(c) = current[h] BY <1>1, <1>17
  <2> QED BY <2>1, <2>2, <2>3, <2>4, PushNested
<1>25. \A g, j : On(g, j)' = On(g, j) BY <1>4 DEF On, Busy
<1>26. ASSUME NEW i \in DOMAIN calls'[h], calls'[h][i].kind = "par" PROVE Tallied(h, i)'
  <2>1. calls'[h] = r /\ On(h, i)' = On(h, i) /\ i \in 1..(n + 1) BY <1>19, <1>21, <1>25
  <2>2. i # n + 1 BY <1>17, <1>19, <1>26, <2>1
  <2>3. i \in 1..n /\ i < n + 1 /\ r[i] = x[i] BY <1>6, <1>19, <2>1, <2>2
  <2>4. CASE i = n
    <3>1. r[i] = q BY <1>15, <2>3, <2>4
    <3>2. Cardinality(On(h, i)) \in Nat BY OnFinite
    <3>3. p.left = p.queued + Cardinality(On(h, i)) + 0 BY <1>2, <1>3, <1>6, <1>10, <1>11, <2>4 DEF Tallied
    <3>4. q.left = q.queued + Cardinality(On(h, i)) + 1 BY <1>11, <1>13, <3>2, <3>3
    <3> QED BY <1>19, <2>1, <2>3, <3>1, <3>4 DEF Tallied
  <2>5. CASE i # n
    <3>1. r[i] = s[i] /\ i < n BY <1>6, <1>15, <2>3, <2>5
    <3>2. Tallied(h, i) BY <1>1, <1>2, <1>6, <1>26, <2>1, <2>3, <3>1 DEF Tally
    <3> QED BY <1>2, <1>3, <1>19, <2>1, <2>3, <3>1, <3>2 DEF Tallied
  <2> QED BY <2>4, <2>5
<1>27. Tally' BY <1>1, <1>21, <1>25, <1>26, TallyFrame
<1>28. ASSUME NEW w \in Workers PROVE WorkInv(w)'
  <2>1. ASSUME NEW g \in Hosts, NEW i \in DOMAIN calls[g], calls[g][i].kind = "par"
        PROVE  i \in DOMAIN calls'[g] /\ calls'[g][i].kind = "par" /\ calls'[g][i].scan = calls[g][i].scan
    <3>1. CASE g # h BY <1>21, <2>1, <3>1
    <3>2. CASE g = h
      <4>1. i \in 1..n /\ i \in 1..(n + 1) BY <1>2, <1>6, <2>1, <3>2
      <4>2. r[i].kind = s[i].kind /\ Entered(r[i]) = Entered(s[i]) BY <1>22, <4>1
      <4> QED BY <1>2, <1>19, <1>21, <2>1, <3>2, <4>1, <4>2 DEF Entered
    <3> QED BY <3>1, <3>2
  <2>2. WorkInv(w) BY DEF BudgetInv
  <2>3. Busy(w)' => Busy(w) BY <1>4 DEF Busy
  <2>4. worker'[w] = worker[w] /\ job'[w] = job[w] /\ current'[w] = current[w] BY <1>4, <1>9
  <2> QED BY <2>1, <2>2, <2>3, <2>4, WorkFrame
<1>29. ASSUME NEW b \in Budgets, NEW g \in Hosts, NEW i PROVE IsGather(g, i, b)' <=> IsGather(g, i, b)
  <2>1. CASE g # h BY <1>21, <2>1
  <2>2. CASE g = h
    <3>1. IsGather(h, i, b)' <=> i \in 1..(n + 1) /\ r[i].kind = "par" /\ Entered(r[i]) = b BY <1>19, <1>21 DEF IsGather, Entered
    <3>2. IsGather(h, i, b) <=> i \in 1..n /\ s[i].kind = "par" /\ Entered(s[i]) = b BY <1>2, <1>6 DEF IsGather, Entered
    <3>3. i \in 1..(n + 1) <=> i \in 1..n \/ i = n + 1 BY <1>6
    <3>4. r[n + 1].kind # "par" BY <1>17, <1>19
    <3> QED BY <1>22, <2>2, <3>1, <3>2, <3>3, <3>4
  <2> QED BY <2>1, <2>2
<1>30. \A g \in Hosts : Nested(g)' BY <1>21, <1>24
<1>31. Apart' /\ \A b \in Budgets : Accounted(b)'
  <2>1. budget' = budget /\ \A g \in Hosts : current'[g] = current[g] BY <1>4, <1>9
  <2> QED BY <1>29, <1>30, <2>1, AccountsStay
<1>32. BudgetType' BY <1>1, <1>4, <1>9, <1>21 DEF BudgetType
<1> QED BY <1>27, <1>28, <1>30, <1>31, <1>32 DEF BudgetInv

(* The caller's task ends: its gather waits for one less. *)
LEMMA CallerEndsKeeps ==
  ASSUME BudgetInv, NEW h \in Hosts, CallerEnds(h)
  PROVE  BudgetInv'
<1>1. BudgetType /\ Nested(h) /\ Tally BY DEF BudgetInv
<1>2. PICK s : s = calls[h] OBVIOUS
<1>3. PICK n : n = Len(s) OBVIOUS
<1>4. PICK y : y = SubSeq(s, 1, n - 1) OBVIOUS
<1>5. /\ s # <<>> /\ Top(h).kind = "task" /\ calls' = [calls EXCEPT ![h] = [y EXCEPT ![Len(y)].left = @ - 1]]
      /\ current' = [current EXCEPT ![h] = Top(h).previous] /\ UNCHANGED <<pool, worker, job, before, budget>>
  BY <1>2, <1>3, <1>4 DEF CallerEnds, Running, threadVars, workVars
<1>6. s \in Stack BY <1>1, <1>2 DEF BudgetType
<1>7. /\ n \in Nat /\ n > 0 /\ DOMAIN s = 1..n /\ y \in Stack /\ Len(y) = n - 1 /\ DOMAIN y = 1..(n - 1)
      /\ \A i \in 1..(n - 1) : y[i] = s[i]
  BY <1>3, <1>4, <1>5, <1>6, PoppedStack
<1>8. Top(h) = s[n] BY <1>2, <1>3 DEF Top
<1>9. Entered(Top(h)) = current[h] BY <1>1, <1>2, <1>5, <1>6, TopEntered
<1>10. current' = current
  <2>1. Top(h).previous = current[h] BY <1>5, <1>9 DEF Entered
  <2> QED BY <1>1, <1>5, <2>1 DEF BudgetType
<1>11. n > 1 /\ s[n - 1].kind = "par"
  <2>1. n \in DOMAIN s BY <1>7
  <2>2. s[n].kind = "task" <=> n > 1 /\ s[n - 1].kind = "par" BY <1>1, <1>2, <2>1 DEF Nested
  <2> QED BY <1>5, <1>8, <2>2
<1>12. PICK k : k = n - 1 OBVIOUS
<1>13. k \in Nat /\ k \in 1..k /\ k \in DOMAIN s /\ k \in DOMAIN y /\ k < n /\ n = k + 1 BY <1>7, <1>11, <1>12
<1>14. PICK p : p = s[k] OBVIOUS
<1>15. p \in Par /\ p.queued \in Nat /\ p.left \in Nat /\ Tallied(h, k) BY <1>2, <1>11, <1>12, <1>13, <1>14, ParFields
<1>16. Cardinality(On(h, k)) \in Nat BY OnFinite
<1>17. p.left = p.queued + Cardinality(On(h, k)) + 1 BY <1>2, <1>3, <1>13, <1>14, <1>15 DEF Tallied
<1>18. p.left - 1 \in Nat BY <1>15, <1>16, <1>17
<1>19. PICK q : q = [kind |-> "par", scan |-> p.scan, queued |-> p.queued, left |-> p.left - 1] OBVIOUS
<1>20. q \in Par /\ q.scan = p.scan /\ q.queued = p.queued /\ q.left = p.left - 1 BY <1>15, <1>18, <1>19 DEF Par
<1>21. PICK r : r = Swap(y, k, q) OBVIOUS
<1>22. /\ r \in Stack /\ Len(r) = k /\ DOMAIN r = 1..k /\ r[k] = q /\ \A j \in 1..k : j # k => r[j] = s[j]
       /\ \A j \in 1..k : r[j].kind = s[j].kind /\ Entered(r[j]) = Entered(s[j])
  <2>1. y[k] = p /\ y \in Stack /\ Len(y) = k /\ DOMAIN y = 1..k /\ \A j \in 1..k : y[j] = s[j] BY <1>7, <1>12, <1>13, <1>14
  <2>2. y[k].kind = "par" /\ q \in Par /\ q.scan = y[k].scan /\ k \in DOMAIN y BY <1>11, <1>12, <1>13, <1>14, <1>20, <2>1
  <2>3. /\ r \in Stack /\ Len(r) = Len(y) /\ Len(y) \in Nat /\ DOMAIN y = 1..Len(y) /\ DOMAIN r = 1..Len(y)
        /\ r[k] = q /\ \A j \in DOMAIN y : j # k => r[j] = y[j]
        /\ \A j \in DOMAIN y : r[j].kind = y[j].kind /\ Entered(r[j]) = Entered(y[j])
    BY <1>21, <2>1, <2>2, Refielded
  <2> QED BY <2>1, <2>3
<1>23. calls' = [calls EXCEPT ![h] = r]
  <2>1. PICK e : e = [p EXCEPT !.left = p.left - 1] OBVIOUS
  <2>2. e = q BY <1>15, <1>19, <2>1 DEF Par
  <2>3. y[k] = p /\ Len(y) = k BY <1>7, <1>12, <1>13, <1>14
  <2>4. [y EXCEPT ![k].left = @ - 1] = [y EXCEPT ![k] = e] BY <2>1, <2>3
  <2>5. [y EXCEPT ![Len(y)].left = @ - 1] = r BY <1>21, <2>2, <2>3, <2>4 DEF Swap
  <2> QED BY <1>5, <2>5
<1>24. /\ calls' \in [Hosts -> Stack] /\ calls'[h] = r
       /\ \A g \in Hosts : g # h => calls'[g] = calls[g]
       /\ \A g \in Hosts : g # h => Nested(g)'
       /\ \A g \in Hosts : \A j, b : g # h => (IsGather(g, j, b)' <=> IsGather(g, j, b))
  BY <1>10, <1>22, <1>23, OthersStay
<1>25. Agrees(h, k) BY <1>2, <1>22, <1>24 DEF Agrees
<1>26. Nested(h)'
  <2>1. current'[h] = Entered(Top(h)) BY <1>9, <1>10
  <2> QED BY <1>1, <1>2, <1>3, <1>5, <1>6, <1>12, <1>22, <1>24, <1>25, <2>1, PopNested
<1>27. \A g, j : On(g, j)' = On(g, j) BY <1>5 DEF On, Busy
<1>28. ASSUME NEW i \in DOMAIN calls'[h], calls'[h][i].kind = "par" PROVE Tallied(h, i)'
  <2>1. calls'[h] = r /\ On(h, i)' = On(h, i) /\ i \in 1..k BY <1>22, <1>24, <1>27
  <2>2. CASE i = k
    <3>1. q.left = q.queued + Cardinality(On(h, i)) + 0 BY <1>15, <1>16, <1>17, <1>20, <2>2
    <3>2. r[i] = q /\ ~(i < Len(r)) BY <1>13, <1>22, <2>2
    <3> QED BY <2>1, <3>1, <3>2 DEF Tallied
  <2>3. CASE i # k
    <3>1. r[i] = s[i] /\ i < k /\ i < n /\ i \in DOMAIN s BY <1>7, <1>13, <1>22, <2>1, <2>3
    <3>2. Tallied(h, i) BY <1>1, <1>2, <1>28, <2>1, <3>1 DEF Tally
    <3> QED BY <1>2, <1>3, <1>22, <2>1, <3>1, <3>2 DEF Tallied
  <2> QED BY <2>2, <2>3
<1>29. Tally' BY <1>1, <1>24, <1>27, <1>28, TallyFrame
<1>30. ASSUME NEW w \in Workers PROVE WorkInv(w)'
  <2>1. ASSUME NEW g \in Hosts, NEW i \in DOMAIN calls[g], calls[g][i].kind = "par"
        PROVE  i \in DOMAIN calls'[g] /\ calls'[g][i].kind = "par" /\ calls'[g][i].scan = calls[g][i].scan
    <3>1. CASE g # h BY <1>24, <2>1, <3>1
    <3>2. CASE g = h
      <4>1. i # n BY <1>2, <1>5, <1>8, <2>1, <3>2
      <4>2. i \in 1..k BY <1>2, <1>7, <1>12, <1>13, <2>1, <3>2, <4>1
      <4>3. r[i].kind = s[i].kind /\ Entered(r[i]) = Entered(s[i]) BY <1>22, <4>2
      <4> QED BY <1>2, <1>22, <1>24, <2>1, <3>2, <4>2, <4>3 DEF Entered
    <3> QED BY <3>1, <3>2
  <2>2. WorkInv(w) BY DEF BudgetInv
  <2>3. Busy(w)' => Busy(w) BY <1>5 DEF Busy
  <2>4. worker'[w] = worker[w] /\ job'[w] = job[w] /\ current'[w] = current[w] BY <1>5, <1>10
  <2> QED BY <2>1, <2>2, <2>3, <2>4, WorkFrame
<1>31. ASSUME NEW b \in Budgets, NEW g \in Hosts, NEW i PROVE IsGather(g, i, b)' <=> IsGather(g, i, b)
  <2>1. CASE g # h BY <1>24, <2>1
  <2>2. CASE g = h
    <3>1. IsGather(h, i, b)' <=> i \in 1..k /\ r[i].kind = "par" /\ Entered(r[i]) = b BY <1>22, <1>24 DEF IsGather, Entered
    <3>2. IsGather(h, i, b) <=> i \in 1..n /\ s[i].kind = "par" /\ Entered(s[i]) = b BY <1>2, <1>7 DEF IsGather, Entered
    <3>3. i \in 1..n <=> i \in 1..k \/ i = n BY <1>13
    <3>4. s[n].kind # "par" BY <1>5, <1>8
    <3> QED BY <1>22, <2>2, <3>1, <3>2, <3>3, <3>4
  <2> QED BY <2>1, <2>2
<1>32. \A g \in Hosts : Nested(g)' BY <1>24, <1>26
<1>33. Apart' /\ \A b \in Budgets : Accounted(b)'
  <2>1. budget' = budget /\ \A g \in Hosts : current'[g] = current[g] BY <1>5, <1>10
  <2> QED BY <1>31, <1>32, <2>1, AccountsStay
<1>34. BudgetType' BY <1>1, <1>5, <1>10, <1>24 DEF BudgetType
<1> QED BY <1>29, <1>30, <1>32, <1>33, <1>34 DEF BudgetInv

-----------------------------------------------------------------------------
(* The theorems.                                                           *)

LEMMA BudgetStep == BudgetInv /\ [Next]_vars => BudgetInv'
<1> SUFFICES ASSUME BudgetInv, [Next]_vars PROVE BudgetInv' OBVIOUS
<1>1. CASE UNCHANGED vars
  <2>1. UNCHANGED <<pool, worker, job, before, calls, current, budget>> BY <1>1 DEF vars, threadVars, workVars, scanVars
  <2> QED BY <2>1, BudgetKept
<1>2. CASE AskThread \/ Refuse \/ NameCap \/ Admit \/ AdmitUncapped \/ (\E c \in Caps : SetCap(c)) \/ \E g \in Guests : GuestEnds(g)
  <2>1. UNCHANGED <<pool, worker, job, before, calls, current, budget>>
    BY <1>2 DEF AskThread, Refuse, NameCap, Admit, AdmitUncapped, SetCap, GuestEnds, workVars, scanVars
  <2> QED BY <2>1, BudgetKept
<1>3. CASE \E h \in Hosts : EnterBlock(h) \/ EnterEval(h) BY <1>3, EnterKeeps, EnterOutermost
<1>4. CASE \E h \in Hosts : LeaveBlock(h) \/ LeaveEval(h) BY <1>4, LeaveKeeps, LeaveOutermost
<1>5. CASE \E h \in Hosts : OpenPar(h) \/ ClosePar(h) BY <1>5, OpenParKeeps, CloseParKeeps
<1>6. CASE \E h \in Hosts : CallerStarts(h) \/ CallerEnds(h) BY <1>6, CallerStartsKeeps, CallerEndsKeeps
<1>7. CASE \E t \in Hosts \cup Workers : Spend(t) BY <1>7, SpendKeeps
<1>8. CASE \E w \in Workers : GoIdle(w) \/ MakeState(w) \/ StartTask(w) \/ EndTask(w)
  BY <1>8, GoIdleKeeps, StartTaskKeeps, EndTaskKeeps
<1>9. CASE \E w \in Workers : \E h \in Hosts, i \in 1..MaxDepth : TakeTask(w, h, i) BY <1>9, TakeTaskKeeps
<1> QED BY <1>1, <1>2, <1>3, <1>4, <1>5, <1>6, <1>7, <1>8, <1>9 DEF Next

LEMMA BudgetsInit == Init => ThreadInv /\ BudgetInv
<1> SUFFICES ASSUME Init PROVE ThreadInv /\ BudgetInv OBVIOUS
<1>1. ThreadInv BY BudgetsAssumption DEF Init, ThreadInv, AskInv, DeniedInv, RefusalIsHonest
<1>2. PICK none : none = <<>> OBVIOUS
<1>3. none \in Stack /\ Len(none) = 0 /\ DOMAIN none = {} BY <1>2, EmptySeq DEF Stack
<1>4. \A h \in Hosts : calls[h] = none /\ current[h] = None BY <1>2 DEF Init
<1>5. \A w \in Workers : worker[w] = "none" /\ current[w] = None BY DEF Init
<1>6. NewBudget \in [life : {"free", "live", "freed"}, remaining : Nat, references : Int, spent : Int] BY DEF NewBudget
<1>7. BudgetType
  <2>1. calls \in [Hosts -> Stack] BY <1>2, <1>3 DEF Init
  <2>2. worker \in [Workers -> Places] BY DEF Init, Places
  <2>3. job \in [Workers -> (Hosts \X Nat) \cup {None}] /\ before = [w \in Workers |-> None] BY DEF Init
  <2>4. current \in [Hosts \cup Workers -> Scans] BY DEF Init, Scans
  <2>5. budget = [b \in Budgets |-> NewBudget] BY DEF Init
  <2> QED BY <1>5, <1>6, <2>1, <2>2, <2>3, <2>4, <2>5 DEF BudgetType
<1>8. \A h \in Hosts : Nested(h)
  <2>1. 0 <= MaxDepth BY BudgetsAssumption
  <2> QED BY <1>3, <1>4, <2>1 DEF Nested, HasBlock
<1>9. Tally BY <1>3, <1>4 DEF Tally
<1>10. \A w \in Workers : WorkInv(w) BY <1>5 DEF WorkInv, Busy
<1>11. Apart BY <1>4 DEF Apart
<1>12. ASSUME NEW b \in Budgets PROVE Accounted(b)
  <2>1. budget[b].life = "free" /\ budget[b].references = 0 BY DEF Init, NewBudget
  <2>2. b # None BY BudgetsAssumption
  <2>3. Holders(b) = {} BY <1>4, <2>2 DEF Holders
  <2>4. Gathers(b) = {} BY <1>3, <1>4 DEF Gathers
  <2>5. References(b) = 0 BY <2>3, <2>4, FS_EmptySet DEF References
  <2> QED BY <1>4, <2>1, <2>2, <2>5 DEF Accounted
<1> QED BY <1>1, <1>7, <1>8, <1>9, <1>10, <1>11, <1>12 DEF BudgetInv

(* The inductive invariant of threads and budgets: the states the hook has *)
(* counted are still there, each thread's calls share the budget of its    *)
(* outermost block, each gather's tasks are in the queue, on a worker or   *)
(* on its caller, and each budget counts its block and its gathers.        *)
THEOREM BudgetsInvariant == Spec => [](ThreadInv /\ BudgetInv)
<1>1. Init => ThreadInv /\ BudgetInv BY BudgetsInit
<1>2. (ThreadInv /\ BudgetInv) /\ [Next]_vars => (ThreadInv /\ BudgetInv)'
  <2>1. BudgetInv => BudgetType BY DEF BudgetInv
  <2> QED BY <2>1, ThreadStep, BudgetStep
<1> QED BY <1>1, <1>2, PTL DEF Spec

(* A thread is refused only when as many are alive as the cap the hook     *)
(* compared with, and unless the host moved the cap while the hook ran the *)
(* refusal names a positive cap that many threads have reached, for any    *)
(* number of host, worker and guest threads and any steps between.         *)
THEOREM RefusalsAreHonest == Spec => []RefusalIsHonest
<1>1. ThreadInv /\ BudgetInv => RefusalIsHonest BY DEF ThreadInv
<1> QED BY <1>1, BudgetsInvariant, PTL

LEMMA BudgetIsTheBlocksFollows == BudgetInv => BudgetIsTheBlocks
<1> SUFFICES ASSUME BudgetInv PROVE BudgetIsTheBlocks OBVIOUS
<1>1. BudgetType /\ \A g \in Hosts : Nested(g) BY DEF BudgetInv
<1>2. \A b \in Budgets : budget[b].life = "live" <=> \E h \in Hosts : current[h] = b BY DEF BudgetInv, Accounted
<1>3. ASSUME NEW h \in Hosts, current[h] # None PROVE budget[current[h]].life = "live"
  <2>1. current[h] \in Budgets BY <1>1, <1>3 DEF BudgetType, Scans
  <2> QED BY <1>2, <2>1
<1>4. ASSUME NEW w \in Workers, current[w] # None PROVE budget[current[w]].life = "live"
  <2>1. current[w] \in Budgets BY <1>1, <1>4 DEF BudgetType, Scans
  <2>2. WorkInv(w) BY DEF BudgetInv
  <2>3. worker[w] = "runs" /\ Busy(w) BY <1>4, <2>2 DEF WorkInv, Busy
  <2>4. PICK h \in Hosts : \E i \in DOMAIN calls[h] : calls[h][i].kind = "par" /\ current[w] = calls[h][i].scan
    BY <2>2, <2>3 DEF WorkInv
  <2>5. PICK i \in DOMAIN calls[h] : calls[h][i].kind = "par" /\ current[w] = calls[h][i].scan BY <2>4
  <2>6. IsGather(h, i, current[w]) BY <2>5 DEF IsGather
  <2>7. current[h] = current[w] BY <1>1, <2>1, <2>6, GatherOfHolder
  <2> QED BY <1>2, <2>1, <2>7
<1>5. ASSUME NEW b \in Budgets
      PROVE  /\ budget[b].life = "live" <=> References(b) > 0
             /\ budget[b].references = References(b)
             /\ budget[b].life # "free" => budget[b].spent + budget[b].remaining = Entries
             /\ budget[b].remaining >= 0
  <2>1. Accounted(b) BY DEF BudgetInv
  <2>2. /\ IsFiniteSet(Holders(b)) /\ IsFiniteSet(Gathers(b))
        /\ Cardinality(Holders(b)) \in Nat /\ Cardinality(Gathers(b)) \in Nat
    BY RefsFinite
  <2>3. References(b) = Cardinality(Holders(b)) + Cardinality(Gathers(b)) BY DEF References
  <2>4. Holders(b) = {h \in Hosts : current[h] = b} BY <1>1, HoldersAre
  <2>5. CASE \E h \in Hosts : current[h] = b
    <3>1. Holders(b) # {} BY <2>4, <2>5
    <3>2. Cardinality(Holders(b)) # 0 BY <2>2, <3>1, FS_EmptySet
    <3>3. References(b) > 0 BY <2>2, <2>3, <3>2
    <3>4. budget[b].life = "live" BY <1>2, <2>5
    <3> QED BY <1>1, <2>1, <3>3, <3>4 DEF Accounted, BudgetType
  <2>6. CASE ~\E h \in Hosts : current[h] = b
    <3>1. Holders(b) = {} BY <2>4, <2>6
    <3>2. \A h \in Hosts : \A i : ~IsGather(h, i, b) BY <1>1, <2>6, GatherOfHolder
    <3>3. Gathers(b) = {} BY <3>2 DEF Gathers, IsGather
    <3>4. References(b) = 0 BY <2>3, <3>1, <3>3, FS_EmptySet
    <3>5. budget[b].life # "live" /\ ~(0 > 0) BY <1>2, <2>6
    <3> QED BY <1>1, <2>1, <3>4, <3>5 DEF Accounted, BudgetType
  <2> QED BY <2>5, <2>6
<1> QED BY <1>3, <1>4, <1>5 DEF BudgetIsTheBlocks

(* A block and its gather workers have one budget: it is freed with the    *)
(* block and its last gather and not before, nobody is left with a freed   *)
(* one, and together they visit the entries given and no more, for any     *)
(* nesting of calls and any number of threads.                             *)
THEOREM OneBudgetPerBlock == Spec => []BudgetIsTheBlocks
<1>1. ThreadInv /\ BudgetInv => BudgetIsTheBlocks BY BudgetIsTheBlocksFollows
<1> QED BY <1>1, BudgetsInvariant, PTL
=============================================================================
