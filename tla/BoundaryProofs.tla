--------------------------- MODULE BoundaryProofs ---------------------------
(***************************************************************************)
(* Boundary proved for every number of threads and keys and every depth of *)
(* nested calls, with texts enough to tell those in sight apart.           *)
(*                                                                         *)
(* The stash and PENDING are one slot per thread while the calls on a      *)
(* thread nest, so what has to be shown is that a slot is never shared by  *)
(* two calls of the stack.  CallInv says why: a call that waits for the    *)
(* stash or for PENDING is the innermost one (the calls below it run       *)
(* Python or a tool), the slot holds its own text, and as long as memory   *)
(* lasts PENDING is empty whenever no such call is innermost.              *)
(***************************************************************************)
EXTENDS Boundary, SequenceTheorems, FiniteSetTheorems, TLAPS

Call == [at : {"python", "fetch", "tool", "grow"}, key : Keys \cup {None},
         own : Texts \cup {0}, ran : 0..2]

StackOK == stack \in [Threads -> Seq(Call)] /\ \A t \in Threads : Len(stack[t]) <= MaxNest

TypeOK ==
  /\ StackOK
  /\ stash \in [Threads -> Texts \cup {0}]
  /\ pending \in [Threads -> {None} \cup (Keys \X Texts)]
  /\ ranOut \in BOOLEAN

StackInv(t) ==
  /\ \A k \in 1..Len(stack[t]) :
       /\ k < Len(stack[t]) => stack[t][k].at \in {"python", "tool"}
       /\ stack[t][k].at = "tool" => stack[t][k].ran = 1 /\ stack[t][k].key \in Keys

FetchInv(t) ==
  In(t, "fetch") => stash[t] \in {Top(t).own, 0} /\ (~ranOut => stash[t] = Top(t).own)

GrowInv(t) ==
  /\ In(t, "grow") => /\ Waiting(t, Top(t).key) /\ Top(t).ran \in {0, 1}
                      /\ Top(t).ran = 1 => pending[t] = <<Top(t).key, Top(t).own>>
                      /\ ~ranOut => Top(t).ran = 1
  /\ ~ranOut /\ pending[t] # None => In(t, "grow")

CallInv(t) == StackInv(t) /\ FetchInv(t) /\ GrowInv(t)

GivenInv ==
  given # None => /\ given.ran <= 1 /\ (given.ran = 1 => given.right \/ given.empty)
                  /\ ~ranOut => given.right /\ given.ran = 1

BoundaryInv == TypeOK /\ (\A t \in Threads : CallInv(t)) /\ GivenInv

-----------------------------------------------------------------------------
(* What a call, its return and a change of the innermost call do to the    *)
(* calls in progress.                                                      *)
LEMMA PushShape ==
  ASSUME StackOK, NEW t \in Threads, NEW f \in Call, Push(t, f), Len(stack[t]) < MaxNest
  PROVE  /\ StackOK' /\ \A u \in Threads \ {t} : stack'[u] = stack[u]
         /\ Len(stack[t]) \in Nat /\ Len(stack'[t]) = Len(stack[t]) + 1 /\ Top(t)' = f
         /\ \A k \in 1..Len(stack[t]) : stack'[t][k] = stack[t][k]
<1>1. stack[t] \in Seq(Call) /\ stack' = [stack EXCEPT ![t] = Append(stack[t], f)]
  BY DEF StackOK, Push
<1>2. stack'[t] = Append(stack[t], f) BY <1>1 DEF StackOK
<1>3. stack'[t] \in Seq(Call) BY <1>1, <1>2, AppendProperties
<1>4. Len(stack[t]) \in Nat /\ Len(stack'[t]) = Len(stack[t]) + 1 BY <1>1, <1>2, AppendProperties
<1>5. stack' \in [Threads -> Seq(Call)] /\ \A u \in Threads \ {t} : stack'[u] = stack[u]
  BY <1>1, <1>2, <1>3 DEF StackOK
<1>6. Len(stack'[t]) <= MaxNest BY <1>4, BoundaryAssumption
<1>7. StackOK' BY <1>5, <1>6 DEF StackOK
<1> QED BY <1>1, <1>2, <1>4, <1>5, <1>7, AppendProperties DEF Top

LEMMA PopShape ==
  ASSUME StackOK, NEW t \in Threads, stack[t] # <<>>, Pop(t)
  PROVE  /\ StackOK' /\ \A u \in Threads \ {t} : stack'[u] = stack[u]
         /\ Len(stack[t]) \in Nat \ {0} /\ Len(stack'[t]) = Len(stack[t]) - 1
         /\ \A k \in 1..(Len(stack[t]) - 1) : stack'[t][k] = stack[t][k]
<1>1. stack[t] \in Seq(Call) /\ Len(stack[t]) \in Nat \ {0} BY EmptySeq DEF StackOK
<1>2. stack'[t] = SubSeq(stack[t], 1, Len(stack[t]) - 1) BY DEF StackOK, Pop
<1>3. \A i \in 1..(Len(stack[t]) - 1) : stack[t][i] \in Call BY <1>1, ElementOfSeq
<1>4. /\ stack'[t] \in Seq(Call) /\ Len(stack'[t]) = Len(stack[t]) - 1
      /\ \A k \in 1..(Len(stack[t]) - 1) : stack'[t][k] = stack[t][k]
  BY <1>1, <1>2, <1>3, SubSeqProperties
<1>5. stack' \in [Threads -> Seq(Call)] /\ \A u \in Threads \ {t} : stack'[u] = stack[u]
  BY <1>4 DEF StackOK, Pop
<1>6. Len(stack[t]) <= MaxNest BY DEF StackOK
<1>7. Len(stack'[t]) <= MaxNest BY <1>1, <1>4, <1>6, BoundaryAssumption
<1>8. StackOK' BY <1>5, <1>7 DEF StackOK
<1> QED BY <1>1, <1>4, <1>5, <1>8

LEMMA BecomeShape ==
  ASSUME StackOK, NEW t \in Threads, stack[t] # <<>>, NEW f \in Call, Become(t, f)
  PROVE  /\ StackOK' /\ \A u \in Threads \ {t} : stack'[u] = stack[u]
         /\ Len(stack[t]) \in Nat \ {0} /\ Len(stack'[t]) = Len(stack[t]) /\ Top(t)' = f
         /\ \A k \in 1..(Len(stack[t]) - 1) : stack'[t][k] = stack[t][k]
<1>1. stack[t] \in Seq(Call) /\ Len(stack[t]) \in Nat \ {0} BY EmptySeq DEF StackOK
<1>2. stack'[t] = [stack[t] EXCEPT ![Len(stack[t])] = f] BY DEF StackOK, Become
<1>3. Len(stack[t]) \in 1..Len(stack[t]) BY <1>1
<1>4. /\ stack'[t] \in Seq(Call) /\ Len(stack'[t]) = Len(stack[t])
      /\ \A k \in 1..Len(stack[t]) : stack'[t][k] = IF k = Len(stack[t]) THEN f ELSE stack[t][k]
  BY <1>1, <1>2, <1>3, ExceptSeq
<1>5. stack' \in [Threads -> Seq(Call)] /\ \A u \in Threads \ {t} : stack'[u] = stack[u]
  BY <1>4 DEF StackOK, Become
<1>6. StackOK' BY <1>4, <1>5 DEF StackOK
<1> QED BY <1>1, <1>3, <1>4, <1>5, <1>6 DEF Top

(* A step of one thread leaves what holds of the others: memory that has   *)
(* run out only takes obligations away.                                    *)
LEMMA OthersKeep ==
  ASSUME NEW u \in Threads, CallInv(u), stack'[u] = stack[u], stash'[u] = stash[u],
         pending'[u] = pending[u], ranOut => ranOut'
  PROVE  CallInv(u)'
<1>1. StackInv(u)' BY DEF CallInv, StackInv
<1>2. FetchInv(u)' BY DEF CallInv, FetchInv, In, Top
<1>3. GrowInv(u)' BY DEF CallInv, GrowInv, In, Top, Waiting
<1> QED BY <1>1, <1>2, <1>3 DEF CallInv

(* A call that ended: the one below runs Python or a tool, and waits for   *)
(* neither slot.                                                           *)
LEMMA PopKeeps ==
  ASSUME StackOK, NEW t \in Threads, CallInv(t), stack[t] # <<>>, Pop(t),
         ranOut' \/ pending'[t] = None
  PROVE  CallInv(t)'
<1>1. PICK n \in Nat \ {0} : n = Len(stack[t]) BY PopShape
<1>2. Len(stack'[t]) = n - 1 /\ \A k \in 1..(n - 1) : stack'[t][k] = stack[t][k]
  BY <1>1, PopShape
<1>3. \A k \in 1..(n - 1) : /\ stack'[t][k].at \in {"python", "tool"}
                            /\ stack'[t][k].at = "tool" => stack'[t][k].ran = 1 /\ stack'[t][k].key \in Keys
  BY <1>1, <1>2 DEF CallInv, StackInv
<1>4. StackInv(t)' BY <1>1, <1>2, <1>3 DEF StackInv
<1>5. stack'[t] # <<>> => Top(t)'.at \in {"python", "tool"}
  <2>1. SUFFICES ASSUME stack'[t] # <<>> PROVE Top(t)'.at \in {"python", "tool"} OBVIOUS
  <2>2. n - 1 \in 1..(n - 1) BY <1>2, <2>1, PopShape, EmptySeq
  <2> QED BY <1>2, <1>3, <2>2 DEF Top
<1>6. ~In(t, "fetch")' /\ ~In(t, "grow")' BY <1>5 DEF In
<1> QED BY <1>4, <1>6 DEF CallInv, FetchInv, GrowInv

(* A call made by a call that waits for nothing.                           *)
LEMMA PushKeeps ==
  ASSUME StackOK, NEW t \in Threads, CallInv(t), NEW f \in Call, Push(t, f),
         Len(stack[t]) < MaxNest,
         stack[t] = <<>> \/ In(t, "tool") \/ In(t, "python"),
         f.at # "fetch", f.at = "tool" => f.ran = 1 /\ f.key \in Keys,
         UNCHANGED <<stash, pending, ranOut>>,
         f.at = "grow" => Waiting(t, f.key) /\ f.ran = 0
  PROVE  CallInv(t)'
<1>1. PICK n \in Nat : n = Len(stack[t]) BY PushShape
<1>2. /\ Len(stack'[t]) = n + 1 /\ Top(t)' = f /\ stack'[t][n + 1] = f
      /\ \A k \in 1..n : stack'[t][k] = stack[t][k]
  BY <1>1, PushShape DEF Top
<1>3. \A k \in 1..n : stack[t][k].at \in {"python", "tool"}
  <2>1. ASSUME NEW k \in 1..n PROVE stack[t][k].at \in {"python", "tool"}
    <3>1. CASE k < n BY <1>1, <2>1, <3>1 DEF CallInv, StackInv
    <3>2. CASE k = n
      <4>1. stack[t] # <<>> BY <1>1, <2>1
      <4> QED BY <1>1, <3>2, <4>1 DEF In, Top
    <3> QED BY <2>1, <3>1, <3>2
  <2> QED BY <2>1
<1>4. StackInv(t)'
  <2> SUFFICES ASSUME NEW k \in 1..(n + 1)
               PROVE  /\ k < n + 1 => stack'[t][k].at \in {"python", "tool"}
                      /\ stack'[t][k].at = "tool" => stack'[t][k].ran = 1 /\ stack'[t][k].key \in Keys
    BY <1>2 DEF StackInv
  <2>1. CASE k = n + 1 BY <1>2, <2>1
  <2>2. CASE k # n + 1
    <3>1. k \in 1..n BY <2>2
    <3> QED BY <1>1, <1>2, <1>3, <3>1 DEF CallInv, StackInv
  <2> QED BY <2>1, <2>2
<1>5. ~In(t, "fetch")' BY <1>2 DEF In
<1>6. ~In(t, "grow") BY DEF In
<1>7. ~ranOut => pending[t] = None BY <1>6 DEF CallInv, GrowInv
<1>8. In(t, "grow")' => ranOut BY <1>2, <1>7 DEF In, Waiting
<1>9. In(t, "grow")' => Waiting(t, f.key)' /\ f.ran = 0 BY <1>2 DEF In, Waiting
<1>10. GrowInv(t)' BY <1>2, <1>7, <1>8, <1>9 DEF GrowInv
<1> QED BY <1>4, <1>5, <1>10 DEF CallInv, FetchInv

-----------------------------------------------------------------------------
(* A text no call, no stash and no PENDING holds always exists: each call  *)
(* and each slot holds at most one.                                        *)
LEMMA FreshIsNew ==
  ASSUME TypeOK
  PROVE  Fresh \in Texts /\ Fresh \notin InSight
<1> DEFINE Places == Threads \X (1..(MaxNest + 2))
           At(t, k) == IF k <= MaxNest THEN IF k <= Len(stack[t]) THEN stack[t][k].own ELSE 0
                       ELSE IF k = MaxNest + 1 THEN stash[t]
                       ELSE IF pending[t] # None THEN pending[t][2] ELSE 0
           Holds == [x \in Places |-> At(x[1], x[2])]
           Held == {Holds[x] : x \in Places}
<1>1. IsFiniteSet(Threads) /\ MaxNest \in Nat /\ MaxTexts \in Nat
      /\ MaxTexts > Cardinality(Threads) * (MaxNest + 2) /\ Cardinality(Threads) \in Nat
  BY BoundaryAssumption, FS_CardinalityType
<1>2. IsFiniteSet(1..(MaxNest + 2)) /\ Cardinality(1..(MaxNest + 2)) = MaxNest + 2
  BY <1>1, FS_Interval
<1>3. IsFiniteSet(Places) /\ Cardinality(Places) = Cardinality(Threads) * (MaxNest + 2)
  BY <1>1, <1>2, FS_Product
<1>4. Holds \in Surjection(Places, Held) BY DEF Surjection
<1>5. IsFiniteSet(Held) /\ Cardinality(Held) <= Cardinality(Places)
  <2> HIDE DEF Places, Holds, Held
  <2> QED BY <1>3, <1>4, FS_Surjection
<1>6. IsFiniteSet(Texts) /\ Cardinality(Texts) = MaxTexts BY <1>1, FS_Interval DEF Texts
<1>7. ~(Texts \subseteq Held)
  <2> HIDE DEF Places, Holds, Held
  <2>1. Texts \subseteq Held => Cardinality(Texts) <= Cardinality(Held) BY <1>5, FS_Subset
  <2>2. Cardinality(Held) \in Nat /\ Cardinality(Places) \in Nat BY <1>3, <1>5, FS_CardinalityType
  <2> QED BY <1>1, <1>3, <1>5, <1>6, <2>1, <2>2
<1>8. InSight \subseteq Held
  <2>1. ASSUME NEW t \in Threads, NEW k \in 1..(MaxNest + 2) PROVE At(t, k) \in Held
    <3>1. <<t, k>> \in Places OBVIOUS
    <3>2. Holds[<<t, k>>] = At(t, k) BY <3>1
    <3> QED BY <3>1, <3>2
  <2>2. ASSUME NEW t \in Threads, NEW k \in 1..Len(stack[t]) PROVE stack[t][k].own \in Held
    <3>1. Len(stack[t]) \in Nat /\ Len(stack[t]) <= MaxNest BY DEF TypeOK, StackOK
    <3>2. k \in 1..(MaxNest + 2) /\ k <= MaxNest /\ k <= Len(stack[t]) BY <1>1, <3>1
    <3>3. At(t, k) = stack[t][k].own BY <3>2
    <3> QED BY <2>1, <3>2, <3>3
  <2>3. ASSUME NEW t \in Threads PROVE stash[t] \in Held
    <3>1. MaxNest + 1 \in 1..(MaxNest + 2) BY <1>1
    <3>2. At(t, MaxNest + 1) = stash[t] BY <1>1
    <3> QED BY <2>1, <3>1, <3>2
  <2>4. ASSUME NEW t \in Threads, pending[t] # None PROVE pending[t][2] \in Held
    <3>1. MaxNest + 2 \in 1..(MaxNest + 2) BY <1>1
    <3>2. At(t, MaxNest + 2) = pending[t][2] BY <1>1, <2>4
    <3> QED BY <2>1, <3>1, <3>2
  <2> HIDE DEF Places, Holds, Held
  <2>5. ASSUME NEW x \in InSight PROVE x \in Held
    <3>1. CASE x \in UNION {{stack[t][k].own : k \in 1..Len(stack[t])} : t \in Threads}
      BY <2>2, <3>1
    <3>2. CASE x \in {stash[t] : t \in Threads} BY <2>3, <3>2
    <3>3. CASE x \in {pending[t][2] : t \in {u \in Threads : pending[u] # None}} BY <2>4, <3>3
    <3> QED BY <2>5, <3>1, <3>2, <3>3 DEF InSight
  <2> QED BY <2>5
<1>9. \E x \in Texts : x \notin InSight
  <2> HIDE DEF Places, Holds, Held
  <2> QED BY <1>7, <1>8
<1> QED BY <1>9 DEF Fresh

(* What is left to show of a step of a thread: the type of the slots, its  *)
(* own calls, and what it gave.                                            *)
LEMMA ThreadKeeps ==
  ASSUME BoundaryInv, NEW t \in Threads, TypeOK',
         \A u \in Threads \ {t} :
           stack'[u] = stack[u] /\ stash'[u] = stash[u] /\ pending'[u] = pending[u],
         ranOut => ranOut', CallInv(t)', GivenInv'
  PROVE  BoundaryInv'
<1>1. ASSUME NEW u \in Threads PROVE CallInv(u)'
  <2>1. CASE u = t BY <2>1
  <2>2. CASE u # t
    <3>1. CallInv(u) BY DEF BoundaryInv
    <3> QED BY <2>2, <3>1, OthersKeep
  <2> QED BY <2>1, <2>2
<1> QED BY <1>1 DEF BoundaryInv

(* What was given stays given while memory lasts or after it ran out.      *)
LEMMA GivenKeeps ==
  ASSUME BoundaryInv, given' = given, ranOut => ranOut'
  PROVE  GivenInv'
BY DEF BoundaryInv, GivenInv

-----------------------------------------------------------------------------
LEMMA InvokeKeeps ==
  ASSUME BoundaryInv, NEW t \in Threads, Invoke(t)
  PROVE  BoundaryInv'
<1>1. TypeOK /\ Fresh \in Texts BY FreshIsNew DEF BoundaryInv
<1>2. PICK f : f = [at |-> "python", key |-> None, own |-> 0, ran |-> 0] OBVIOUS
<1>3. f \in Call /\ f.at = "python" BY <1>1, <1>2 DEF Call, TypeOK
<1>4. Push(t, f) /\ CallInv(t) BY <1>2 DEF Invoke, BoundaryInv
<1>5. CallInv(t)' BY <1>1, <1>3, <1>4, PushKeeps DEF Invoke, TypeOK
<1>6. GivenInv' BY GivenKeeps DEF Invoke
<1>7. StackOK' /\ \A u \in Threads \ {t} : stack'[u] = stack[u]
  BY <1>1, <1>3, <1>4, PushShape DEF Invoke, TypeOK
<1> QED BY <1>1, <1>5, <1>6, <1>7, ThreadKeeps DEF Invoke, TypeOK

LEMMA HostCallKeeps ==
  ASSUME BoundaryInv, NEW t \in Threads, NEW k \in Keys, HostCall(t, k)
  PROVE  BoundaryInv'
<1>1. TypeOK /\ Fresh \in Texts BY FreshIsNew DEF BoundaryInv
<1>2. PICK f : f = IF Waiting(t, k) THEN [at |-> "grow", key |-> k, own |-> 0, ran |-> 0]
                                    ELSE [at |-> "tool", key |-> k, own |-> 0, ran |-> 1]
  OBVIOUS
<1>3. f \in Call /\ f.key = k BY <1>1, <1>2 DEF Call, TypeOK
<1>4. /\ f.at # "fetch" /\ (f.at = "tool" => f.ran = 1 /\ f.key \in Keys)
      /\ f.at = "grow" => Waiting(t, f.key) /\ f.ran = 0
  BY <1>2
<1>5. Push(t, f) /\ CallInv(t) BY <1>2 DEF HostCall, BoundaryInv
<1>6. CallInv(t)' BY <1>1, <1>3, <1>4, <1>5, PushKeeps DEF HostCall, TypeOK
<1>7. GivenInv' BY GivenKeeps DEF HostCall
<1>8. StackOK' /\ \A u \in Threads \ {t} : stack'[u] = stack[u]
  BY <1>1, <1>3, <1>5, PushShape DEF HostCall, TypeOK
<1> QED BY <1>1, <1>6, <1>7, <1>8, ThreadKeeps DEF HostCall, TypeOK

(* While memory lasts a call that is not told to grow finds PENDING empty. *)
LEMMA NothingWaits ==
  ASSUME BoundaryInv, NEW t \in Threads, In(t, "python") \/ In(t, "fetch") \/ In(t, "tool")
  PROVE  ranOut \/ pending[t] = None
BY DEF BoundaryInv, CallInv, GrowInv, In

(* A step that ends the innermost call of a thread and touches no slot of  *)
(* another.                                                                *)
LEMMA ReturnKeeps ==
  ASSUME BoundaryInv, NEW t \in Threads, stack[t] # <<>>, Pop(t),
         NEW x \in Texts \cup {0}, stash' = [stash EXCEPT ![t] = x],
         NEW y \in {None, pending[t]}, pending' = [pending EXCEPT ![t] = y],
         ranOut' \in BOOLEAN, ranOut => ranOut', ranOut' \/ y = None, GivenInv'
  PROVE  BoundaryInv'
<1>1. TypeOK /\ StackOK /\ CallInv(t) BY DEF BoundaryInv, TypeOK
<1>2. StackOK' /\ \A u \in Threads \ {t} : stack'[u] = stack[u] BY <1>1, PopShape
<1>3. pending'[t] = y BY <1>1 DEF TypeOK
<1>4. CallInv(t)' BY <1>1, <1>3, PopKeeps
<1>5. TypeOK' BY <1>1, <1>2 DEF TypeOK
<1>6. \A u \in Threads \ {t} : stash'[u] = stash[u] /\ pending'[u] = pending[u] BY <1>1 DEF TypeOK
<1> QED BY <1>2, <1>4, <1>5, <1>6, ThreadKeeps

LEMMA AnswerFitsKeeps ==
  ASSUME BoundaryInv, NEW t \in Threads, AnswerFits(t)
  PROVE  BoundaryInv'
<1>1. TypeOK BY DEF BoundaryInv
<1>2. given'.right /\ given'.ran = 1 BY DEF AnswerFits, Gave
<1>3. GivenInv' BY <1>2 DEF GivenInv
<1>4. ranOut \/ pending[t] = None BY NothingWaits DEF AnswerFits
<1>5. stash' = [stash EXCEPT ![t] = 0] /\ pending' = [pending EXCEPT ![t] = pending[t]]
  BY <1>1 DEF TypeOK, AnswerFits
<1> QED BY <1>1, <1>3, <1>4, <1>5, ReturnKeeps DEF TypeOK, AnswerFits, In

LEMMA RaisesKeeps ==
  ASSUME BoundaryInv, NEW t \in Threads, Raises(t)
  PROVE  BoundaryInv'
<1>1. TypeOK /\ Fresh \in Texts BY FreshIsNew DEF BoundaryInv
<1>2. ranOut' \in BOOLEAN /\ (ranOut => ranOut') BY <1>1 DEF TypeOK, Raises, Stash
<1>3. GivenInv' BY <1>2, GivenKeeps DEF Raises
<1>4. ranOut \/ pending[t] = None BY NothingWaits DEF Raises
<1>5. PICK x \in Texts \cup {0} : stash' = [stash EXCEPT ![t] = x] BY <1>1 DEF Raises, Stash
<1>6. pending' = [pending EXCEPT ![t] = pending[t]] BY <1>1 DEF TypeOK, Raises
<1> QED BY <1>2, <1>3, <1>4, <1>5, <1>6, ReturnKeeps DEF Raises, In

LEMMA FetchKeeps ==
  ASSUME BoundaryInv, NEW t \in Threads, Fetch(t)
  PROVE  BoundaryInv'
<1>1. TypeOK BY DEF BoundaryInv
<1>2. stash[t] \in {Top(t).own, 0} /\ (~ranOut => stash[t] = Top(t).own)
  BY DEF BoundaryInv, CallInv, FetchInv, Fetch
<1>3. given'.ran = 1 BY DEF Fetch, Gave
<1>4. stash[t] = Top(t).own => given'.right BY DEF Fetch, Gave
<1>5. stash[t] = 0 => given'.empty BY DEF Fetch, Gave
<1>6. GivenInv' BY <1>2, <1>3, <1>4, <1>5 DEF GivenInv, Fetch
<1>7. ranOut \/ pending[t] = None BY NothingWaits DEF Fetch
<1>8. stash' = [stash EXCEPT ![t] = 0] /\ pending' = [pending EXCEPT ![t] = pending[t]]
  BY <1>1 DEF TypeOK, Fetch
<1> QED BY <1>1, <1>6, <1>7, <1>8, ReturnKeeps DEF TypeOK, Fetch, In

(* The tool of a host call on its way out ran once.                        *)
LEMMA ToolRan ==
  ASSUME BoundaryInv, NEW t \in Threads, In(t, "tool")
  PROVE  Top(t) \in Call /\ Top(t).ran = 1 /\ Top(t).key \in Keys
<1>1. stack[t] \in Seq(Call) /\ stack[t] # <<>> /\ Top(t).at = "tool"
  BY DEF BoundaryInv, TypeOK, StackOK, In
<1>2. Len(stack[t]) \in 1..Len(stack[t]) BY <1>1, EmptySeq
<1>3. Top(t) \in Call BY <1>1, <1>2, ElementOfSeq DEF Top
<1> QED BY <1>1, <1>2, <1>3 DEF BoundaryInv, CallInv, StackInv, Top

LEMMA ReplyFitsKeeps ==
  ASSUME BoundaryInv, NEW t \in Threads, ReplyFits(t)
  PROVE  BoundaryInv'
<1>1. TypeOK BY DEF BoundaryInv
<1>2. Top(t).ran = 1 BY ToolRan DEF ReplyFits
<1>3. given'.right /\ given'.ran = 1 BY <1>2 DEF ReplyFits, Gave
<1>4. GivenInv' BY <1>3 DEF GivenInv
<1>5. stash' = [stash EXCEPT ![t] = stash[t]] /\ stash[t] \in Texts \cup {0}
  BY <1>1 DEF TypeOK, ReplyFits
<1> QED BY <1>1, <1>4, <1>5, ReturnKeeps DEF TypeOK, ReplyFits, RemovePending, In

LEMMA ToolThrowsKeeps ==
  ASSUME BoundaryInv, NEW t \in Threads, ToolThrows(t)
  PROVE  BoundaryInv'
<1>1. TypeOK BY DEF BoundaryInv
<1>2. GivenInv' BY GivenKeeps DEF ToolThrows
<1>3. stash' = [stash EXCEPT ![t] = stash[t]] /\ stash[t] \in Texts \cup {0}
  BY <1>1 DEF TypeOK, ToolThrows
<1> QED BY <1>1, <1>2, <1>3, ReturnKeeps DEF TypeOK, ToolThrows, RemovePending, In

LEMMA GrowFailsKeeps ==
  ASSUME BoundaryInv, NEW t \in Threads, GrowFails(t)
  PROVE  BoundaryInv'
<1>1. TypeOK BY DEF BoundaryInv
<1>2. GivenInv' BY GivenKeeps DEF GrowFails
<1>3. stash' = [stash EXCEPT ![t] = stash[t]] /\ stash[t] \in Texts \cup {0}
  BY <1>1 DEF TypeOK, GrowFails
<1>4. pending' = [pending EXCEPT ![t] = pending[t]] BY <1>1 DEF TypeOK, GrowFails
<1> QED BY <1>2, <1>3, <1>4, ReturnKeeps DEF GrowFails, In

(* The retry finds the reply of its own call: it never runs the tool again. *)
LEMMA RetryKeeps ==
  ASSUME BoundaryInv, NEW t \in Threads, Retry(t)
  PROVE  BoundaryInv'
<1>1. TypeOK BY DEF BoundaryInv
<1>2. /\ Waiting(t, Top(t).key) /\ Top(t).ran \in {0, 1}
      /\ Top(t).ran = 1 => pending[t] = <<Top(t).key, Top(t).own>>
      /\ ~ranOut => Top(t).ran = 1
  BY DEF BoundaryInv, CallInv, GrowInv, Retry
<1>3. /\ Gave("up", Top(t).ran, Top(t).own, pending[t][2]) /\ RemovePending(t) /\ Pop(t)
      /\ UNCHANGED <<stash, ranOut>> /\ stack[t] # <<>>
  BY <1>2 DEF Retry, In
<1>4. given'.ran = Top(t).ran /\ (pending[t][2] = Top(t).own => given'.right) BY <1>3 DEF Gave
<1>5. Top(t).ran = 1 => pending[t][2] = Top(t).own BY <1>2
<1>6. given'.ran <= 1 BY <1>2, <1>4
<1>7. GivenInv' BY <1>2, <1>3, <1>4, <1>5, <1>6 DEF GivenInv
<1>8. stash' = [stash EXCEPT ![t] = stash[t]] /\ stash[t] \in Texts \cup {0}
  BY <1>1, <1>3 DEF TypeOK
<1> QED BY <1>1, <1>3, <1>7, <1>8, ReturnKeeps DEF TypeOK, RemovePending

(* A call that now waits for its text: the innermost one changed, those    *)
(* below it did not.                                                       *)
LEMMA BecomeKeepsStack ==
  ASSUME StackOK, NEW t \in Threads, stack[t] # <<>>, StackInv(t),
         NEW f \in Call, f.at # "tool", Become(t, f)
  PROVE  StackInv(t)'
<1>1. PICK n \in Nat \ {0} : n = Len(stack[t]) BY BecomeShape
<1>2. /\ Len(stack'[t]) = n /\ stack'[t][n] = f
      /\ \A k \in 1..(n - 1) : stack'[t][k] = stack[t][k]
  BY <1>1, BecomeShape DEF Top
<1> SUFFICES ASSUME NEW k \in 1..n
             PROVE  /\ k < n => stack'[t][k].at \in {"python", "tool"}
                    /\ stack'[t][k].at = "tool" => stack'[t][k].ran = 1 /\ stack'[t][k].key \in Keys
  BY <1>2 DEF StackInv
<1>3. CASE k = n BY <1>2, <1>3
<1>4. CASE k # n
  <2>1. k \in 1..(n - 1) BY <1>4
  <2> QED BY <1>1, <1>2, <2>1 DEF StackInv
<1> QED BY <1>3, <1>4

(* An answer that does not fit is its call's own while it waits.           *)
LEMMA AnswerWaitsKeeps ==
  ASSUME BoundaryInv, NEW t \in Threads, AnswerWaits(t)
  PROVE  BoundaryInv'
<1>1. TypeOK /\ StackOK /\ StackInv(t) /\ Fresh \in Texts
  BY FreshIsNew DEF BoundaryInv, TypeOK, CallInv
<1>2. stack[t] # <<>> /\ stack[t] \in Seq(Call) BY <1>1 DEF StackOK, AnswerWaits, In
<1>3. Len(stack[t]) \in 1..Len(stack[t]) BY <1>2, EmptySeq
<1>4. Top(t) \in Call BY <1>2, <1>3, ElementOfSeq DEF Top
<1>5. PICK f : f = [Top(t) EXCEPT !.at = "fetch", !.own = Fresh] OBVIOUS
<1>6. f \in Call /\ f.at = "fetch" /\ f.own = Fresh BY <1>1, <1>4, <1>5 DEF Call
<1>7. Become(t, f) BY <1>5 DEF AnswerWaits
<1>8. StackOK' /\ Top(t)' = f /\ \A u \in Threads \ {t} : stack'[u] = stack[u]
  BY <1>1, <1>2, <1>6, <1>7, BecomeShape
<1>9. StackInv(t)' BY <1>1, <1>2, <1>6, <1>7, BecomeKeepsStack
<1>10. stash'[t] = Fresh \/ (stash'[t] = 0 /\ ranOut') BY <1>1 DEF TypeOK, AnswerWaits, Stash
<1>11. FetchInv(t)' BY <1>6, <1>8, <1>10 DEF FetchInv
<1>12. ranOut' \in BOOLEAN /\ (ranOut => ranOut') BY <1>1 DEF TypeOK, AnswerWaits, Stash
<1>13. ranOut \/ pending[t] = None BY NothingWaits DEF AnswerWaits
<1>14. ~In(t, "grow")' BY <1>6, <1>8 DEF In
<1>15. GrowInv(t)' BY <1>12, <1>13, <1>14 DEF GrowInv, AnswerWaits
<1>16. CallInv(t)' BY <1>9, <1>11, <1>15 DEF CallInv
<1>17. GivenInv' BY <1>12, GivenKeeps DEF AnswerWaits
<1>18. TypeOK' BY <1>1, <1>8, <1>12 DEF TypeOK, AnswerWaits, Stash
<1>19. \A u \in Threads \ {t} : stash'[u] = stash[u] /\ pending'[u] = pending[u]
  BY <1>1 DEF TypeOK, AnswerWaits, Stash
<1> QED BY <1>8, <1>12, <1>16, <1>17, <1>18, <1>19, ThreadKeeps

(* A reply that does not fit waits for the retry of the call it answers.   *)
LEMMA ReplyTooLongKeeps ==
  ASSUME BoundaryInv, NEW t \in Threads, ReplyTooLong(t)
  PROVE  BoundaryInv'
<1>1. TypeOK /\ StackOK /\ StackInv(t) /\ Fresh \in Texts
  BY FreshIsNew DEF BoundaryInv, TypeOK, CallInv
<1>2. Top(t) \in Call /\ Top(t).ran = 1 /\ Top(t).key \in Keys /\ stack[t] # <<>>
  BY ToolRan DEF ReplyTooLong, In
<1>3. PICK f : f = [Top(t) EXCEPT !.at = "grow", !.own = Fresh] OBVIOUS
<1>4. f \in Call /\ f.at = "grow" /\ f.own = Fresh /\ f.ran = 1 /\ f.key = Top(t).key
  BY <1>1, <1>2, <1>3 DEF Call
<1>5. Become(t, f) BY <1>2, <1>3 DEF ReplyTooLong
<1>6. StackOK' /\ Top(t)' = f /\ \A u \in Threads \ {t} : stack'[u] = stack[u]
  BY <1>1, <1>2, <1>4, <1>5, BecomeShape
<1>7. StackInv(t)' BY <1>1, <1>2, <1>4, <1>5, BecomeKeepsStack
<1>8. <<f.key, f.own>> \in Keys \X Texts BY <1>1, <1>2, <1>4
<1>9. pending' = [pending EXCEPT ![t] = <<f.key, f.own>>] BY <1>4 DEF ReplyTooLong
<1>10. pending'[t] = <<f.key, f.own>> /\ pending'[t] # None
  BY <1>1, <1>8, <1>9, BoundaryAssumption DEF TypeOK, Texts
<1>11. stack'[t] # <<>>
  <2>1. Len(stack'[t]) \in Nat \ {0} BY <1>1, <1>2, <1>4, <1>5, BecomeShape
  <2> QED BY <2>1
<1>12. In(t, "grow")' /\ ~In(t, "fetch")' BY <1>4, <1>6, <1>11 DEF In
<1>13. Waiting(t, f.key)' BY <1>10 DEF Waiting
<1>14. GrowInv(t)' BY <1>4, <1>6, <1>10, <1>12, <1>13 DEF GrowInv
<1>15. CallInv(t)' BY <1>7, <1>12, <1>14 DEF CallInv, FetchInv
<1>16. GivenInv' BY GivenKeeps DEF ReplyTooLong
<1>17. TypeOK' BY <1>1, <1>6, <1>8, <1>9 DEF TypeOK, ReplyTooLong
<1>18. \A u \in Threads \ {t} : stash'[u] = stash[u] /\ pending'[u] = pending[u]
  BY <1>1 DEF TypeOK, ReplyTooLong
<1> QED BY <1>6, <1>15, <1>16, <1>17, <1>18, ThreadKeeps DEF ReplyTooLong

-----------------------------------------------------------------------------
LEMMA InitKeeps == Init => BoundaryInv
<1> SUFFICES ASSUME Init PROVE BoundaryInv OBVIOUS
<1>1. stack = [t \in Threads |-> <<>>] /\ MaxNest \in Nat BY BoundaryAssumption DEF Init
<1>2. StackOK BY <1>1 DEF StackOK
<1>3. TypeOK BY <1>2 DEF Init, TypeOK
<1>4. \A t \in Threads : ~In(t, "fetch") /\ ~In(t, "grow") BY <1>1 DEF In
<1>5. \A t \in Threads : StackInv(t) BY <1>1 DEF StackInv
<1>6. \A t \in Threads : CallInv(t) BY <1>4, <1>5 DEF Init, CallInv, FetchInv, GrowInv
<1> QED BY <1>3, <1>6 DEF BoundaryInv, GivenInv, Init

(* What keeps the slots of a thread apart holds in every reachable state.  *)
THEOREM BoundaryInvariant == Spec => []BoundaryInv
<1>1. BoundaryInv /\ [Next]_vars => BoundaryInv'
  <2> SUFFICES ASSUME BoundaryInv, [Next]_vars PROVE BoundaryInv' OBVIOUS
  <2>1. CASE UNCHANGED vars
    BY <2>1 DEF vars, BoundaryInv, TypeOK, StackOK, CallInv, StackInv, FetchInv, GrowInv, GivenInv,
                In, Top, Waiting
  <2>2. ASSUME NEW t \in Threads, Invoke(t) PROVE BoundaryInv' BY <2>2, InvokeKeeps
  <2>3. ASSUME NEW t \in Threads, AnswerFits(t) PROVE BoundaryInv' BY <2>3, AnswerFitsKeeps
  <2>4. ASSUME NEW t \in Threads, AnswerWaits(t) PROVE BoundaryInv' BY <2>4, AnswerWaitsKeeps
  <2>5. ASSUME NEW t \in Threads, Raises(t) PROVE BoundaryInv' BY <2>5, RaisesKeeps
  <2>6. ASSUME NEW t \in Threads, Fetch(t) PROVE BoundaryInv' BY <2>6, FetchKeeps
  <2>7. ASSUME NEW t \in Threads, NEW k \in Keys, HostCall(t, k) PROVE BoundaryInv'
    BY <2>7, HostCallKeeps
  <2>8. ASSUME NEW t \in Threads, ReplyFits(t) PROVE BoundaryInv' BY <2>8, ReplyFitsKeeps
  <2>9. ASSUME NEW t \in Threads, ReplyTooLong(t) PROVE BoundaryInv' BY <2>9, ReplyTooLongKeeps
  <2>10. ASSUME NEW t \in Threads, ToolThrows(t) PROVE BoundaryInv' BY <2>10, ToolThrowsKeeps
  <2>11. ASSUME NEW t \in Threads, Retry(t) PROVE BoundaryInv' BY <2>11, RetryKeeps
  <2>12. ASSUME NEW t \in Threads, GrowFails(t) PROVE BoundaryInv' BY <2>12, GrowFailsKeeps
  <2> QED BY <2>1, <2>2, <2>3, <2>4, <2>5, <2>6, <2>7, <2>8, <2>9, <2>10, <2>11, <2>12 DEF Next
<1> QED BY <1>1, InitKeeps, PTL DEF Spec

(* invoke answers the text its own call made as long as memory lasts: an   *)
(* answer kept for vispython_take_result is never another call's.          *)
THEOREM AnswersKept == Spec => []AnswersAreKept
<1>1. BoundaryInv => AnswersAreKept BY DEF BoundaryInv, GivenInv, AnswersAreKept
<1> QED BY <1>1, BoundaryInvariant, PTL

(* A host call that answers ran its tool once and answers that run's reply,*)
(* as long as memory lasts, however long the reply was.                    *)
THEOREM ToolOnce == Spec => []ToolRunsOnce
<1>1. BoundaryInv => ToolRunsOnce BY DEF BoundaryInv, GivenInv, ToolRunsOnce
<1> QED BY <1>1, BoundaryInvariant, PTL

(* While memory lasts PENDING holds a reply only for the retry under way.  *)
THEOREM PendingForRetry == Spec => []PendingIsTheRetrys
<1>1. BoundaryInv => PendingIsTheRetrys
  <2> SUFFICES ASSUME BoundaryInv, NEW t \in Threads, ~ranOut, pending[t] # None
               PROVE  In(t, "grow") /\ pending[t] = <<Top(t).key, Top(t).own>>
    BY DEF PendingIsTheRetrys
  <2> QED BY DEF BoundaryInv, CallInv, GrowInv
<1> QED BY <1>1, BoundaryInvariant, PTL

(* Even when memory runs out no tool runs twice for a call, and no call is *)
(* given a text of a call it does not equal.                               *)
THEOREM NoForeign == Spec => []NoForeignText
<1>1. BoundaryInv => NoForeignText
  <2> SUFFICES ASSUME BoundaryInv PROVE NoForeignText OBVIOUS
  <2>1. given # None => given.ran <= 1 /\ (given.ran = 1 => given.right \/ given.empty)
    BY DEF BoundaryInv, GivenInv
  <2>2. \A t \in Threads : In(t, "fetch") => stash[t] \in {Top(t).own, 0}
    BY DEF BoundaryInv, CallInv, FetchInv
  <2>3. \A t \in Threads : In(t, "grow") => Waiting(t, Top(t).key)
    BY DEF BoundaryInv, CallInv, GrowInv
  <2> QED BY <2>1, <2>2, <2>3 DEF NoForeignText
<1> QED BY <1>1, BoundaryInvariant, PTL
=============================================================================
