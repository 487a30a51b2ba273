------------------------------ MODULE LogRing ------------------------------
(***************************************************************************)
(* The diagnostic ring of native/vispython/vispython.c, which overwrites   *)
(* its oldest record when nobody drains, and the Java side that drains it: *)
(* Interpreter.drainLog and the drainers Interpreter.drainTo starts and    *)
(* replaces.                                                               *)
(*                                                                         *)
(* The records are numbered as they are written.  `place` is where a       *)
(* reader of the drained text would be if it believed what it read: after  *)
(* a record it expects the next one, and a `log_dropped` event of n moves  *)
(* it on by n.                                                             *)
(***************************************************************************)
EXTENDS Integers

CONSTANTS
  Writers,    \* threads that record
  Drainers,   \* the drainers drainTo starts, one after the other
  Slots,      \* VIS_PY_LOG_SLOTS
  Fits,       \* records of full length that fit one drain beside log_dropped
  Levels,     \* the levels in force the host may choose
  MaxRecords, \* bound: records in a behaviour
  MaxThrows,  \* bound: times a sink throws
  NoDrainer

Off == 0      \* VIS_PY_LOG_OFF
Warn == 1     \* VIS_PY_LOG_WARN
Debug == 3    \* VIS_PY_LOG_DEBUG

ASSUME LogAssumption ==
  /\ NoDrainer \notin Writers \cup Drainers
  /\ Slots \in Nat \ {0}
  /\ Fits \in Nat \ {0}
  /\ Levels \subseteq Off..Debug
  /\ MaxRecords \in Nat /\ MaxThrows \in Nat

VARIABLES
  slot,     \* vis_py_log.slot: the number of the record each holds
  head,     \* vis_py_log.head
  count,    \* vis_py_log.count
  dropped,  \* vis_py_log.dropped
  level,    \* vis_py_log.level
  writing,  \* the writers past the level check and before the lock
  written,  \* records written so far
  place,    \* the number a reader of the drained text expects next
  astray,   \* the reader met another record than the one it expected
  drainer,  \* Interpreter.drainer
  started,  \* the drainers that were started so far
  dpc,      \* where each drainer is
  throws    \* times a sink threw

ringVars == <<slot, head, count, dropped>>
drainVars == <<drainer, started, dpc, throws>>
logVars == <<ringVars, level, writing, written, place, astray, drainVars>>

Indices == 0..(Slots - 1)

RingInit ==
  /\ slot = [k \in Indices |-> 0]
  /\ head = 0 /\ count = 0 /\ dropped = 0
  /\ level = Off
  /\ writing = {}
  /\ written = 0
  /\ place = 1
  /\ astray = FALSE
  /\ drainer = NoDrainer
  /\ started = {}
  /\ dpc = [d \in Drainers |-> "absent"]
  /\ throws = 0

-----------------------------------------------------------------------------
(* vispython_logging.                                                      *)
SetLevel(l) ==
  /\ level' = l
  /\ UNCHANGED <<ringVars, writing, written, place, astray, drainVars>>

(* vis_py_record, before the lock: "the level is read without the lock on  *)
(* purpose".                                                               *)
BeginRecord(w, l) ==
  /\ w \notin writing /\ l <= level
  /\ writing' = writing \cup {w}
  /\ UNCHANGED <<ringVars, level, written, place, astray, drainVars>>

(* Mutant: a full ring gives up its oldest record without counting it.     *)
PutUncounted(n) ==
  LET k == (head + count) % Slots
  IN  /\ slot' = [slot EXCEPT ![k] = n]
      /\ head' = IF count = Slots THEN (head + 1) % Slots ELSE head
      /\ count' = IF count = Slots THEN count ELSE count + 1
      /\ UNCHANGED dropped

(* Under the lock: the next slot, which is the oldest one in a full ring.  *)
Put(n) ==
  LET k == (head + count) % Slots
  IN  /\ slot' = [slot EXCEPT ![k] = n]
      /\ IF count = Slots
         THEN /\ head' = (head + 1) % Slots
              /\ dropped' = dropped + 1
              /\ UNCHANGED count
         ELSE /\ count' = count + 1
              /\ UNCHANGED <<head, dropped>>

Record(w) ==
  /\ w \in writing /\ written < MaxRecords
  /\ writing' = writing \ {w}
  /\ written' = written + 1
  /\ Put(written + 1)
  /\ UNCHANGED <<level, place, astray, drainVars>>

-----------------------------------------------------------------------------
(* vispython_drain_log as drainLog calls it, with a buffer larger than a   *)
(* record: the drops are reported first, then the oldest records, as many  *)
(* as fit.  How many depends on their lengths.                             *)
Lines(n) == {k \in 0..n : k = n \/ k >= Fits}

Oldest(k) == [j \in 1..k |-> slot[(head + j - 1) % Slots]]

(* Mutant: the report of the drops follows the records it is about.        *)
TakeThenReport(k) ==
  /\ head' = (head + k) % Slots
  /\ count' = count - k
  /\ dropped' = 0
  /\ astray' = (astray \/ \E j \in 1..k : Oldest(k)[j] # place + j - 1)
  /\ place' = place + dropped + k
  /\ UNCHANGED slot

Take(k) ==
  /\ head' = (head + k) % Slots
  /\ count' = count - k
  /\ dropped' = 0
  /\ astray' = (astray \/ \E j \in 1..k : Oldest(k)[j] # place + dropped + j - 1)
  /\ place' = place + dropped + k
  /\ UNCHANGED slot

(* One drainLog of a pass: an empty answer ends the pass.  A drop that was *)
(* reported is text, and so is never the empty answer.                     *)
Drain(d) ==
  /\ dpc[d] = "pass"
  /\ \E k \in Lines(count) :
       /\ Take(k)
       /\ dpc' = [dpc EXCEPT ![d] = IF k = 0 /\ dropped = 0
                                    THEN IF drainer = d THEN "asleep" ELSE "gone"
                                    ELSE "giving"]
  /\ UNCHANGED <<level, writing, written, drainer, started, throws>>

(* Mutant: a sink that threw keeps the drainer from being scheduled.       *)
WakeUnlessThrown(d) ==
  /\ dpc[d] = "asleep" /\ drainer = d /\ throws = 0
  /\ dpc' = [dpc EXCEPT ![d] = "pass"]
  /\ UNCHANGED <<ringVars, level, writing, written, place, astray, drainer, started, throws>>

(* The scheduled delay is over.                                            *)
Wake(d) ==
  /\ dpc[d] = "asleep" /\ drainer = d
  /\ dpc' = [dpc EXCEPT ![d] = "pass"]
  /\ UNCHANGED <<ringVars, level, writing, written, place, astray, drainer, started, throws>>

(* sink.accept.                                                            *)
Accept(d) ==
  /\ dpc[d] = "giving"
  /\ dpc' = [dpc EXCEPT ![d] = "pass"]
  /\ UNCHANGED <<ringVars, level, writing, written, place, astray, drainer, started, throws>>

(* The sink throws: its text is gone, the pass ends and the drainer lives. *)
SinkThrows(d) ==
  /\ dpc[d] = "giving" /\ throws < MaxThrows
  /\ throws' = throws + 1
  /\ dpc' = [dpc EXCEPT ![d] = IF drainer = d THEN "asleep" ELSE "gone"]
  /\ UNCHANGED <<ringVars, level, writing, written, place, astray, drainer, started>>

(* drainTo: the drainer in force is shut down, which ends it once its pass *)
(* is over, and a new one, or none, takes its place.                       *)
Stopped(p) == IF drainer # NoDrainer /\ p[drainer] = "asleep" THEN [p EXCEPT ![drainer] = "gone"] ELSE p

DrainTo(d) ==
  /\ d \notin started
  /\ started' = started \cup {d}
  /\ drainer' = d
  /\ dpc' = [Stopped(dpc) EXCEPT ![d] = "asleep"]
  /\ UNCHANGED <<ringVars, level, writing, written, place, astray, throws>>

StopDraining ==
  /\ drainer # NoDrainer
  /\ drainer' = NoDrainer
  /\ dpc' = Stopped(dpc)
  /\ UNCHANGED <<ringVars, level, writing, written, place, astray, started, throws>>

-----------------------------------------------------------------------------
RingNext ==
  \/ \E l \in Levels : SetLevel(l)
  \/ \E w \in Writers : Record(w) \/ \E l \in {Warn, Debug} : BeginRecord(w, l)
  \/ \E d \in Drainers : Drain(d) \/ Wake(d) \/ Accept(d) \/ SinkThrows(d) \/ DrainTo(d)
  \/ StopDraining

RingSpec == RingInit /\ [][RingNext]_logVars

(* The executor's thread runs, its delay ends and its sink returns, with   *)
(* or without throwing.                                                    *)
Fairness ==
  \A d \in Drainers : WF_logVars(Drain(d)) /\ WF_logVars(Wake(d)) /\ WF_logVars(Accept(d))

FairSpec == RingSpec /\ Fairness

-----------------------------------------------------------------------------
TypeOK ==
  /\ slot \in [Indices -> Nat]
  /\ head \in Indices
  /\ count \in 0..Slots
  /\ dropped \in Nat
  /\ level \in Off..Debug
  /\ writing \subseteq Writers
  /\ written \in Nat
  /\ place \in Nat
  /\ astray \in BOOLEAN
  /\ drainer \in Drainers \cup {NoDrainer}
  /\ started \subseteq Drainers
  /\ dpc \in [Drainers -> {"absent", "asleep", "pass", "giving", "gone"}]
  /\ throws \in Nat

(* "a gap in the log names itself instead of lying by omission": a reader  *)
(* that believes every `log_dropped` it reads meets the records exactly    *)
(* where it expects them, however the writers, the overwriting and two     *)
(* drainers at once interleave.                                            *)
GapsNameThemselves == ~astray

(* What is written and not yet drained is either waiting in the ring, in   *)
(* order from the head, or counted as dropped.                             *)
RingHoldsTheRest ==
  /\ place + dropped + count = written + 1
  /\ \A i \in 0..(count - 1) : slot[(head + i) % Slots] = place + dropped + i

(* "The ring drops its OLDEST when nobody takes them, so somebody has to   *)
(* keep taking": as long as a drainer is in force every record is drained  *)
(* or reported as dropped, even past a sink that threw.                    *)
EverythingIsDrained ==
  \A n \in 1..MaxRecords :
    (<>[](drainer # NoDrainer)) => ((written >= n) ~> (place > n))
=============================================================================
