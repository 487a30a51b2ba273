----------------------------- MODULE ParPoolInv -----------------------------
(* The inductive invariant of ParPool: what its safety properties rest on. *)
EXTENDS ParPool

(* Who holds a task: a thread between its claim and its record, and a      *)
(* caller only the task its loop stands at.                                *)
HoldInv ==
  /\ \A t \in Threads : held[t] # None <=> pc[t] \in {"claimed", "thunk"}
  /\ \A c \in Callers : held[c] # None => held[c] = <<c, index[c]>>

(* A task that is queued or held is submitted, unfinished, and of an open  *)
(* batch; and every such task is queued or held.                           *)
IsLive(x) == x[2] <= submitted[x[1]] /\ ~finished[x[1]][x[2]]

LiveInv ==
  /\ \A t \in Threads : held[t] # None => IsLive(held[t])
  /\ \A x \in Tasks : Queued(x) => IsLive(x)
  /\ \A x \in Tasks : IsLive(x) => Queued(x) \/ \E t \in Threads : held[t] = x

(* The counters of the batch.                                              *)
CountInv ==
  \A c \in Callers :
    /\ submitted[c] <= Count
    /\ submitted[c] = done[c] + outstanding[c]
    /\ outstanding[c] = Cardinality(Live(c))
    /\ outstanding[c] <= Quota
    /\ pc[c] = "drained" => outstanding[c] = 0

(* A batch is blank while it is closed, and so is an unsubmitted task.     *)
BlankInv ==
  \A c \in Callers :
    /\ ~Registered(c) => submitted[c] = 0 /\ ~stopped[c] /\ ~interrupted[c]
    /\ \A i \in Positions :
         /\ i > submitted[c] => ~finished[c][i]
         /\ ~finished[c][i] => result[c][i] = None

(* task->runner names the thread in the thunk, and nobody else.            *)
RunnerInv ==
  /\ \A c \in Callers, i \in Positions :
       runner[c][i] # None => pc[runner[c][i]] = "thunk" /\ held[runner[c][i]] = <<c, i>>
  /\ \A t \in Threads :
       pc[t] = "thunk" => \A c \in Callers, i \in Positions : held[t] = <<c, i>> => runner[c][i] = t

(* Up to where the loop stands every task is finished, unless the batch is *)
(* stopped; the one it stands at was submitted; and the loop is left at    *)
(* its end or by a stop.                                                   *)
InLoop == {"look", "parked", "woken", "regain", "claimed", "thunk"}
InDrain == {"drain", "drainParked", "drainWoken", "drained"}

LoopInv ==
  \A c \in Callers :
    /\ Registered(c) => \A j \in Positions : j < index[c] => finished[c][j] \/ stopped[c]
    /\ index[c] >= 1 /\ index[c] <= Count + 1
    /\ pc[c] = "submit" => index[c] <= submitted[c] + 1
    /\ pc[c] \in InLoop => index[c] <= submitted[c]
    /\ pc[c] = "regain" => finished[c][index[c]] \/ stopped[c]
    /\ pc[c] \in InDrain => index[c] > Count \/ stopped[c]

(* Why a batch is stopped, and what a task of one that is not looks like.  *)
StopInv ==
  \A c \in Callers :
    /\ interrupted[c] => stopped[c]
    /\ stopped[c] => interrupted[c] \/ \E i \in Positions : result[c][i] = "stop"
    /\ \A i \in Positions : finished[c][i] /\ result[c][i] = None => stopped[c]

(* An interrupt that waits in the caller or in its batch is one the block  *)
(* has not met yet.                                                        *)
SeenInv ==
  \A c \in Callers :
    IF pending[c] \/ interrupted[c] THEN seen[c] + 1 <= issued[c] ELSE seen[c] <= issued[c]

IndInv ==
  /\ TypeOK /\ HoldInv /\ ClaimedOnce /\ LiveInv /\ CountInv /\ BlankInv
  /\ RunnerInv /\ LoopInv /\ StopInv /\ SeenInv
=============================================================================
