--------------------------- MODULE SandboxProofs ---------------------------
(* Proofs about Sandbox, one part of it after the other: the stack file,   *)
(* the trusted files, the audit hook.  The parts share no variable but the *)
(* ones they read, so a step of one leaves the invariant of the others.    *)
EXTENDS Sandbox, SequenceTheorems, TLAPS

-----------------------------------------------------------------------------
(* The stack file.                                                         *)

(* What a dump writes: its identity, over and over. *)
Ids == Hosts \X Nat
Samplings == Seq(Ids)
Uniform(s) == s \in Samplings /\ Len(s) <= Samples /\ \A i, j \in DOMAIN s : s[i] = s[j]

Counters == [{"events", "confines", "ops", "stacks", "tampers"} -> Nat]

Opening == [at : {"open"}, file : Artifacts, raced : {FALSE}]
Closing == [at : {"close"}, raced : BOOLEAN]
Dumping == [at : {"truncate", "write"}, id : Ids, wrote : Nat, raced : BOOLEAN]

StackType ==
  /\ left \in Counters
  /\ stackFd \in Numbers \cup {None}
  /\ table \in [Numbers -> Artifacts \cup {None, Foreign}]
  /\ text \in [Artifacts -> Samplings \cup {None}]
  /\ call \in [Hosts -> {NoCall} \cup Opening \cup Closing \cup Dumping]

(* Every file that was ever made holds samples of one dump. *)
TextInv ==
  /\ \A a \in Artifacts : text[a] # None => Uniform(text[a])
  /\ \A n \in Numbers : table[n] \in Artifacts => Uniform(text[table[n]])

(* The lock is its holder's, and what the holder found at the number it    *)
(* still finds there unless the guest has put something else in its place. *)
CallInv(h) ==
  /\ call[h].at # "idle" => stackLock = h
  /\ call[h].at = "open" => stackFd = None
  /\ call[h].at \in {"truncate", "write", "close"} =>
       stackFd # None /\ (~call[h].raced => table[stackFd] = identity)
  /\ call[h].at = "truncate" => call[h].wrote = 0
  /\ call[h].at = "write" =>
       /\ call[h].wrote < Samples
       /\ table[stackFd] \in Artifacts =>
            /\ Len(text[table[stackFd]]) = call[h].wrote
            /\ \A i \in DOMAIN text[table[stackFd]] : text[table[stackFd]][i] = call[h].id

StackInv == StackType /\ TextInv /\ \A h \in Hosts : CallInv(h)

-----------------------------------------------------------------------------
(* The trusted files.                                                      *)

Pieces == Seq(Nat)
DiskType == disk \in [Paths -> Entry \cup {NoEntry}]

Kinds == {"copy", "move"}
WriteOps == [at : {"write"}, kind : {"write"}, from : Paths, to : Paths, whole : Pieces, buffer : Pieces,
             wrote : BOOLEAN, mode : Modes]
OpenOps == [at : {"open"}, kind : Kinds, from : Paths, to : Paths, whole : Pieces, mode : Modes]
CopyOps == [at : {"copy", "mode", "unlink"}, kind : Kinds, from : Paths, to : Paths, whole : Pieces, mode : Modes,
            read : Nat, buffer : Pieces]

(* What an operation has still to put in place is in its buffer or where   *)
(* it comes from; a copy onto itself alone has nothing to hold on to.      *)
BusyWriting == op \in WriteOps /\ op.from = op.to /\ IsFile(op.to) /\ (op.wrote => disk[op.to].data \o op.buffer = op.whole)
BusyOpening == op \in OpenOps /\ (IsFile(op.from) => disk[op.from].data = op.whole)
            /\ (op.kind = "move" => IsFile(op.from) /\ op.from # op.to)
CopiedSoFar ==
  /\ disk[op.from].data = op.whole
  /\ op.at = "copy" => op.read <= Len(op.whole) /\ disk[op.to].data \o op.buffer = SubSeq(op.whole, 1, op.read)
  /\ op.at # "copy" => disk[op.to].data = op.whole
BusyCopying == /\ op \in CopyOps /\ IsFile(op.from) /\ IsFile(op.to) /\ (op.kind = "move" => op.from # op.to)
               /\ op.from # op.to => CopiedSoFar
               /\ op.at = "unlink" => op.kind = "move"

DoneInv ==
  /\ done.kind = "move" => IF done.ok THEN Holds(done.to, done.whole) ELSE Holds(done.from, done.whole)
  /\ done.ok /\ (done.kind = "write" \/ (done.kind = "copy" /\ done.from # done.to)) => Holds(done.to, done.whole)

FsInv ==
  /\ DiskType
  /\ (op = NoOp /\ DoneInv) \/ (done = NoAnswer /\ (BusyWriting \/ BusyOpening \/ BusyCopying))

-----------------------------------------------------------------------------
(* The audit hook.                                                         *)

Lets(seen, passed, writing) == \A path \in passed : \E p \in seen : Allows(p, path, writing)
Refuses(seen, path, writing) == \E p \in seen : ~p.confined \/ ~Allows(p, path, writing)

OnItsWay(k) == k = [at |-> "path", event |-> k.event, i |-> k.i, seen |-> k.seen, passed |-> k.passed]
Looking(k) == k = [at |-> k.at, event |-> k.event, i |-> k.i, seen |-> k.seen, passed |-> k.passed,
                   path |-> k.path, roots |-> k.roots]

(* A hook's record fits the policy in force and the lock: a thread that is *)
(* comparing holds the lock, so the lists it compares with are in force.   *)
Fits(t, k, pol, holder) ==
  \/ k.at = "idle"
  \/ k.at = "path" /\ OnItsWay(k) /\ pol \in k.seen /\ Lets(k.seen, k.passed, Writing(k.event))
  \/ /\ k.at \in {"writes", "reads"} /\ Looking(k) /\ pol \in k.seen /\ Lets(k.seen, k.passed, Writing(k.event))
     /\ holder = t /\ k.roots = pol.id
     /\ k.at = "reads" => ~Writing(k.event) /\ ~Under(k.path, pol.write)
  \/ /\ k.at = "answered" /\ Lets(k.seen, k.passed, k.writing)
     /\ ~k.ok /\ k.path # None => Refuses(k.seen, k.path, k.writing)

HookInv(t) == Fits(t, hook[t], policy, lock)

HostInv(h) ==
  LET c == host[h]
  IN \/ c.at \in {"idle", "swap"}
     \/ c.at = "own" /\ c = [at |-> c.at, confined |-> c.confined, read |-> c.read, write |-> c.write]
     \/ c.at = "clear" /\ c.old \in Nat /\ c.old < policy.id

ConfineInv ==
  /\ policy.id \in Nat /\ \A i \in freed : i \in Nat /\ i < policy.id
  /\ host = [h \in Hosts |-> host[h]] /\ hook = [t \in Threads |-> hook[t]]
  /\ \A h \in Hosts : HostInv(h)
  /\ \A t \in Threads : HookInv(t)

SandboxInv == StackInv /\ FsInv /\ ConfineInv
-----------------------------------------------------------------------------
(* The stack file: proof.                                                  *)

LEMMA EmptyUniform == Uniform(<<>>) /\ <<>> \in Samplings
BY SandboxAssumption DEF Uniform, Samplings

LEMMA MoreUniform ==
  ASSUME NEW s, Uniform(s), NEW id \in Ids, \A i \in DOMAIN s : s[i] = id, Len(s) < Samples
  PROVE  /\ Uniform(Append(s, id)) /\ Append(s, id) \in Samplings
         /\ Len(Append(s, id)) = Len(s) + 1
         /\ \A i \in DOMAIN Append(s, id) : Append(s, id)[i] = id
<1>1. s \in Seq(Ids) /\ Len(s) \in Nat BY DEF Uniform, Samplings
<1>2. Append(s, id) \in Seq(Ids) /\ Len(Append(s, id)) = Len(s) + 1 BY <1>1
<1>3. ASSUME NEW i \in DOMAIN Append(s, id) PROVE Append(s, id)[i] = id
  <2>1. i \in 1..(Len(s) + 1) BY <1>1, <1>2, <1>3
  <2>2. CASE i \in 1..Len(s)
    <3>1. Append(s, id)[i] = s[i] /\ i \in DOMAIN s BY <1>1, <2>2
    <3> QED BY <3>1
  <2>3. CASE i = Len(s) + 1 BY <1>1, <2>3
  <2> QED BY <1>1, <2>1, <2>2, <2>3
<1>4. Len(s) + 1 <= Samples BY <1>1, SandboxAssumption
<1>5. \A i, j \in DOMAIN Append(s, id) : Append(s, id)[i] = Append(s, id)[j] BY <1>3
<1> QED BY <1>2, <1>3, <1>4, <1>5 DEF Uniform, Samplings

(* The plan's counters stay natural numbers. *)
LEMMA SpentType ==
  ASSUME StackType, NEW kind \in {"events", "confines", "ops", "stacks", "tampers"}, Spent(kind)
  PROVE  left' \in Counters
BY DEF StackType, Spent, Counters

(* The stack's invariant does not move with what the other parts do. *)
LEMMA StackKept ==
  ASSUME StackInv, UNCHANGED stackVars, left' \in Counters
  PROVE  StackInv'
<1>1. UNCHANGED <<stackLock, stackFd, identity, table, text, call>> BY DEF stackVars
<1>2. StackType' BY <1>1 DEF StackInv, StackType
<1>3. TextInv' BY <1>1 DEF StackInv, TextInv, Uniform
<1>4. ASSUME NEW h \in Hosts PROVE CallInv(h)' BY <1>1 DEF StackInv, CallInv
<1> QED BY <1>2, <1>3, <1>4 DEF StackInv

(* The thread that holds the lock is alone in a call. *)
LEMMA OneCaller ==
  ASSUME StackInv, NEW h \in Hosts, stackLock = h \/ stackLock = None
  PROVE  \A g \in Hosts : g # h => call[g] = NoCall
<1> SUFFICES ASSUME NEW g \in Hosts, g # h PROVE call[g] = NoCall OBVIOUS
<1>1. call[g] \in {NoCall} \cup Opening \cup Closing \cup Dumping BY DEF StackInv, StackType
<1>2. CallInv(g) BY DEF StackInv
<1>3. call[g].at = "idle" BY <1>2, ConfineAssumption DEF CallInv
<1> QED BY <1>1, <1>3 DEF Opening, Closing, Dumping

(* What a call is can be read off where it is. *)
LEMMA CallKinds ==
  ASSUME NEW c \in {NoCall} \cup Opening \cup Closing \cup Dumping
  PROVE  /\ c.at = "idle" => c = NoCall
         /\ c.at = "open" => c \in Opening
         /\ c.at = "close" => c \in Closing
         /\ c.at \in {"truncate", "write"} => c \in Dumping
<1>1. NoCall.at = "idle" BY DEF NoCall
<1>2. \A d \in Opening : d.at = "open" BY DEF Opening
<1>3. \A d \in Closing : d.at = "close" BY DEF Closing
<1>4. \A d \in Dumping : d.at \in {"truncate", "write"} BY DEF Dumping
<1> QED BY <1>1, <1>2, <1>3, <1>4

(* A call that ends leaves nobody in a call. *)
LEMMA AllReturn ==
  ASSUME StackInv, NEW h \in Hosts, stackLock = h \/ stackLock = None, call' = [call EXCEPT ![h] = NoCall]
  PROVE  /\ call' \in [Hosts -> {NoCall} \cup Opening \cup Closing \cup Dumping]
         /\ \A g \in Hosts : CallInv(g)'
<1>1. \A g \in Hosts : g # h => call[g] = NoCall BY OneCaller
<1>2. call \in [Hosts -> {NoCall} \cup Opening \cup Closing \cup Dumping] BY DEF StackInv, StackType
<1>3. \A g \in Hosts : call'[g] = NoCall BY <1>1, <1>2
<1>4. \A g \in Hosts : CallInv(g)' BY <1>3 DEF CallInv, NoCall
<1> QED BY <1>2, <1>4

(* A call that goes on, alone. *)
LEMMA OneGoesOn ==
  ASSUME StackInv, NEW h \in Hosts, stackLock = h \/ stackLock = None,
         NEW c \in Opening \cup Closing \cup Dumping, call' = [call EXCEPT ![h] = c]
  PROVE  /\ call' \in [Hosts -> {NoCall} \cup Opening \cup Closing \cup Dumping]
         /\ call'[h] = c
         /\ \A g \in Hosts : g # h => CallInv(g)'
<1>1. \A g \in Hosts : g # h => call[g] = NoCall BY OneCaller
<1>2. call \in [Hosts -> {NoCall} \cup Opening \cup Closing \cup Dumping] BY DEF StackInv, StackType
<1>3. call'[h] = c BY <1>2
<1>4. \A g \in Hosts : g # h => call'[g] = NoCall BY <1>1, <1>2
<1>5. \A g \in Hosts : g # h => CallInv(g)' BY <1>4 DEF CallInv, NoCall
<1> QED BY <1>2, <1>3, <1>5

LEMMA ConfigureChecksKeeps ==
  ASSUME StackInv, left' \in Counters,
         NEW h \in Hosts, NEW a \in Artifacts, ConfigureChecks(h, a)
  PROVE  StackInv'
<1> DEFINE c == [at |-> "open", file |-> a, raced |-> FALSE]
<1>1. /\ stackLock = None /\ stackFd = None /\ call' = [call EXCEPT ![h] = c] /\ stackLock' = h
      /\ UNCHANGED <<stackFd, identity, table, text>>
  BY DEF ConfigureChecks, MayCall, Enters
<1>2. c \in Opening BY DEF Opening
<1>3. /\ call' \in [Hosts -> {NoCall} \cup Opening \cup Closing \cup Dumping] /\ call'[h] = c
      /\ \A g \in Hosts : g # h => CallInv(g)'
  BY <1>1, <1>2, OneGoesOn
<1>4. CallInv(h)' BY <1>1, <1>3 DEF CallInv
<1>5. StackType' BY <1>1, <1>3 DEF StackInv, StackType
<1>6. TextInv' BY <1>1 DEF StackInv, TextInv
<1> QED BY <1>3, <1>4, <1>5, <1>6 DEF StackInv

LEMMA ConfigureOpensKeeps ==
  ASSUME StackInv, UNCHANGED left, NEW h \in Hosts, ConfigureOpens(h)
  PROVE  StackInv'
<1> DEFINE a == call[h].file
<1>1. PICK n \in Numbers : /\ table[n] = None /\ table' = [table EXCEPT ![n] = a]
                           /\ stackFd' = n /\ identity' = a /\ text' = [text EXCEPT ![a] = <<>>]
  BY DEF ConfigureOpens
<1>2. call[h].at = "open" /\ call' = [call EXCEPT ![h] = NoCall] /\ stackLock' = None BY DEF ConfigureOpens, Returns
<1>3. stackLock = h BY <1>2 DEF StackInv, CallInv
<1>4. a \in Artifacts
  <2>1. call[h] \in {NoCall} \cup Opening \cup Closing \cup Dumping BY DEF StackInv, StackType
  <2>2. call[h] \in Opening BY <1>2, <2>1, CallKinds
  <2> QED BY <2>2 DEF Opening
<1>5. /\ call' \in [Hosts -> {NoCall} \cup Opening \cup Closing \cup Dumping] /\ \A g \in Hosts : CallInv(g)'
  BY <1>2, <1>3, AllReturn
<1>6. StackType' BY <1>1, <1>4, <1>5, EmptyUniform DEF StackInv, StackType
<1>7. TextInv'
  <2> HIDE DEF a
  <2>1. table \in [Numbers -> Artifacts \cup {None, Foreign}] /\ text \in [Artifacts -> Samplings \cup {None}]
    BY DEF StackInv, StackType
  <2>2. text'[a] = <<>> /\ \A b \in Artifacts : b # a => text'[b] = text[b] BY <1>1, <1>4, <2>1
  <2>3. \A m \in Numbers : m # n => table'[m] = table[m] BY <1>1, <2>1
  <2>4. table'[n] = a BY <1>1, <2>1
  <2>5. ASSUME NEW b \in Artifacts, text'[b] # None PROVE Uniform(text'[b])
    BY <2>2, <2>5, EmptyUniform DEF StackInv, TextInv
  <2>6. ASSUME NEW m \in Numbers, table'[m] \in Artifacts PROVE Uniform(text'[table'[m]])
    <3>1. CASE table'[m] = a BY <2>2, <3>1, EmptyUniform
    <3>2. CASE table'[m] # a
      <4>1. table'[m] = table[m] BY <2>3, <2>4, <3>2
      <4> QED BY <2>2, <2>6, <3>2, <4>1 DEF StackInv, TextInv
    <3> QED BY <3>1, <3>2
  <2> QED BY <2>5, <2>6 DEF TextInv, Uniform
<1> QED BY <1>5, <1>6, <1>7 DEF StackInv

LEMMA FailsKeeps ==
  ASSUME StackInv, UNCHANGED left, NEW h \in Hosts, ConfigureFails(h) \/ DumpFails(h)
  PROVE  StackInv'
<1>1. call' = [call EXCEPT ![h] = NoCall] /\ UNCHANGED <<stackFd, identity, table, text>>
  BY DEF ConfigureFails, DumpFails, Returns
<1>2. call[h].at \in {"open", "truncate", "write"} BY DEF ConfigureFails, DumpFails
<1>3. stackLock = h BY <1>2 DEF StackInv, CallInv
<1>4. /\ call' \in [Hosts -> {NoCall} \cup Opening \cup Closing \cup Dumping] /\ \A g \in Hosts : CallInv(g)'
  BY <1>1, <1>3, AllReturn
<1>5. StackType' BY <1>1, <1>4 DEF StackInv, StackType
<1>6. TextInv' BY <1>1 DEF StackInv, TextInv
<1> QED BY <1>4, <1>5, <1>6 DEF StackInv

LEMMA CloseChecksKeeps ==
  ASSUME StackInv, left' \in Counters, NEW h \in Hosts, CloseChecks(h)
  PROVE  StackInv'
<1>1. MayCall(h) /\ stackFd # None /\ UNCHANGED <<identity, table, text>> BY DEF CloseChecks
<1>2. CASE Owned
  <2> DEFINE c == [at |-> "close", raced |-> FALSE]
  <2>1. call' = [call EXCEPT ![h] = c] /\ stackLock' = h /\ UNCHANGED stackFd BY <1>2 DEF CloseChecks, Enters
  <2>2. c \in Closing BY DEF Closing
  <2>3. /\ call' \in [Hosts -> {NoCall} \cup Opening \cup Closing \cup Dumping] /\ call'[h] = c
        /\ \A g \in Hosts : g # h => CallInv(g)'
    BY <1>1, <2>1, <2>2, OneGoesOn DEF MayCall
  <2>4. CallInv(h)' BY <1>1, <1>2, <2>1, <2>3 DEF CallInv, Owned
  <2>5. StackType' BY <1>1, <2>1, <2>3 DEF StackInv, StackType
  <2>6. TextInv' BY <1>1 DEF StackInv, TextInv
  <2> QED BY <2>3, <2>4, <2>5, <2>6 DEF StackInv
<1>3. CASE ~Owned
  <2>1. stackFd' = None /\ UNCHANGED <<call, stackLock>> BY <1>3 DEF CloseChecks
  <2>2. \A g \in Hosts : call'[g] = NoCall BY <1>1, <2>1, OneCaller DEF MayCall
  <2>3. \A g \in Hosts : CallInv(g)' BY <2>2 DEF CallInv, NoCall
  <2>4. StackType' BY <1>1, <2>1 DEF StackInv, StackType
  <2>5. TextInv' BY <1>1 DEF StackInv, TextInv
  <2> QED BY <2>3, <2>4, <2>5 DEF StackInv
<1> QED BY <1>2, <1>3

LEMMA DumpChecksKeeps ==
  ASSUME StackInv, left' \in Counters, NEW h \in Hosts, DumpChecks(h)
  PROVE  StackInv'
<1>1. MayCall(h) /\ stackFd # None /\ UNCHANGED <<identity, table, text>> BY DEF DumpChecks
<1>2. CASE Owned
  <2> DEFINE c == [at |-> "truncate", id |-> <<h, left.stacks>>, wrote |-> 0, raced |-> FALSE]
  <2>1. call' = [call EXCEPT ![h] = c] /\ stackLock' = h /\ UNCHANGED stackFd BY <1>2 DEF DumpChecks, Enters
  <2>2. c \in Dumping
    <3>1. left.stacks \in Nat BY DEF StackInv, StackType, Counters
    <3>2. <<h, left.stacks>> \in Ids BY <3>1 DEF Ids
    <3> QED BY <3>2 DEF Dumping
  <2>3. /\ call' \in [Hosts -> {NoCall} \cup Opening \cup Closing \cup Dumping] /\ call'[h] = c
        /\ \A g \in Hosts : g # h => CallInv(g)'
    BY <1>1, <2>1, <2>2, OneGoesOn DEF MayCall
  <2>4. CallInv(h)' BY <1>1, <1>2, <2>1, <2>3 DEF CallInv, Owned
  <2>5. StackType' BY <1>1, <2>1, <2>3 DEF StackInv, StackType
  <2>6. TextInv' BY <1>1 DEF StackInv, TextInv
  <2> QED BY <2>3, <2>4, <2>5, <2>6 DEF StackInv
<1>3. CASE ~Owned
  <2>1. stackFd' = None /\ UNCHANGED <<call, stackLock>> BY <1>3 DEF DumpChecks
  <2>2. \A g \in Hosts : call'[g] = NoCall BY <1>1, <2>1, OneCaller DEF MayCall
  <2>3. \A g \in Hosts : CallInv(g)' BY <2>2 DEF CallInv, NoCall
  <2>4. StackType' BY <1>1, <2>1 DEF StackInv, StackType
  <2>5. TextInv' BY <1>1 DEF StackInv, TextInv
  <2> QED BY <2>3, <2>4, <2>5 DEF StackInv
<1> QED BY <1>2, <1>3

LEMMA ClosesKeeps ==
  ASSUME StackInv, UNCHANGED left, NEW h \in Hosts, Closes(h)
  PROVE  StackInv'
<1>1. /\ call[h].at = "close" /\ call' = [call EXCEPT ![h] = NoCall] /\ stackFd' = None
      /\ table' = [table EXCEPT ![stackFd] = None] /\ UNCHANGED <<identity, text>>
  BY DEF Closes, Returns
<1>2. stackLock = h BY <1>1 DEF StackInv, CallInv
<1>3. /\ call' \in [Hosts -> {NoCall} \cup Opening \cup Closing \cup Dumping] /\ \A g \in Hosts : CallInv(g)'
  BY <1>1, <1>2, AllReturn
<1>4. table \in [Numbers -> Artifacts \cup {None, Foreign}] BY DEF StackInv, StackType
<1>5. StackType' BY <1>1, <1>3, <1>4 DEF StackInv, StackType
<1>6. TextInv'
  <2>1. \A n \in Numbers : table'[n] = table[n] \/ table'[n] = None BY <1>1, <1>4
  <2>2. \A n \in Numbers : table'[n] \in Artifacts => table'[n] = table[n] BY <2>1, SandboxAssumption
  <2> QED BY <1>1, <2>2 DEF StackInv, TextInv
<1> QED BY <1>3, <1>5, <1>6 DEF StackInv

LEMMA DumpTruncatesKeeps ==
  ASSUME StackInv, UNCHANGED left, NEW h \in Hosts, DumpTruncates(h)
  PROVE  StackInv'
<1>1. /\ call[h].at = "truncate" /\ stackFd # None /\ text' = Onto(table[stackFd], <<>>)
      /\ call' = [call EXCEPT ![h].at = "write"] /\ UNCHANGED <<stackLock, stackFd, identity, table>>
  BY DEF DumpTruncates
<1>2. stackLock = h /\ call[h].wrote = 0 /\ (~call[h].raced => table[stackFd] = identity)
  BY <1>1 DEF StackInv, CallInv
<1>3. call[h] \in Dumping
  <2>1. call[h] \in {NoCall} \cup Opening \cup Closing \cup Dumping BY DEF StackInv, StackType
  <2> QED BY <1>1, <2>1, CallKinds
<1>4. PICK c : c = [call[h] EXCEPT !.at = "write"] OBVIOUS
<1>5. c \in Dumping /\ c.at = "write" /\ c.wrote = 0 /\ c.id = call[h].id /\ c.raced = call[h].raced
  BY <1>2, <1>3, <1>4 DEF Dumping
<1>6. call' = [call EXCEPT ![h] = c] BY <1>1, <1>4
<1>7. /\ call' \in [Hosts -> {NoCall} \cup Opening \cup Closing \cup Dumping] /\ call'[h] = c
      /\ \A g \in Hosts : g # h => CallInv(g)'
  BY <1>2, <1>5, <1>6, OneGoesOn
<1>8. text \in [Artifacts -> Samplings \cup {None}] BY DEF StackInv, StackType
<1>9. text' \in [Artifacts -> Samplings \cup {None}] BY <1>1, <1>8, EmptyUniform DEF Onto
<1>10. ASSUME NEW a \in Artifacts PROVE IF a = table[stackFd] THEN text'[a] = <<>> ELSE text'[a] = text[a]
  BY <1>1, <1>8 DEF Onto
<1>11. CallInv(h)'
  <2>1. Samples \in Nat /\ 0 < Samples BY SandboxAssumption
  <2>2. table[stackFd] \in Artifacts => text'[table[stackFd]] = <<>> BY <1>10
  <2>3. Len(<<>>) = 0 /\ DOMAIN <<>> = {} OBVIOUS
  <2> QED BY <1>1, <1>2, <1>5, <1>7, <2>1, <2>2, <2>3 DEF CallInv
<1>12. StackType' BY <1>1, <1>7, <1>9 DEF StackInv, StackType
<1>13. TextInv'
  <2>1. \A a \in Artifacts : text'[a] # None => Uniform(text'[a]) BY <1>10, EmptyUniform DEF StackInv, TextInv
  <2>2. \A n \in Numbers : table[n] \in Artifacts => Uniform(text'[table[n]]) BY <1>10, EmptyUniform DEF StackInv, TextInv
  <2> QED BY <1>1, <2>1, <2>2 DEF TextInv, Uniform
<1> QED BY <1>7, <1>11, <1>12, <1>13 DEF StackInv

LEMMA DumpWritesKeeps ==
  ASSUME StackInv, UNCHANGED left, NEW h \in Hosts, DumpWrites(h)
  PROVE  StackInv'
<1> DEFINE f == table[stackFd]
<1>1. /\ call[h].at = "write" /\ stackFd # None /\ UNCHANGED <<stackFd, identity, table>>
      /\ text' = IF f \in Artifacts THEN Onto(f, Append(text[f], call[h].id)) ELSE text
  BY DEF DumpWrites
<1>2. /\ stackLock = h /\ (~call[h].raced => f = identity) /\ call[h].wrote < Samples
      /\ f \in Artifacts => Len(text[f]) = call[h].wrote /\ \A i \in DOMAIN text[f] : text[f][i] = call[h].id
  BY <1>1 DEF StackInv, CallInv
<1>3. call[h] \in Dumping
  <2>1. call[h] \in {NoCall} \cup Opening \cup Closing \cup Dumping BY DEF StackInv, StackType
  <2> QED BY <1>1, <2>1, CallKinds
<1>4. call[h].id \in Ids /\ call[h].wrote \in Nat BY <1>3 DEF Dumping
<1>5. stackFd \in Numbers BY <1>1 DEF StackInv, StackType
<1>6. text \in [Artifacts -> Samplings \cup {None}] BY DEF StackInv, StackType
<1>7. f \in Artifacts => Uniform(text[f]) BY <1>5 DEF StackInv, TextInv
<1>8. PICK new : new = Append(text[f], call[h].id) OBVIOUS
<1>9. f \in Artifacts =>
        /\ Uniform(new) /\ new \in Samplings /\ Len(new) = call[h].wrote + 1
        /\ \A i \in DOMAIN new : new[i] = call[h].id
  BY <1>2, <1>4, <1>7, <1>8, MoreUniform
<1>10. text' = IF f \in Artifacts THEN [text EXCEPT ![f] = new] ELSE text BY <1>1, <1>8 DEF Onto
<1> HIDE DEF f
<1>11. text' \in [Artifacts -> Samplings \cup {None}] BY <1>6, <1>9, <1>10
<1>12. \A a \in Artifacts : IF a = f THEN text'[a] = new ELSE text'[a] = text[a] BY <1>6, <1>10
<1>13. TextInv'
  <2>1. \A a \in Artifacts : text'[a] # None => Uniform(text'[a]) BY <1>9, <1>12 DEF StackInv, TextInv
  <2>2. \A n \in Numbers : table[n] \in Artifacts => Uniform(text'[table[n]]) BY <1>9, <1>12 DEF StackInv, TextInv
  <2> QED BY <1>1, <2>1, <2>2 DEF TextInv, Uniform
<1>14. CASE call[h].wrote + 1 < Samples
  <2>1. call' = [call EXCEPT ![h].wrote = @ + 1] /\ UNCHANGED stackLock BY <1>14 DEF DumpWrites
  <2>2. PICK c : c = [call[h] EXCEPT !.wrote = call[h].wrote + 1] OBVIOUS
  <2>3. c \in Dumping /\ c.at = "write" /\ c.wrote = call[h].wrote + 1 /\ c.id = call[h].id /\ c.raced = call[h].raced
    BY <1>1, <1>3, <1>4, <2>2 DEF Dumping
  <2>4. call' = [call EXCEPT ![h] = c] BY <2>1, <2>2
  <2>5. /\ call' \in [Hosts -> {NoCall} \cup Opening \cup Closing \cup Dumping] /\ call'[h] = c
        /\ \A g \in Hosts : g # h => CallInv(g)'
    BY <1>2, <2>3, <2>4, OneGoesOn
  <2>6. f \in Artifacts => text'[f] = new BY <1>12
  <2>7. CallInv(h)' BY <1>1, <1>2, <1>9, <1>14, <2>1, <2>3, <2>5, <2>6 DEF CallInv, f
  <2>8. StackType' BY <1>1, <1>11, <2>5 DEF StackInv, StackType
  <2> QED BY <1>13, <2>5, <2>7, <2>8 DEF StackInv
<1>15. CASE ~(call[h].wrote + 1 < Samples)
  <2>1. call' = [call EXCEPT ![h] = NoCall] BY <1>15 DEF DumpWrites, Returns
  <2>2. /\ call' \in [Hosts -> {NoCall} \cup Opening \cup Closing \cup Dumping] /\ \A g \in Hosts : CallInv(g)'
    BY <1>2, <2>1, AllReturn
  <2>3. StackType' BY <1>1, <1>11, <2>2 DEF StackInv, StackType
  <2> QED BY <1>13, <2>2, <2>3 DEF StackInv
<1> QED BY <1>14, <1>15

LEMMA GuestReplacesKeeps ==
  ASSUME StackInv, left' \in Counters,
         NEW n \in Numbers, NEW f \in {None, Foreign}, GuestReplaces(n, f)
  PROVE  StackInv'
<1>1. table' = [table EXCEPT ![n] = f] /\ UNCHANGED <<stackLock, stackFd, identity, text>> BY DEF GuestReplaces
<1>2. call' = [h \in Hosts |-> IF call[h].at \in {"truncate", "write", "close"}
                               THEN [call[h] EXCEPT !.raced = TRUE] ELSE call[h]]
  BY DEF GuestReplaces
<1>3. f \notin Artifacts BY SandboxAssumption
<1>4. table \in [Numbers -> Artifacts \cup {None, Foreign}] BY DEF StackInv, StackType
<1>5. \A m \in Numbers : table'[m] \in Artifacts => table'[m] = table[m] BY <1>1, <1>3, <1>4
<1>6. TextInv' BY <1>1, <1>5 DEF StackInv, TextInv
<1>7. ASSUME NEW h \in Hosts
      PROVE  call'[h] \in {NoCall} \cup Opening \cup Closing \cup Dumping /\ CallInv(h)'
  <2>1. PICK c : c = call[h] OBVIOUS
  <2>2. c \in {NoCall} \cup Opening \cup Closing \cup Dumping BY <2>1 DEF StackInv, StackType
  <2>3. CallInv(h) BY DEF StackInv
  <2>4. CASE c.at \in {"truncate", "write", "close"}
    <3>1. PICK d : d = [c EXCEPT !.raced = TRUE] OBVIOUS
    <3>2. call'[h] = d BY <1>2, <2>1, <2>4, <3>1
    <3>3. CASE c \in Closing
      <4>1. d \in Closing /\ d.at = "close" /\ d.raced = TRUE BY <3>1, <3>3 DEF Closing
      <4>2. stackLock' = h /\ stackFd' # None BY <1>1, <2>1, <2>3, <2>4 DEF CallInv
      <4> QED BY <3>2, <4>1, <4>2 DEF CallInv
    <3>4. CASE c \in Dumping
      <4>1. d \in Dumping /\ d.at = c.at /\ d.raced = TRUE /\ d.wrote = c.wrote /\ d.id = c.id BY <3>1, <3>4 DEF Dumping
      <4>2. stackLock' = h /\ stackFd' # None BY <1>1, <2>1, <2>3, <2>4 DEF CallInv
      <4>3. c.at = "truncate" => c.wrote = 0 BY <2>1, <2>3 DEF CallInv
      <4>4. stackFd' \in Numbers BY <1>1, <4>2 DEF StackInv, StackType
      <4>5. c.at = "write" =>
              /\ c.wrote < Samples
              /\ table'[stackFd'] \in Artifacts =>
                   /\ Len(text'[table'[stackFd']]) = c.wrote
                   /\ \A i \in DOMAIN text'[table'[stackFd']] : text'[table'[stackFd']][i] = c.id
        <5>1. table'[stackFd'] \in Artifacts => table'[stackFd'] = table[stackFd] BY <1>1, <1>5, <4>4
        <5> QED BY <1>1, <2>1, <2>3, <5>1 DEF CallInv
      <4>6. d.at \in {"truncate", "write"} BY <4>1, <3>4 DEF Dumping
      <4> QED BY <3>2, <4>1, <4>2, <4>3, <4>5, <4>6 DEF CallInv
    <3>5. c \in Closing \/ c \in Dumping BY <2>2, <2>4, CallKinds
    <3> QED BY <3>3, <3>4, <3>5
  <2>5. CASE c.at \notin {"truncate", "write", "close"}
    <3>1. call'[h] = c BY <1>2, <2>1, <2>5
    <3>2. CallInv(h)' BY <1>1, <2>1, <2>3, <2>5, <3>1 DEF CallInv
    <3> QED BY <2>2, <3>1, <3>2
  <2> QED BY <2>4, <2>5
<1>8. call' \in [Hosts -> {NoCall} \cup Opening \cup Closing \cup Dumping] BY <1>2, <1>7
<1>9. StackType' BY <1>1, <1>4, <1>8 DEF StackInv, StackType
<1> QED BY <1>6, <1>7, <1>9 DEF StackInv

LEMMA StackInit == Init => StackInv
<1> SUFFICES ASSUME Init PROVE StackInv OBVIOUS
<1>1. left \in Counters BY SandboxAssumption DEF Init, Counters
<1>2. StackType BY <1>1 DEF Init, StackType
<1>3. \A n \in Numbers : table[n] = None BY DEF Init
<1>4. \A a \in Artifacts : text[a] = None BY DEF Init
<1>5. TextInv BY <1>3, <1>4, SandboxAssumption DEF TextInv
<1>6. ASSUME NEW h \in Hosts PROVE CallInv(h)
  <2>1. call[h] = NoCall BY DEF Init
  <2> QED BY <2>1 DEF CallInv, NoCall
<1> QED BY <1>2, <1>5, <1>6 DEF StackInv

LEMMA StackStep == StackInv /\ [Next]_vars => StackInv'
<1> SUFFICES ASSUME StackInv, [Next]_vars PROVE StackInv' OBVIOUS
<1> DEFINE LeftType == left \in Counters
<1>1. LeftType /\ StackType BY DEF StackInv, StackType
<1>2. CASE UNCHANGED vars
  <2>1. UNCHANGED stackVars /\ UNCHANGED left BY <1>2 DEF vars
  <2> QED BY <1>1, <2>1, StackKept
<1>3. CASE \E ends \in {"hook", "guard", "well"} : Initialize(ends)
  <2>1. UNCHANGED stackVars /\ UNCHANGED left BY <1>3 DEF Initialize
  <2> QED BY <1>1, <2>1, StackKept
<1>4. CASE ConfineStart
  <2>1. UNCHANGED stackVars BY <1>4 DEF ConfineStart, Elsewhere
  <2>2. Spent("confines") \/ Spent("events") BY <1>4 DEF ConfineStart
  <2>3. LeftType' BY <1>1, <2>2, SpentType
  <2> QED BY <2>1, <2>3, StackKept
<1>5. CASE \E h \in Hosts : ConfineStep(h)
  <2>1. UNCHANGED stackVars /\ UNCHANGED left BY <1>5 DEF ConfineStep, Elsewhere
  <2> QED BY <1>1, <2>1, StackKept
<1>6. CASE \E t \in Threads : HookStep(t)
  <2>1. UNCHANGED stackVars /\ UNCHANGED left BY <1>6 DEF HookStep, Elsewhere
  <2> QED BY <1>1, <2>1, StackKept
<1>7. CASE FsNext
  <2>1. UNCHANGED stackVars /\ Spent("ops") BY <1>7 DEF FsNext
  <2>2. LeftType' BY <1>1, <2>1, SpentType
  <2> QED BY <2>1, <2>2, StackKept
<1>8. CASE FsStep
  <2>1. UNCHANGED stackVars /\ UNCHANGED left BY <1>8 DEF FsStep
  <2> QED BY <1>1, <2>1, StackKept
<1>9. CASE StackNext
  <2>1. CASE \E h \in Hosts : Spent("stacks") /\ (CloseChecks(h) \/ DumpChecks(h) \/ \E a \in Artifacts : ConfigureChecks(h, a))
    <3>1. LeftType' BY <1>1, <2>1, SpentType
    <3> QED BY <2>1, <3>1, CloseChecksKeeps, DumpChecksKeeps, ConfigureChecksKeeps
  <2>2. CASE \E h \in Hosts : /\ UNCHANGED left
                              /\ \/ ConfigureOpens(h) \/ ConfigureFails(h) \/ Closes(h)
                                 \/ DumpTruncates(h) \/ DumpWrites(h) \/ DumpFails(h)
    BY <2>2, ConfigureOpensKeeps, FailsKeeps, ClosesKeeps, DumpTruncatesKeeps, DumpWritesKeeps
  <2>3. CASE Spent("tampers") /\ \E n \in Numbers, f \in {None, Foreign} : GuestReplaces(n, f)
    <3>1. LeftType' BY <1>1, <2>3, SpentType
    <3> QED BY <2>3, <3>1, GuestReplacesKeeps
  <2> QED BY <1>9, <2>1, <2>2, <2>3 DEF StackNext
<1> QED BY <1>2, <1>3, <1>4, <1>5, <1>6, <1>7, <1>8, <1>9 DEF Next

-----------------------------------------------------------------------------
(* The audit hook: proof.                                                  *)

LEMMA LetsMore ==
  ASSUME NEW seen, NEW passed, NEW w, Lets(seen, passed, w)
  PROVE  /\ \A p : Lets(seen \cup {p}, passed, w)
         /\ Lets(seen, passed \cup {}, w)
         /\ \A path : (\E p \in seen : Allows(p, path, w)) => Lets(seen, passed \cup {path}, w)
BY DEF Lets

(* The lock matters to the thread that compares, and to nobody else. *)
LEMMA OtherFits ==
  ASSUME NEW u, NEW k, NEW pol, NEW l, NEW m, Fits(u, k, pol, l), l # u
  PROVE  Fits(u, k, pol, m)
BY DEF Fits

LEMMA PassedFits ==
  ASSUME NEW t \in Threads, policy \in hook[t].seen, NEW paths, NEW l,
         Lets(hook[t].seen, hook[t].passed \cup paths, Writing(hook[t].event))
  PROVE  Fits(t, Passed(t, paths), policy, l)
<1>1. PICK k : k = hook[t] OBVIOUS
<1>2. PICK ps : ps = k.passed \cup paths OBVIOUS
<1>3. Lets(k.seen, ps, Writing(k.event)) /\ policy \in k.seen BY <1>1, <1>2
<1>4. CASE k.i = Len(k.event.args)
  <2>1. PICK r : r = [at |-> "answered", ok |-> TRUE, path |-> None, writing |-> Writing(k.event),
                      passed |-> ps, seen |-> k.seen] OBVIOUS
  <2>2. Passed(t, paths) = r BY <1>1, <1>2, <1>4, <2>1 DEF Passed, Answer
  <2>3. r.at = "answered" /\ r.path = None /\ r.seen = k.seen /\ r.passed = ps /\ r.writing = Writing(k.event) BY <2>1
  <2>4. Lets(r.seen, r.passed, r.writing) BY <1>3, <2>3
  <2>5. Fits(t, r, policy, l) BY <2>3, <2>4 DEF Fits
  <2> QED BY <2>2, <2>5
<1>5. CASE k.i # Len(k.event.args)
  <2>1. PICK r : r = [at |-> "path", event |-> k.event, i |-> k.i + 1, seen |-> k.seen, passed |-> ps] OBVIOUS
  <2>2. Passed(t, paths) = r BY <1>1, <1>2, <1>5, <2>1 DEF Passed
  <2>3. r.at = "path" /\ r.seen = k.seen /\ r.passed = ps /\ r.event = k.event /\ r.i = k.i + 1 BY <2>1
  <2>4. OnItsWay(r) BY <2>1, <2>3 DEF OnItsWay
  <2>5. Lets(r.seen, r.passed, Writing(r.event)) /\ policy \in r.seen BY <1>3, <2>3
  <2>6. Fits(t, r, policy, l) BY <2>3, <2>4, <2>5 DEF Fits
  <2> QED BY <2>2, <2>6
<1> QED BY <1>4, <1>5

LEMMA RefusedFits ==
  ASSUME NEW t \in Threads, NEW path, NEW l,
         Lets(hook[t].seen, hook[t].passed, Writing(hook[t].event)),
         path # None => Refuses(hook[t].seen, path, Writing(hook[t].event))
  PROVE  Fits(t, Refused(t, path), policy, l)
<1>1. PICK k : k = hook[t] OBVIOUS
<1>2. PICK r : r = [at |-> "answered", ok |-> FALSE, path |-> path, writing |-> Writing(k.event),
                    passed |-> k.passed, seen |-> k.seen] OBVIOUS
<1>3. Refused(t, path) = r BY <1>1, <1>2 DEF Refused, Answer
<1>4. r.at = "answered" /\ r.path = path /\ r.seen = k.seen /\ r.passed = k.passed /\ r.writing = Writing(k.event) BY <1>2
<1>5. Lets(r.seen, r.passed, r.writing) BY <1>1, <1>4
<1>6. r.path # None => Refuses(r.seen, r.path, r.writing) BY <1>1, <1>4
<1>7. Fits(t, r, policy, l) BY <1>4, <1>5, <1>6 DEF Fits
<1> QED BY <1>3, <1>7

(* A step that moves one thread's hook, and the lock between it and nobody. *)
LEMMA HookMoves ==
  ASSUME ConfineInv, UNCHANGED <<policy, host, freed>>, NEW t \in Threads, NEW r, hook' = [hook EXCEPT ![t] = r],
         Fits(t, r, policy, lock'), lock' = lock \/ lock \in {t, None}
  PROVE  ConfineInv'
<1>1. hook = [u \in Threads |-> hook[u]] BY DEF ConfineInv
<1>2. hook'[t] = r /\ \A u \in Threads : u # t => hook'[u] = hook[u] BY <1>1
<1>3. hook' = [u \in Threads |-> hook'[u]] BY <1>1
<1>4. ASSUME NEW u \in Threads PROVE HookInv(u)'
  <2>1. CASE u = t BY <1>2, <2>1 DEF HookInv
  <2>2. CASE u # t
    <3>1. Fits(u, hook[u], policy, lock) BY DEF ConfineInv, HookInv
    <3>2. Fits(u, hook[u], policy, lock') BY <2>2, <3>1, OtherFits, ConfineAssumption
    <3> QED BY <1>2, <2>2, <3>2 DEF HookInv
  <2> QED BY <2>1, <2>2
<1>5. \A h \in Hosts : HostInv(h)' BY DEF ConfineInv, HostInv
<1> QED BY <1>3, <1>4, <1>5 DEF ConfineInv

LEMMA BeginKeeps ==
  ASSUME ConfineInv, NEW t \in Threads, NEW e, Begin(t, e)
  PROVE  ConfineInv'
<1>1. UNCHANGED <<policy, lock, host, freed>> BY DEF Begin
<1>2. PICK ok : ok = ~((e.kind = "network" /\ ~net) \/ (policy.confined /\ e.kind \in {"process", "native"})) OBVIOUS
<1>3. PICK a : a = [at |-> "path", event |-> e, i |-> 1, seen |-> {policy}, passed |-> {}] OBVIOUS
<1>4. PICK b : b = Answer(ok, None, FALSE, {}, {policy}) OBVIOUS
<1>5. hook' = [hook EXCEPT ![t] = a] \/ hook' = [hook EXCEPT ![t] = b] BY <1>2, <1>3, <1>4 DEF Begin
<1>6. \A w : Lets({policy}, {}, w) BY DEF Lets
<1>7. Fits(t, a, policy, lock')
  <2>1. a.at = "path" /\ a.seen = {policy} /\ a.passed = {} /\ a.event = e /\ a.i = 1 BY <1>3
  <2>2. OnItsWay(a) BY <1>3, <2>1 DEF OnItsWay
  <2>3. policy \in a.seen /\ Lets(a.seen, a.passed, Writing(a.event)) BY <1>6, <2>1
  <2> QED BY <2>1, <2>2, <2>3 DEF Fits
<1>8. Fits(t, b, policy, lock')
  <2>1. b.at = "answered" /\ b.path = None /\ b.seen = {policy} /\ b.passed = {} BY <1>4 DEF Answer
  <2>2. Lets(b.seen, b.passed, b.writing) BY <1>6, <2>1
  <2> QED BY <2>1, <2>2 DEF Fits
<1> QED BY <1>1, <1>5, <1>7, <1>8, HookMoves

LEMMA ResolveKeeps ==
  ASSUME ConfineInv, NEW t \in Threads, Resolve(t)
  PROVE  ConfineInv'
<1>1. PICK k : k = hook[t] OBVIOUS
<1>2. k.at = "path" /\ UNCHANGED <<policy, host, freed>> BY <1>1 DEF Resolve
<1>3. Fits(t, k, policy, lock) BY <1>1 DEF ConfineInv, HookInv
<1>4. policy \in k.seen /\ Lets(k.seen, k.passed, Writing(k.event)) BY <1>2, <1>3 DEF Fits
<1>5. PICK path : path = IF k.event.args[k.i].is = "name" THEN Canonical(k.event.args[k.i].name) ELSE None OBVIOUS
<1>6. CASE path = None
  <2>1. UNCHANGED lock BY <1>1, <1>5, <1>6 DEF Resolve
  <2>2. hook' = [hook EXCEPT ![t] = Passed(t, {})] \/ hook' = [hook EXCEPT ![t] = Refused(t, None)]
    BY <1>1, <1>5, <1>6 DEF Resolve
  <2>3. Fits(t, Passed(t, {}), policy, lock') BY <1>1, <1>4, LetsMore, PassedFits
  <2>4. Fits(t, Refused(t, None), policy, lock') BY <1>1, <1>4, RefusedFits
  <2> QED BY <1>2, <2>1, <2>2, <2>3, <2>4, HookMoves
<1>7. CASE path # None
  <2>1. lock = None /\ lock' = t BY <1>1, <1>5, <1>7 DEF Resolve
  <2>2. PICK r : r = [at |-> "writes", event |-> k.event, i |-> k.i, seen |-> k.seen, passed |-> k.passed,
                      path |-> path, roots |-> policy.id] OBVIOUS
  <2>3. hook' = [hook EXCEPT ![t] = r] BY <1>1, <1>5, <1>7, <2>2 DEF Resolve
  <2>4. /\ r.at = "writes" /\ r.event = k.event /\ r.i = k.i /\ r.seen = k.seen /\ r.passed = k.passed
        /\ r.path = path /\ r.roots = policy.id BY <2>2
  <2>5. Looking(r) BY <2>2, <2>4 DEF Looking
  <2>6. policy \in r.seen /\ Lets(r.seen, r.passed, Writing(r.event)) BY <1>4, <2>4
  <2>7. Fits(t, r, policy, lock') BY <2>1, <2>4, <2>5, <2>6 DEF Fits
  <2> QED BY <1>2, <2>1, <2>3, <2>7, HookMoves
<1> QED BY <1>6, <1>7

LEMMA CompareWritesKeeps ==
  ASSUME ConfineInv, NEW t \in Threads, CompareWrites(t)
  PROVE  ConfineInv'
<1>1. PICK k : k = hook[t] OBVIOUS
<1>2. k.at = "writes" /\ UNCHANGED <<policy, host, freed>> BY <1>1 DEF CompareWrites
<1>3. Fits(t, k, policy, lock) BY <1>1 DEF ConfineInv, HookInv
<1>4. /\ policy \in k.seen /\ Lets(k.seen, k.passed, Writing(k.event)) /\ Looking(k) /\ lock = t /\ k.roots = policy.id
  BY <1>2, <1>3 DEF Fits
<1>5. CASE Under(k.path, policy.write)
  <2>1. lock' = None /\ hook' = [hook EXCEPT ![t] = Passed(t, {k.path})] BY <1>1, <1>5 DEF CompareWrites
  <2>2. Allows(policy, k.path, Writing(k.event)) BY <1>5 DEF Allows
  <2>3. Lets(k.seen, k.passed \cup {k.path}, Writing(k.event)) BY <1>4, <2>2, LetsMore
  <2>4. Fits(t, Passed(t, {k.path}), policy, lock') BY <1>1, <1>4, <2>3, PassedFits
  <2> QED BY <1>2, <1>4, <2>1, <2>4, HookMoves
<1>6. CASE ~Under(k.path, policy.write) /\ Writing(k.event)
  <2>1. lock' = None /\ hook' = [hook EXCEPT ![t] = Refused(t, k.path)] BY <1>1, <1>6 DEF CompareWrites
  <2>2. Refuses(k.seen, k.path, Writing(k.event)) BY <1>4, <1>6 DEF Refuses, Allows
  <2>3. Fits(t, Refused(t, k.path), policy, lock') BY <1>1, <1>4, <2>2, RefusedFits
  <2> QED BY <1>2, <1>4, <2>1, <2>3, HookMoves
<1>7. CASE ~Under(k.path, policy.write) /\ ~Writing(k.event)
  <2>1. PICK r : r = [k EXCEPT !.at = "reads"] OBVIOUS
  <2>2. lock' = lock /\ hook' = [hook EXCEPT ![t] = r] BY <1>1, <1>7, <2>1 DEF CompareWrites
  <2>3. r = [at |-> "reads", event |-> k.event, i |-> k.i, seen |-> k.seen, passed |-> k.passed,
             path |-> k.path, roots |-> k.roots] BY <1>4, <2>1 DEF Looking
  <2>4. /\ r.at = "reads" /\ r.event = k.event /\ r.i = k.i /\ r.seen = k.seen /\ r.passed = k.passed
        /\ r.path = k.path /\ r.roots = k.roots BY <2>3
  <2>5. Looking(r) BY <2>3, <2>4 DEF Looking
  <2>6. policy \in r.seen /\ Lets(r.seen, r.passed, Writing(r.event)) BY <1>4, <2>4
  <2>7. Fits(t, r, policy, lock') BY <1>4, <1>7, <2>2, <2>4, <2>5, <2>6 DEF Fits
  <2> QED BY <1>2, <2>2, <2>7, HookMoves
<1> QED BY <1>5, <1>6, <1>7

LEMMA CompareReadsKeeps ==
  ASSUME ConfineInv, NEW t \in Threads, CompareReads(t)
  PROVE  ConfineInv'
<1>1. PICK k : k = hook[t] OBVIOUS
<1>2. k.at = "reads" /\ UNCHANGED <<policy, host, freed>> /\ lock' = None BY <1>1 DEF CompareReads
<1>3. Fits(t, k, policy, lock) BY <1>1 DEF ConfineInv, HookInv
<1>4. /\ policy \in k.seen /\ Lets(k.seen, k.passed, Writing(k.event)) /\ lock = t
      /\ ~Writing(k.event) /\ ~Under(k.path, policy.write)
  BY <1>2, <1>3 DEF Fits
<1>5. CASE Under(k.path, policy.read)
  <2>1. hook' = [hook EXCEPT ![t] = Passed(t, {k.path})] BY <1>1, <1>5 DEF CompareReads
  <2>2. Allows(policy, k.path, Writing(k.event)) BY <1>4, <1>5 DEF Allows
  <2>3. Lets(k.seen, k.passed \cup {k.path}, Writing(k.event)) BY <1>4, <2>2, LetsMore
  <2>4. Fits(t, Passed(t, {k.path}), policy, lock') BY <1>1, <1>4, <2>3, PassedFits
  <2> QED BY <1>2, <1>4, <2>1, <2>4, HookMoves
<1>6. CASE ~Under(k.path, policy.read)
  <2>1. hook' = [hook EXCEPT ![t] = Refused(t, k.path)] BY <1>1, <1>6 DEF CompareReads
  <2>2. Refuses(k.seen, k.path, Writing(k.event)) BY <1>4, <1>6 DEF Refuses, Allows
  <2>3. Fits(t, Refused(t, k.path), policy, lock') BY <1>1, <1>4, <2>2, RefusedFits
  <2> QED BY <1>2, <1>4, <2>1, <2>3, HookMoves
<1> QED BY <1>5, <1>6

(* A host's own step: the hooks and the policy stay. *)
LEMMA HostMoves ==
  ASSUME ConfineInv, UNCHANGED <<policy, lock, hook>>, NEW h \in Hosts, NEW c, host' = [host EXCEPT ![h] = c],
         \A i \in freed' : i \in Nat /\ i < policy.id,
         \/ c.at \in {"idle", "swap"}
         \/ c.at = "own" /\ c = [at |-> c.at, confined |-> c.confined, read |-> c.read, write |-> c.write]
  PROVE  ConfineInv'
<1>1. host = [g \in Hosts |-> host[g]] BY DEF ConfineInv
<1>2. host'[h] = c /\ \A g \in Hosts : g # h => host'[g] = host[g] BY <1>1
<1>3. host' = [g \in Hosts |-> host'[g]] BY <1>1
<1>4. ASSUME NEW g \in Hosts PROVE HostInv(g)'
  <2>1. CASE g = h BY <1>2, <2>1 DEF HostInv
  <2>2. CASE g # h BY <1>2, <2>2 DEF ConfineInv, HostInv
  <2> QED BY <2>1, <2>2
<1>5. \A t \in Threads : HookInv(t)' BY DEF ConfineInv, HookInv
<1> QED BY <1>3, <1>4, <1>5 DEF ConfineInv

LEMMA AssembleKeeps ==
  ASSUME ConfineInv, NEW h \in Hosts, NEW r, Assemble(h, r)
  PROVE  ConfineInv'
<1>1. PICK x : x = (r.read # <<>> \/ r.write # <<>>) OBVIOUS
<1>2. PICK a : a = RootsSet({}, r.read) OBVIOUS
<1>3. PICK b : b = RootsSet({}, r.write) OBVIOUS
<1>4. PICK c : c = [at |-> "own", confined |-> x, read |-> a, write |-> b] OBVIOUS
<1>5. host' = [host EXCEPT ![h] = c] /\ UNCHANGED <<policy, lock, freed, hook>> BY <1>1, <1>2, <1>3, <1>4 DEF Assemble
<1>6. c.at = "own" /\ c.confined = x /\ c.read = a /\ c.write = b BY <1>4
<1>7. c = [at |-> c.at, confined |-> c.confined, read |-> c.read, write |-> c.write] BY <1>4, <1>6
<1>8. \A i \in freed' : i \in Nat /\ i < policy.id BY <1>5 DEF ConfineInv
<1> QED BY <1>5, <1>6, <1>7, <1>8, HostMoves

LEMMA AddOwnRootsKeeps ==
  ASSUME ConfineInv, NEW h \in Hosts, AddOwnRoots(h)
  PROVE  ConfineInv'
<1>1. PICK d : d = host[h] OBVIOUS
<1>2. d.at = "own" /\ UNCHANGED <<policy, lock, freed, hook>> BY <1>1 DEF AddOwnRoots
<1>3. HostInv(h) BY DEF ConfineInv
<1>4. d = [at |-> d.at, confined |-> d.confined, read |-> d.read, write |-> d.write] BY <1>1, <1>2, <1>3 DEF HostInv
<1>5. PICK a : a = RootsSet(d.read, (IF python THEN Installed ELSE <<>>) \o Readable) OBVIOUS
<1>6. PICK b : b = RootsSet(d.write, <<Pycache>> \o Writable) OBVIOUS
<1>7. PICK c : c = IF ~d.confined THEN [d EXCEPT !.at = "swap"] ELSE [d EXCEPT !.at = "swap", !.read = a, !.write = b]
  OBVIOUS
<1>8. host' = [host EXCEPT ![h] = c] BY <1>1, <1>5, <1>6, <1>7 DEF AddOwnRoots
<1>9. c.at = "swap" BY <1>4, <1>7
<1>10. \A i \in freed' : i \in Nat /\ i < policy.id BY <1>2 DEF ConfineInv
<1> QED BY <1>2, <1>8, <1>9, <1>10, HostMoves

LEMMA ClearKeeps ==
  ASSUME ConfineInv, NEW h \in Hosts, Clear(h)
  PROVE  ConfineInv'
<1>1. host[h].at = "clear" /\ freed' = freed \cup {host[h].old} /\ host' = [host EXCEPT ![h] = NoCall]
      /\ UNCHANGED <<policy, lock, hook>>
  BY DEF Clear
<1>2. HostInv(h) BY DEF ConfineInv
<1>3. host[h].old \in Nat /\ host[h].old < policy.id BY <1>1, <1>2 DEF HostInv
<1>4. \A i \in freed' : i \in Nat /\ i < policy.id BY <1>1, <1>3 DEF ConfineInv
<1>5. NoCall.at = "idle" BY DEF NoCall
<1> QED BY <1>1, <1>4, <1>5, HostMoves

(* The policy is replaced while nobody compares, and everybody who is on   *)
(* the way has seen the new one.                                           *)
LEMMA SwapKeeps ==
  ASSUME ConfineInv, NEW h \in Hosts, Swap(h)
  PROVE  ConfineInv'
<1>1. PICK next : next = [id |-> policy.id + 1, confined |-> host[h].confined, read |-> host[h].read,
                          write |-> host[h].write] OBVIOUS
<1>2. PICK c : c = [at |-> "clear", old |-> policy.id] OBVIOUS
<1>3. /\ lock = None /\ policy' = next /\ host' = [host EXCEPT ![h] = c] /\ UNCHANGED <<lock, freed>>
      /\ hook' = [t \in Threads |-> IF hook[t].at \in {"idle", "answered"} THEN hook[t]
                                    ELSE [hook[t] EXCEPT !.seen = @ \cup {next}]]
  BY <1>1, <1>2 DEF Swap
<1>4. policy.id \in Nat BY DEF ConfineInv
<1>5. policy'.id = policy.id + 1 BY <1>1, <1>3
<1>6. policy'.id \in Nat /\ policy.id < policy'.id BY <1>4, <1>5
<1>7. \A i \in freed' : i \in Nat /\ i < policy'.id
  <2>1. \A i \in freed : i \in Nat /\ i < policy.id BY DEF ConfineInv
  <2> QED BY <1>3, <1>4, <1>6, <2>1
<1>8. host = [g \in Hosts |-> host[g]] BY DEF ConfineInv
<1>9. ASSUME NEW g \in Hosts PROVE HostInv(g)'
  <2>1. CASE g = h
    <3>1. host'[g] = c BY <1>3, <1>8, <2>1
    <3>2. c.at = "clear" /\ c.old = policy.id BY <1>2
    <3> QED BY <1>4, <1>6, <3>1, <3>2 DEF HostInv
  <2>2. CASE g # h
    <3>1. host'[g] = host[g] BY <1>3, <1>8, <2>2
    <3>2. HostInv(g) BY DEF ConfineInv
    <3>3. host[g].old \in Nat /\ host[g].old < policy.id => host[g].old < policy'.id BY <1>4, <1>6
    <3> QED BY <3>1, <3>2, <3>3 DEF HostInv
  <2> QED BY <2>1, <2>2
<1>10. ASSUME NEW t \in Threads PROVE HookInv(t)'
  <2>1. PICK k : k = hook[t] OBVIOUS
  <2>2. Fits(t, k, policy, None) BY <1>3, <2>1 DEF ConfineInv, HookInv
  <2>3. CASE k.at \in {"idle", "answered"}
    <3>1. hook'[t] = k BY <1>3, <2>1, <2>3
    <3>2. Fits(t, k, next, None) BY <2>2, <2>3 DEF Fits
    <3> QED BY <1>3, <3>1, <3>2 DEF HookInv
  <2>4. CASE k.at \notin {"idle", "answered"}
    <3>1. k.at = "path" /\ OnItsWay(k) /\ Lets(k.seen, k.passed, Writing(k.event))
      BY <2>2, <2>4, ConfineAssumption DEF Fits
    <3>2. PICK s : s = k.seen \cup {next} OBVIOUS
    <3>3. PICK r : r = [k EXCEPT !.seen = s] OBVIOUS
    <3>4. hook'[t] = r BY <1>3, <2>1, <2>4, <3>2, <3>3
    <3>5. r = [at |-> "path", event |-> k.event, i |-> k.i, seen |-> s, passed |-> k.passed]
      BY <3>1, <3>3 DEF OnItsWay
    <3>6. r.at = "path" /\ r.event = k.event /\ r.i = k.i /\ r.seen = s /\ r.passed = k.passed BY <3>5
    <3>7. OnItsWay(r) BY <3>5, <3>6 DEF OnItsWay
    <3>8. Lets(s, k.passed, Writing(k.event)) BY <3>1, <3>2, LetsMore
    <3>9. next \in r.seen /\ Lets(r.seen, r.passed, Writing(r.event)) BY <3>2, <3>6, <3>8
    <3>10. Fits(t, r, next, None) BY <3>6, <3>7, <3>9 DEF Fits
    <3> QED BY <1>3, <3>4, <3>10 DEF HookInv
  <2> QED BY <2>3, <2>4
<1>11. host' = [g \in Hosts |-> host'[g]] BY <1>3, <1>8
<1>12. hook' = [t \in Threads |-> hook'[t]] BY <1>3
<1> QED BY <1>6, <1>7, <1>9, <1>10, <1>11, <1>12 DEF ConfineInv

LEMMA ConfineKept ==
  ASSUME ConfineInv, UNCHANGED <<policy, lock, host, freed, hook>>
  PROVE  ConfineInv'
<1>1. \A h \in Hosts : HostInv(h)' BY DEF ConfineInv, HostInv
<1>2. \A t \in Threads : HookInv(t)' BY DEF ConfineInv, HookInv
<1> QED BY <1>1, <1>2 DEF ConfineInv

LEMMA ConfineInit == Init => ConfineInv
<1> SUFFICES ASSUME Init PROVE ConfineInv OBVIOUS
<1>1. policy.id = 0 /\ freed = {} BY DEF Init, NoPolicy
<1>2. \A h \in Hosts : host[h].at = "idle" BY DEF Init, NoCall
<1>3. \A t \in Threads : hook[t].at = "idle" BY DEF Init, Quiet
<1>4. host = [h \in Hosts |-> host[h]] /\ hook = [t \in Threads |-> hook[t]] BY DEF Init
<1>5. \A h \in Hosts : HostInv(h) BY <1>2 DEF HostInv
<1>6. \A t \in Threads : HookInv(t) BY <1>3 DEF HookInv, Fits
<1> QED BY <1>1, <1>4, <1>5, <1>6 DEF ConfineInv

LEMMA ConfineNext == ConfineInv /\ [Next]_vars => ConfineInv'
<1> SUFFICES ASSUME ConfineInv, [Next]_vars PROVE ConfineInv' OBVIOUS
<1>1. CASE UNCHANGED <<policy, lock, host, freed, hook>> BY <1>1, ConfineKept
<1>2. CASE UNCHANGED confineVars BY <1>1, <1>2 DEF confineVars
<1>3. CASE ConfineStart
  <2>1. CASE \E h \in Hosts : \E r \in Requests : Assemble(h, r) BY <2>1, AssembleKeeps
  <2>2. CASE \E h \in Hosts : \E want \in BOOLEAN : Network(h, want) BY <1>1, <2>2 DEF Network
  <2>3. CASE \E t \in Threads : \E e \in Events : Begin(t, e) BY <2>3, BeginKeeps
  <2> QED BY <1>3, <2>1, <2>2, <2>3 DEF ConfineStart
<1>4. CASE \E h \in Hosts : ConfineStep(h) BY <1>4, AddOwnRootsKeeps, SwapKeeps, ClearKeeps DEF ConfineStep
<1>5. CASE \E t \in Threads : HookStep(t) BY <1>5, ResolveKeeps, CompareWritesKeeps, CompareReadsKeeps DEF HookStep
<1>6. CASE \E ends \in {"hook", "guard", "well"} : Initialize(ends) BY <1>1, <1>6 DEF Initialize
<1>7. CASE FsNext BY <1>2, <1>7 DEF FsNext
<1>8. CASE FsStep BY <1>2, <1>8 DEF FsStep
<1>9. CASE StackNext BY <1>2, <1>9 DEF StackNext
<1>10. CASE UNCHANGED vars BY <1>2, <1>10 DEF vars
<1> QED BY <1>3, <1>4, <1>5, <1>6, <1>7, <1>8, <1>9, <1>10 DEF Next

-----------------------------------------------------------------------------
(* The trusted files: proof.                                               *)

LEMMA ThreePieces ==
  ASSUME NEW a \in Seq(Nat), NEW b \in Seq(Nat), NEW c \in Seq(Nat)
  PROVE  (a \o b) \o c = a \o (b \o c)
BY ConcatAssociative

(* What was read so far grows by the next piece. *)
LEMMA NextPiece ==
  ASSUME NEW w \in Pieces, NEW d \in Pieces, NEW b \in Pieces, NEW r \in Nat, r < Len(w), d \o b = SubSeq(w, 1, r)
  PROVE  w[r + 1] \in Nat /\ Append(b, w[r + 1]) \in Pieces /\ d \o Append(b, w[r + 1]) = SubSeq(w, 1, r + 1)
<1>1. Len(w) \in Nat /\ r + 1 \in 1..Len(w) BY DEF Pieces
<1>2. PICK x \in Nat : x = w[r + 1] BY <1>1, ElementOfSeq DEF Pieces
<1>3. Append(b, x) = b \o <<x>> /\ <<x>> \in Seq(Nat) /\ Append(b, x) \in Seq(Nat) BY AppendIsConcat DEF Pieces
<1>4. d \o (b \o <<x>>) = (d \o b) \o <<x>>
  <2>1. PICK y : y = <<x>> OBVIOUS
  <2>2. y \in Seq(Nat) BY <1>3, <2>1
  <2>3. d \in Seq(Nat) /\ b \in Seq(Nat) BY DEF Pieces
  <2>4. d \o (b \o y) = (d \o b) \o y BY <2>2, <2>3, ThreePieces
  <2> QED BY <2>1, <2>4
<1>5. SubSeq(w, 1, r + 1) = SubSeq(w, 1, (r + 1) - 1) \o <<w[r + 1]>>
  <2>1. 1 \in 1..Len(w) /\ r + 1 \in 1..Len(w) BY <1>1
  <2> QED BY <2>1, SubSeqRecursiveSecond DEF Pieces
<1>6. (r + 1) - 1 = r OBVIOUS
<1>7. d \o Append(b, x) = SubSeq(w, 1, r + 1) BY <1>2, <1>3, <1>4, <1>5, <1>6
<1> QED BY <1>2, <1>3, <1>7 DEF Pieces

LEMMA FileEntry ==
  ASSUME DiskType, NEW p \in Paths, IsFile(p)
  PROVE  disk[p] \in Entry /\ disk[p].data \in Pieces /\ disk[p].mode \in Modes
<1>1. disk[p] \in Entry BY DEF DiskType, IsFile
<1> QED BY <1>1 DEF Entry, Pieces

(* A file gets another text; the others stay. *)
LEMMA PutData ==
  ASSUME DiskType, NEW p \in Paths, IsFile(p), NEW x \in Pieces, disk' = [disk EXCEPT ![p].data = x]
  PROVE  /\ DiskType' /\ IsFile(p)' /\ disk'[p].data = x
         /\ \A q \in Paths : q # p => disk'[q] = disk[q]
<1>1. PICK e : e = disk[p] OBVIOUS
<1>2. e \in Entry /\ e.kind = "file" BY <1>1, FileEntry DEF IsFile
<1>3. PICK f : f = [e EXCEPT !.data = x] OBVIOUS
<1>4. f \in Entry /\ f.kind = "file" /\ f.data = x BY <1>2, <1>3 DEF Entry, Pieces
<1>5. disk' = [disk EXCEPT ![p] = f] BY <1>1, <1>3
<1>6. disk'[p] = f BY <1>5 DEF DiskType
<1>7. f # NoEntry BY <1>4, FsAssumption
<1> QED BY <1>4, <1>5, <1>6, <1>7 DEF DiskType, IsFile

(* An entry is put at a path; the others stay. *)
LEMMA PutEntry ==
  ASSUME DiskType, NEW p \in Paths, NEW e \in Entry \cup {NoEntry}, disk' = [disk EXCEPT ![p] = e]
  PROVE  /\ DiskType' /\ disk'[p] = e
         /\ \A q \in Paths : q # p => disk'[q] = disk[q]
BY DEF DiskType

LEMMA OpenedEntry ==
  ASSUME DiskType, NEW p \in Paths, NEW keep \in BOOLEAN
  PROVE  /\ Opened(p, keep) \in Entry /\ Opened(p, keep).kind = "file" /\ Opened(p, keep).data \in Pieces
         /\ Opened(p, keep).mode \in Modes /\ (~keep => Opened(p, keep).data = <<>>)
<1>0. PICK none : none = <<>> /\ none \in Seq(Nat)
  <2>1. <<>> \in Seq(Nat) OBVIOUS
  <2> QED BY <2>1, Zenon
<1>1. NewFile \in Entry /\ NewFile.kind = "file" /\ NewFile.data = none
  <2>1. NewFile = [kind |-> "file", data |-> none, mode |-> "plain"] BY <1>0 DEF NewFile
  <2>2. "plain" \in Modes BY DEF Modes
  <2> QED BY <1>0, <2>1, <2>2 DEF Entry
<1>2. PICK e : e = disk[p] OBVIOUS
<1>3. IsFile(p) => e \in Entry /\ e.kind = "file" BY <1>2, FileEntry DEF IsFile
<1>4. PICK f : f = [e EXCEPT !.data = none] OBVIOUS
<1>5. IsFile(p) => f \in Entry /\ f.kind = "file" /\ f.data = none BY <1>0, <1>3, <1>4 DEF Entry
<1>6. PICK g : g = Opened(p, keep) OBVIOUS
<1>7. g = IF IsFile(p) THEN (IF keep THEN e ELSE f) ELSE NewFile BY <1>0, <1>2, <1>4, <1>6 DEF Opened
<1>8. g \in Entry /\ g.kind = "file" /\ (~keep => g.data = none) BY <1>1, <1>3, <1>5, <1>7
<1>9. g.data \in Pieces /\ g.mode \in Modes BY <1>8 DEF Entry, Pieces
<1> QED BY <1>0, <1>6, <1>8, <1>9

(* Which operation is under way can be read off where it is. *)
LEMMA BusyKinds ==
  ASSUME FsInv
  PROVE  /\ op.at = "write" => BusyWriting
         /\ op.at = "open" => BusyOpening
         /\ op.at \in {"copy", "mode", "unlink"} => BusyCopying
         /\ op.at # "idle" => done = NoAnswer
         /\ op = NoOp => DoneInv
<1>1. op = NoOp => op.at = "idle" BY DEF NoOp
<1>2. BusyWriting => op.at = "write" BY DEF BusyWriting, WriteOps
<1>3. BusyOpening => op.at = "open" BY DEF BusyOpening, OpenOps
<1>4. BusyCopying => op.at \in {"copy", "mode", "unlink"}
  <2>1. BusyCopying => op \in CopyOps BY DEF BusyCopying
  <2>2. \A o \in CopyOps : o.at \in {"copy", "mode", "unlink"} BY DEF CopyOps
  <2> QED BY <2>1, <2>2
<1> QED BY <1>1, <1>2, <1>3, <1>4 DEF FsInv

LEMMA FsKept ==
  ASSUME FsInv, UNCHANGED <<disk, op, done>>
  PROVE  FsInv'
<1>1. DiskType' BY DEF FsInv, DiskType
<1>2. DoneInv => DoneInv' BY DEF DoneInv, Holds, IsFile
<1>3. BusyWriting => BusyWriting' BY DEF BusyWriting, IsFile
<1>4. BusyOpening => BusyOpening' BY DEF BusyOpening, IsFile
<1>5. BusyCopying => BusyCopying' BY DEF BusyCopying, CopiedSoFar, IsFile
<1> QED BY <1>1, <1>2, <1>3, <1>4, <1>5 DEF FsInv

(* Looking, removing and making directories promise nothing of a file. *)
LEMMA SmallOpsKeep ==
  ASSUME FsInv, NEW s, NEW p \in Paths, FsLook(s, p) \/ FsRemove(s, p) \/ FsMkdir(s, p)
  PROVE  FsInv'
<1>1. op = NoOp /\ op' = NoOp BY DEF FsLook, FsRemove, FsMkdir, Allowed
<1>2. done'.kind \in {"look", "remove", "mkdir"} BY DEF FsLook, FsRemove, FsMkdir
<1>3. DoneInv' BY <1>2 DEF DoneInv
<1>4. DiskType'
  <2>1. DiskType BY DEF FsInv
  <2>2. CASE FsLook(s, p) BY <2>1, <2>2 DEF FsLook, DiskType
  <2>3. CASE FsRemove(s, p) BY <2>1, <2>3 DEF FsRemove, DiskType
  <2>4. CASE FsMkdir(s, p)
    <3>1. NewDir \in Entry
      <4>1. <<>> \in Seq(Nat) OBVIOUS
      <4>2. PICK none \in Seq(Nat) : none = <<>> BY <4>1, Zenon
      <4>3. NewDir = [kind |-> "directory", data |-> none, mode |-> "plain"] BY <4>2 DEF NewDir
      <4>4. "plain" \in Modes BY DEF Modes
      <4> QED BY <4>3, <4>4 DEF Entry
    <3>2. PICK made : disk' = [q \in Paths |-> IF q \in made THEN NewDir ELSE disk[q]] BY <2>4 DEF FsMkdir
    <3> QED BY <2>1, <3>1, <3>2 DEF DiskType
  <2> QED BY <2>2, <2>3, <2>4
<1> QED BY <1>1, <1>3, <1>4 DEF FsInv

LEMMA FsWriteKeeps ==
  ASSUME FsInv, NEW s, NEW p \in Paths, NEW data \in Written, NEW append \in BOOLEAN, FsWrite(s, p, data, append)
  PROVE  FsInv'
<1>1. PICK e : e = Opened(p, append) OBVIOUS
<1>2. DiskType BY DEF FsInv
<1>3. e \in Entry /\ e.kind = "file" /\ e.data \in Pieces /\ e.mode \in Modes BY <1>1, <1>2, OpenedEntry
<1>4. disk' = [disk EXCEPT ![p] = e] /\ done' = NoAnswer BY <1>1 DEF FsWrite
<1>5. DiskType' /\ disk'[p] = e BY <1>2, <1>3, <1>4, PutEntry
<1>6. PICK w : w = e.data \o data OBVIOUS
<1>7. data \in Pieces /\ w \in Pieces BY <1>3, <1>6, FsAssumption DEF Pieces
<1>8. PICK o : o = [at |-> "write", kind |-> "write", from |-> p, to |-> p, whole |-> w, buffer |-> data,
                    wrote |-> TRUE, mode |-> e.mode] OBVIOUS
<1>9. op' = o BY <1>1, <1>6, <1>8 DEF FsWrite
<1>10. o \in WriteOps BY <1>3, <1>7, <1>8 DEF WriteOps
<1>11. o.from = p /\ o.to = p /\ o.whole = w /\ o.buffer = data BY <1>8
<1>12. e # NoEntry BY <1>3, FsAssumption
<1>13. BusyWriting'
  <2>1. IsFile(op.to)' BY <1>3, <1>5, <1>9, <1>11, <1>12 DEF IsFile
  <2>2. disk'[op'.to].data \o op'.buffer = op'.whole BY <1>5, <1>6, <1>9, <1>11
  <2> QED BY <1>9, <1>10, <1>11, <2>1, <2>2 DEF BusyWriting
<1> QED BY <1>4, <1>5, <1>13 DEF FsInv

(* What copy and move begin with. *)
LEMMA BegunOpens ==
  ASSUME DiskType, NEW p \in Paths, NEW q \in Paths, NEW kind \in Kinds, op' = Begun(kind, p, q), UNCHANGED disk,
         kind = "move" => IsFile(p) /\ p # q
  PROVE  BusyOpening'
<1>1. PICK w : w = IF IsFile(p) THEN disk[p].data ELSE <<>> OBVIOUS
<1>2. PICK m : m = IF IsFile(p) THEN disk[p].mode ELSE "plain" OBVIOUS
<1>3. w \in Pieces
  <2>1. <<>> \in Seq(Nat) OBVIOUS
  <2> QED BY <1>1, <2>1, FileEntry DEF Pieces
<1>4. m \in Modes
  <2>1. "plain" \in Modes BY DEF Modes
  <2> QED BY <1>2, <2>1, FileEntry
<1>5. PICK o : o = [at |-> "open", kind |-> kind, from |-> p, to |-> q, whole |-> w, mode |-> m] OBVIOUS
<1>6. op' = o BY <1>1, <1>2, <1>5 DEF Begun
<1>7. o \in OpenOps BY <1>3, <1>4, <1>5 DEF OpenOps
<1>8. o.kind = kind /\ o.from = p /\ o.to = q /\ o.whole = w BY <1>5
<1>9. IsFile(op.from)' <=> IsFile(p) BY <1>6, <1>8 DEF IsFile
<1>10. IsFile(p) => disk'[op'.from].data = op'.whole BY <1>1, <1>6, <1>8
<1> QED BY <1>6, <1>7, <1>8, <1>9, <1>10 DEF BusyOpening

LEMMA StartsKeep ==
  ASSUME FsInv, NEW s, NEW p \in Paths, NEW q \in Paths, StartCopy(s, p, q) \/ StartMove(s, p, q)
  PROVE  FsInv'
<1>1. DiskType /\ DiskType' /\ done' = NoAnswer /\ UNCHANGED disk BY DEF FsInv, DiskType, StartCopy, StartMove
<1>2. CASE StartCopy(s, p, q)
  <2>1. BusyOpening' BY <1>1, <1>2, BegunOpens DEF StartCopy, Kinds
  <2> QED BY <1>1, <2>1 DEF FsInv
<1>3. CASE StartMove(s, p, q)
  <2>1. IsFile(p) /\ p # q /\ op' = Begun("move", p, q) BY <1>3 DEF StartMove
  <2>2. BusyOpening' BY <1>1, <2>1, BegunOpens DEF Kinds
  <2> QED BY <1>1, <2>2 DEF FsInv
<1> QED BY <1>2, <1>3

LEMMA RenameKeeps ==
  ASSUME FsInv, NEW s, NEW p \in Paths, NEW q \in Paths, Rename(s, p, q)
  PROVE  FsInv'
<1>1. op' = NoOp /\ IsFile(p) /\ DiskType BY DEF Rename, Allowed, FsInv
<1>2. disk' = IF p = q THEN disk ELSE [disk EXCEPT ![q] = disk[p], ![p] = NoEntry] BY DEF Rename
<1>3. DiskType' BY <1>1, <1>2 DEF DiskType
<1>4. disk'[q] = disk[p] BY <1>1, <1>2 DEF DiskType
<1>5. PICK w : w = disk[p].data OBVIOUS
<1>6. done' = [ok |-> TRUE, kind |-> "move", from |-> p, to |-> q, whole |-> w] BY <1>5 DEF Rename
<1>7. done'.to = q /\ done'.whole = w /\ done'.ok /\ done'.kind = "move" BY <1>6
<1>8. Holds(done.to, done.whole)' BY <1>1, <1>4, <1>5, <1>7 DEF Holds, IsFile
<1>9. DoneInv' BY <1>7, <1>8 DEF DoneInv
<1> QED BY <1>1, <1>3, <1>9 DEF FsInv

(* What a path holds on the disk after the step. *)
WillHold(p, data) == disk'[p] # NoEntry /\ disk'[p].kind = "file" /\ disk'[p].data = data

(* An operation that ends: its answer stands for what is on the disk. *)
LEMMA EndKeeps ==
  ASSUME DiskType', NEW ok \in BOOLEAN, End(ok),
         op.kind = "move" => IF ok THEN WillHold(op.to, op.whole) ELSE WillHold(op.from, op.whole),
         ok /\ (op.kind = "write" \/ (op.kind = "copy" /\ op.from # op.to)) => WillHold(op.to, op.whole)
  PROVE  FsInv'
<1>1. PICK o : o = op OBVIOUS
<1>2. PICK r : r = [ok |-> ok, kind |-> o.kind, from |-> o.from, to |-> o.to, whole |-> o.whole] OBVIOUS
<1>3. done' = r /\ op' = NoOp BY <1>1, <1>2 DEF End
<1>4. r.kind = o.kind /\ r.from = o.from /\ r.to = o.to /\ r.whole = o.whole BY <1>2
<1>5. r.ok = ok BY <1>2
<1>6. Holds(done.to, done.whole)' <=> WillHold(o.to, o.whole) BY <1>3, <1>4 DEF Holds, IsFile, WillHold
<1>7. Holds(done.from, done.whole)' <=> WillHold(o.from, o.whole) BY <1>3, <1>4 DEF Holds, IsFile, WillHold
<1>8. DoneInv' BY <1>1, <1>3, <1>4, <1>5, <1>6, <1>7 DEF DoneInv
<1> QED BY <1>3, <1>8 DEF FsInv

LEMMA WriteFailsKeeps ==
  ASSUME FsInv, WriteFails
  PROVE  FsInv'
<1>1. op.at = "write" /\ done' = done BY DEF WriteFails
<1>2. DiskType /\ BusyWriting /\ done' = NoAnswer BY <1>1, BusyKinds DEF FsInv
<1>3. PICK o : o = op OBVIOUS
<1>4. o \in WriteOps /\ o.from = o.to /\ IsFile(o.to) BY <1>2, <1>3 DEF BusyWriting
<1>5. o.to \in Paths /\ o.buffer \in Seq(Nat) BY <1>4 DEF WriteOps, Pieces
<1>6. PICK k \in 0..Len(o.buffer) - 1 : disk' = [disk EXCEPT ![o.to].data = @ \o SubSeq(o.buffer, 1, k)]
  BY <1>3 DEF WriteFails
<1>7. PICK x : x = disk[o.to].data \o SubSeq(o.buffer, 1, k) OBVIOUS
<1>8. x \in Pieces
  <2>1. disk[o.to].data \in Seq(Nat) BY <1>2, <1>4, <1>5, FileEntry DEF Pieces
  <2>2. Len(o.buffer) \in Nat BY <1>5, LenProperties
  <2>3. k \in Nat /\ k <= Len(o.buffer) BY <2>2
  <2>4. \A i \in 1..k : o.buffer[i] \in Nat BY <1>5, <2>2, <2>3, ElementOfSeq
  <2>5. SubSeq(o.buffer, 1, k) \in Seq(Nat) BY <2>3, <2>4, SubSeqProperties
  <2> QED BY <1>7, <2>1, <2>5, ConcatProperties DEF Pieces
<1>9. disk' = [disk EXCEPT ![o.to].data = x] BY <1>6, <1>7
<1>10. DiskType' /\ IsFile(o.to)' BY <1>2, <1>4, <1>5, <1>8, <1>9, PutData
<1>11. PICK none : none = <<>> OBVIOUS
<1>12. none \in Pieces BY <1>11 DEF Pieces
<1>13. op' = [o EXCEPT !.wrote = FALSE, !.buffer = none] BY <1>3, <1>11 DEF WriteFails
<1>14. op' \in WriteOps BY <1>4, <1>12, <1>13 DEF WriteOps
<1>15. op'.wrote = FALSE /\ op'.from = o.from /\ op'.to = o.to BY <1>4, <1>13 DEF WriteOps
<1>16. BusyWriting' BY <1>4, <1>10, <1>14, <1>15 DEF BusyWriting, IsFile
<1> QED BY <1>2, <1>10, <1>16 DEF FsInv

LEMMA CloseWriteKeeps ==
  ASSUME FsInv, NEW ok \in BOOLEAN, CloseWrite(ok)
  PROVE  FsInv'
<1>1. op.at = "write" BY DEF CloseWrite
<1>2. DiskType /\ BusyWriting BY <1>1, BusyKinds DEF FsInv
<1>3. PICK o : o = op OBVIOUS
<1>4. o \in WriteOps /\ IsFile(o.to) /\ (o.wrote => disk[o.to].data \o o.buffer = o.whole)
  BY <1>2, <1>3 DEF BusyWriting
<1>5. o.to \in Paths /\ o.buffer \in Seq(Nat) /\ o.kind = "write" /\ o.wrote \in BOOLEAN BY <1>4 DEF WriteOps, Pieces
<1>6. PICK x : x = disk[o.to].data \o o.buffer OBVIOUS
<1>7. x \in Pieces
  <2>1. disk[o.to].data \in Seq(Nat) BY <1>2, <1>4, <1>5, FileEntry DEF Pieces
  <2> QED BY <1>5, <1>6, <2>1, ConcatProperties DEF Pieces
<1>8. disk' = IF ok THEN [disk EXCEPT ![o.to].data = x] ELSE disk BY <1>3, <1>6 DEF CloseWrite
<1>9. ok => DiskType' /\ IsFile(o.to)' /\ disk'[o.to].data = x BY <1>2, <1>4, <1>5, <1>7, <1>8, PutData
<1>10. DiskType' BY <1>2, <1>8, <1>9 DEF DiskType
<1>11. ok /\ o.wrote => WillHold(o.to, o.whole) BY <1>4, <1>6, <1>9 DEF WillHold, IsFile
<1>12. PICK good \in BOOLEAN : good = (ok /\ o.wrote) BY <1>5
<1>13. End(good) BY <1>3, <1>12 DEF CloseWrite
<1> QED BY <1>3, <1>5, <1>10, <1>11, <1>12, <1>13, EndKeeps

(* What a copy knows of itself. *)
LEMMA CopyShape ==
  ASSUME NEW o \in CopyOps
  PROVE  /\ o.from \in Paths /\ o.to \in Paths /\ o.whole \in Pieces /\ o.buffer \in Pieces /\ o.read \in Nat
         /\ o.mode \in Modes /\ o.kind \in {"copy", "move"} /\ o.at \in {"copy", "mode", "unlink"}
BY DEF CopyOps, Kinds

LEMMA CopyOpensKeeps ==
  ASSUME FsInv, CopyOpens
  PROVE  FsInv'
<1>1. op.at = "open" /\ IsFile(op.from) /\ done' = done BY DEF CopyOpens
<1>2. DiskType /\ BusyOpening /\ done' = NoAnswer BY <1>1, BusyKinds DEF FsInv
<1>3. PICK o : o = op OBVIOUS
<1>4. o \in OpenOps /\ IsFile(o.from) /\ disk[o.from].data = o.whole /\ (o.kind = "move" => o.from # o.to)
  BY <1>1, <1>2, <1>3 DEF BusyOpening
<1>5. o.from \in Paths /\ o.to \in Paths /\ o.whole \in Pieces /\ o.mode \in Modes /\ o.kind \in Kinds BY <1>4 DEF OpenOps
<1>6. PICK e : e = Opened(o.to, FALSE) OBVIOUS
<1>7. PICK none : none = <<>> OBVIOUS
<1>8. none \in Pieces BY <1>7 DEF Pieces
<1>9. e \in Entry /\ e.kind = "file" /\ e.data = none BY <1>2, <1>5, <1>6, <1>7, OpenedEntry
<1>10. e # NoEntry BY <1>9, FsAssumption
<1>11. disk' = [disk EXCEPT ![o.to] = e] BY <1>3, <1>6 DEF CopyOpens
<1>12. DiskType' /\ disk'[o.to] = e /\ \A q \in Paths : q # o.to => disk'[q] = disk[q]
  BY <1>2, <1>5, <1>9, <1>11, PutEntry
<1>13. PICK n : n = [at |-> "copy", kind |-> o.kind, from |-> o.from, to |-> o.to, whole |-> o.whole, mode |-> o.mode,
                     read |-> 0, buffer |-> none] OBVIOUS
<1>14. op' = n BY <1>3, <1>7, <1>13 DEF CopyOpens
<1>15. n \in CopyOps BY <1>5, <1>8, <1>13 DEF CopyOps
<1>16. /\ n.at = "copy" /\ n.kind = o.kind /\ n.from = o.from /\ n.to = o.to /\ n.whole = o.whole
       /\ n.read = 0 /\ n.buffer = none BY <1>13
<1>17. IsFile(op.to)' BY <1>9, <1>10, <1>12, <1>14, <1>16 DEF IsFile
<1>18. IsFile(op.from)' BY <1>4, <1>5, <1>9, <1>10, <1>12, <1>14, <1>16 DEF IsFile
<1>19. o.from # o.to => CopiedSoFar'
  <2>1. o.from # o.to => disk'[o.from].data = o.whole BY <1>4, <1>5, <1>12
  <2>2. SubSeq(o.whole, 1, 0) = <<>> BY SubSeqEmpty
  <2>3. none \o none = none BY <1>7, <1>8, ConcatEmptySeq DEF Pieces
  <2>4. 0 <= Len(o.whole) BY <1>5, LenProperties DEF Pieces
  <2>5. disk'[o.to].data = none BY <1>9, <1>12
  <2>6. disk'[o.to].data \o none = SubSeq(o.whole, 1, 0) BY <1>7, <2>2, <2>3, <2>5
  <2> QED BY <1>14, <1>16, <2>1, <2>4, <2>6 DEF CopiedSoFar
<1>20. BusyCopying' BY <1>4, <1>14, <1>15, <1>16, <1>17, <1>18, <1>19 DEF BusyCopying
<1> QED BY <1>2, <1>12, <1>20 DEF FsInv

LEMMA CopyChunkKeeps ==
  ASSUME FsInv, CopyChunk
  PROVE  FsInv'
<1>1. op.at = "copy" /\ UNCHANGED <<disk, done>> BY DEF CopyChunk
<1>2. DiskType /\ BusyCopying /\ done' = NoAnswer BY <1>1, BusyKinds DEF FsInv
<1>3. PICK o : o = op OBVIOUS
<1>4. /\ o \in CopyOps /\ IsFile(o.from) /\ IsFile(o.to) /\ o.at = "copy" /\ (o.kind = "move" => o.from # o.to)
      /\ o.read < Len(disk[o.from].data)
  BY <1>1, <1>2, <1>3 DEF BusyCopying, CopyChunk
<1>5. o.from # o.to => /\ disk[o.from].data = o.whole /\ o.read <= Len(o.whole)
                       /\ disk[o.to].data \o o.buffer = SubSeq(o.whole, 1, o.read)
  BY <1>1, <1>2, <1>3 DEF BusyCopying, CopiedSoFar
<1>6. o.from \in Paths /\ o.to \in Paths /\ o.whole \in Pieces /\ o.buffer \in Pieces /\ o.read \in Nat BY <1>4, CopyShape
<1>7. PICK src : src = disk[o.from].data OBVIOUS
<1>8. PICK dst : dst = disk[o.to].data OBVIOUS
<1>9. src \in Pieces /\ dst \in Pieces BY <1>2, <1>4, <1>6, <1>7, <1>8, FileEntry
<1>10. PICK b : b = Append(o.buffer, src[o.read + 1]) OBVIOUS
<1>11. b \in Pieces
  <2>1. o.read + 1 \in 1..Len(src) BY <1>4, <1>6, <1>7, <1>9, LenProperties DEF Pieces
  <2>2. src[o.read + 1] \in Nat BY <1>9, <2>1, ElementOfSeq DEF Pieces
  <2> QED BY <1>6, <1>10, <2>2, AppendProperties DEF Pieces
<1>12. o.from # o.to => dst \o b = SubSeq(o.whole, 1, o.read + 1) /\ o.read + 1 <= Len(o.whole)
  <2> SUFFICES ASSUME o.from # o.to PROVE dst \o b = SubSeq(o.whole, 1, o.read + 1) /\ o.read + 1 <= Len(o.whole)
    OBVIOUS
  <2>1. src = o.whole /\ o.read < Len(o.whole) /\ dst \o o.buffer = SubSeq(o.whole, 1, o.read) BY <1>4, <1>5, <1>7, <1>8
  <2>2. dst \o b = SubSeq(o.whole, 1, o.read + 1)
    <3>1. PICK w \in Pieces : w = o.whole BY <1>6
    <3>2. PICK r \in Nat : r = o.read BY <1>6
    <3>3. PICK c \in Pieces : c = o.buffer BY <1>6
    <3>4. r < Len(w) /\ dst \o c = SubSeq(w, 1, r) BY <2>1, <3>1, <3>2, <3>3
    <3>5. dst \o Append(c, w[r + 1]) = SubSeq(w, 1, r + 1) BY <1>9, <3>4, NextPiece
    <3>6. b = Append(c, w[r + 1]) BY <1>10, <2>1, <3>1, <3>2, <3>3
    <3> QED BY <3>1, <3>2, <3>5, <3>6
  <2>3. Len(o.whole) \in Nat BY <1>6, LenProperties DEF Pieces
  <2>4. o.read + 1 <= Len(o.whole) BY <1>6, <2>1, <2>3
  <2> QED BY <2>2, <2>4
<1>13. PICK n : n = [o EXCEPT !.read = o.read + 1, !.buffer = b] OBVIOUS
<1>14. op' = n BY <1>3, <1>7, <1>10, <1>13 DEF CopyChunk
<1>15. n \in CopyOps
  <2>1. PICK r : r = o.read + 1 OBVIOUS
  <2>2. r \in Nat BY <1>6, <2>1
  <2>3. n = [o EXCEPT !.read = r, !.buffer = b] BY <1>13, <2>1
  <2> QED BY <1>4, <1>11, <2>2, <2>3 DEF CopyOps
<1>16. /\ n.at = "copy" /\ n.kind = o.kind /\ n.from = o.from /\ n.to = o.to /\ n.whole = o.whole
       /\ n.read = o.read + 1 /\ n.buffer = b BY <1>4, <1>13 DEF CopyOps
<1>17. IsFile(op.to)' /\ IsFile(op.from)' BY <1>1, <1>4, <1>14, <1>16 DEF IsFile
<1>18. o.from # o.to => CopiedSoFar' BY <1>1, <1>5, <1>8, <1>12, <1>14, <1>16 DEF CopiedSoFar
<1>19. BusyCopying' BY <1>4, <1>14, <1>15, <1>16, <1>17, <1>18 DEF BusyCopying
<1>20. DiskType' BY <1>1, <1>2 DEF DiskType
<1> QED BY <1>2, <1>19, <1>20 DEF FsInv

LEMMA CopyFlushKeeps ==
  ASSUME FsInv, CopyFlush
  PROVE  FsInv'
<1>1. op.at = "copy" /\ done' = done BY DEF CopyFlush
<1>2. DiskType /\ BusyCopying /\ done' = NoAnswer BY <1>1, BusyKinds DEF FsInv
<1>3. PICK o : o = op OBVIOUS
<1>4. /\ o \in CopyOps /\ IsFile(o.from) /\ IsFile(o.to) /\ o.at = "copy" /\ (o.kind = "move" => o.from # o.to)
  BY <1>1, <1>2, <1>3 DEF BusyCopying
<1>5. o.from # o.to => /\ disk[o.from].data = o.whole /\ o.read <= Len(o.whole)
                       /\ disk[o.to].data \o o.buffer = SubSeq(o.whole, 1, o.read)
  BY <1>1, <1>2, <1>3 DEF BusyCopying, CopiedSoFar
<1>6. o.from \in Paths /\ o.to \in Paths /\ o.buffer \in Pieces BY <1>4, CopyShape
<1>7. PICK x : x = disk[o.to].data \o o.buffer OBVIOUS
<1>8. x \in Pieces
  <2>1. disk[o.to].data \in Pieces BY <1>2, <1>4, <1>6, FileEntry
  <2> QED BY <1>6, <1>7, <2>1, ConcatProperties DEF Pieces
<1>9. disk' = [disk EXCEPT ![o.to].data = x] BY <1>3, <1>7 DEF CopyFlush
<1>10. DiskType' /\ IsFile(o.to)' /\ disk'[o.to].data = x /\ \A q \in Paths : q # o.to => disk'[q] = disk[q]
  BY <1>2, <1>4, <1>6, <1>8, <1>9, PutData
<1>11. PICK none : none = <<>> OBVIOUS
<1>12. none \in Pieces /\ x \o none = x BY <1>8, <1>11, ConcatEmptySeq DEF Pieces
<1>13. PICK n : n = [o EXCEPT !.buffer = none] OBVIOUS
<1>14. op' = n BY <1>3, <1>11, <1>13 DEF CopyFlush
<1>15. n \in CopyOps BY <1>4, <1>12, <1>13 DEF CopyOps
<1>16. /\ n.at = "copy" /\ n.kind = o.kind /\ n.from = o.from /\ n.to = o.to /\ n.whole = o.whole
       /\ n.read = o.read /\ n.buffer = none BY <1>4, <1>13 DEF CopyOps
<1>17. IsFile(op.to)' BY <1>10, <1>14, <1>16 DEF IsFile
<1>18. IsFile(op.from)' BY <1>4, <1>6, <1>10, <1>14, <1>16 DEF IsFile
<1>19. o.from # o.to => CopiedSoFar' BY <1>5, <1>6, <1>7, <1>10, <1>12, <1>14, <1>16 DEF CopiedSoFar
<1>20. BusyCopying' BY <1>4, <1>14, <1>15, <1>16, <1>17, <1>18, <1>19 DEF BusyCopying
<1> QED BY <1>2, <1>10, <1>20 DEF FsInv

LEMMA CopyFailsKeeps ==
  ASSUME FsInv, CopyFails
  PROVE  FsInv'
<1>1. op.at \in {"open", "copy"} /\ UNCHANGED disk /\ End(FALSE) BY DEF CopyFails
<1>2. DiskType' BY <1>1 DEF FsInv, DiskType
<1>3. op.kind = "move" => WillHold(op.from, op.whole)
  <2>1. CASE op.at = "open"
    <3>1. BusyOpening BY <2>1, BusyKinds
    <3> QED BY <1>1, <3>1 DEF BusyOpening, WillHold, IsFile
  <2>2. CASE op.at = "copy"
    <3>1. BusyCopying BY <2>2, BusyKinds
    <3>2. op.kind = "move" => IsFile(op.from) /\ disk[op.from].data = op.whole BY <3>1 DEF BusyCopying, CopiedSoFar
    <3> QED BY <1>1, <3>2 DEF WillHold, IsFile
  <2> QED BY <1>1, <2>1, <2>2
<1> QED BY <1>1, <1>2, <1>3, EndKeeps

(* The copy is closed: what was read is all there, or the copy has failed  *)
(* and what it came from is as it was.                                     *)
LEMMA CopyClosesKeeps ==
  ASSUME FsInv, NEW ok \in BOOLEAN, CopyCloses(ok)
  PROVE  FsInv'
<1>1. op.at = "copy" /\ op.read = Len(disk[op.from].data) BY DEF CopyCloses
<1>2. DiskType /\ BusyCopying /\ done = NoAnswer BY <1>1, BusyKinds DEF FsInv
<1>3. PICK o : o = op OBVIOUS
<1>4. /\ o \in CopyOps /\ IsFile(o.from) /\ IsFile(o.to) /\ o.at = "copy" /\ (o.kind = "move" => o.from # o.to)
  BY <1>1, <1>2, <1>3 DEF BusyCopying
<1>5. o.from # o.to => /\ disk[o.from].data = o.whole
                       /\ disk[o.to].data \o o.buffer = SubSeq(o.whole, 1, o.read)
  BY <1>1, <1>2, <1>3 DEF BusyCopying, CopiedSoFar
<1>6. o.from \in Paths /\ o.to \in Paths /\ o.buffer \in Pieces /\ o.whole \in Pieces BY <1>4, CopyShape
<1>7. PICK x : x = disk[o.to].data \o o.buffer OBVIOUS
<1>8. CASE ok
  <2>1. x \in Pieces
    <3>1. disk[o.to].data \in Pieces BY <1>2, <1>4, <1>6, FileEntry
    <3> QED BY <1>6, <1>7, <3>1, ConcatProperties DEF Pieces
  <2>2. disk' = [disk EXCEPT ![o.to].data = x] /\ done' = done BY <1>3, <1>7, <1>8 DEF CopyCloses
  <2>3. DiskType' /\ IsFile(o.to)' /\ disk'[o.to].data = x /\ \A q \in Paths : q # o.to => disk'[q] = disk[q]
    BY <1>2, <1>4, <1>6, <2>1, <2>2, PutData
  <2>4. PICK none : none = <<>> OBVIOUS
  <2>5. none \in Pieces BY <2>4 DEF Pieces
  <2>6. PICK n : n = [o EXCEPT !.at = "mode", !.buffer = none] OBVIOUS
  <2>7. op' = n BY <1>3, <1>8, <2>4, <2>6 DEF CopyCloses
  <2>8. n \in CopyOps BY <1>4, <2>5, <2>6 DEF CopyOps
  <2>9. n.at = "mode" /\ n.kind = o.kind /\ n.from = o.from /\ n.to = o.to /\ n.whole = o.whole BY <1>4, <2>6 DEF CopyOps
  <2>10. IsFile(op.to)' BY <2>3, <2>7, <2>9 DEF IsFile
  <2>11. IsFile(op.from)' BY <1>4, <1>6, <2>3, <2>7, <2>9 DEF IsFile
  <2>12. o.from # o.to => x = o.whole
    <3>1. o.from # o.to => x = SubSeq(o.whole, 1, Len(o.whole)) BY <1>1, <1>3, <1>5, <1>7
    <3>2. SubSeq(o.whole, 1, Len(o.whole)) = o.whole BY <1>6, SubSeqFull DEF Pieces
    <3> QED BY <3>1, <3>2
  <2>13. o.from # o.to => CopiedSoFar' BY <1>5, <1>6, <2>3, <2>7, <2>9, <2>12 DEF CopiedSoFar
  <2>14. BusyCopying' BY <1>4, <2>7, <2>8, <2>9, <2>10, <2>11, <2>13 DEF BusyCopying
  <2> QED BY <1>2, <2>2, <2>3, <2>14 DEF FsInv
<1>9. CASE ~ok
  <2>1. UNCHANGED disk /\ End(FALSE) BY <1>9 DEF CopyCloses
  <2>2. DiskType' BY <1>2, <2>1 DEF DiskType
  <2>3. op.kind = "move" => WillHold(op.from, op.whole) BY <1>3, <1>4, <1>5, <2>1 DEF WillHold, IsFile
  <2> QED BY <2>1, <2>2, <2>3, EndKeeps
<1> QED BY <1>8, <1>9

LEMMA CopyModeKeeps ==
  ASSUME FsInv, NEW ok \in BOOLEAN, CopyMode(ok)
  PROVE  FsInv'
<1>1. op.at = "mode" BY DEF CopyMode
<1>2. DiskType /\ BusyCopying /\ done = NoAnswer BY <1>1, BusyKinds DEF FsInv
<1>3. PICK o : o = op OBVIOUS
<1>4. /\ o \in CopyOps /\ IsFile(o.from) /\ IsFile(o.to) /\ o.at = "mode" /\ (o.kind = "move" => o.from # o.to)
  BY <1>1, <1>2, <1>3 DEF BusyCopying
<1>5. o.from # o.to => disk[o.from].data = o.whole /\ disk[o.to].data = o.whole
  BY <1>1, <1>2, <1>3 DEF BusyCopying, CopiedSoFar
<1>6. o.from \in Paths /\ o.to \in Paths /\ o.mode \in Modes /\ o.kind \in {"copy", "move"} BY <1>4, CopyShape
<1>7. PICK e : e = disk[o.to] OBVIOUS
<1>8. e \in Entry /\ e.kind = "file" BY <1>2, <1>4, <1>6, <1>7, FileEntry DEF IsFile
<1>9. PICK f : f = IF ok THEN [e EXCEPT !.mode = o.mode] ELSE e OBVIOUS
<1>10. f \in Entry /\ f.kind = "file" /\ f.data = e.data BY <1>6, <1>8, <1>9 DEF Entry
<1>11. f # NoEntry BY <1>10, FsAssumption
<1>12. disk' = [disk EXCEPT ![o.to] = f]
  <2>1. CASE ok BY <1>3, <1>7, <1>9, <2>1 DEF CopyMode
  <2>2. CASE ~ok BY <1>2, <1>3, <1>6, <1>7, <1>9, <2>2 DEF CopyMode, DiskType
  <2> QED BY <2>1, <2>2
<1>13. DiskType' /\ disk'[o.to] = f /\ \A q \in Paths : q # o.to => disk'[q] = disk[q]
  BY <1>2, <1>6, <1>10, <1>12, PutEntry
<1>14. CASE o.kind = "move"
  <2>1. PICK n : n = [o EXCEPT !.at = "unlink"] OBVIOUS
  <2>2. op' = n /\ done' = done BY <1>3, <1>14, <2>1 DEF CopyMode
  <2>3. n \in CopyOps BY <1>4, <2>1 DEF CopyOps
  <2>4. n.at = "unlink" /\ n.kind = o.kind /\ n.from = o.from /\ n.to = o.to /\ n.whole = o.whole BY <1>4, <2>1 DEF CopyOps
  <2>5. IsFile(op.to)' BY <1>10, <1>11, <1>13, <2>2, <2>4 DEF IsFile
  <2>6. IsFile(op.from)' BY <1>4, <1>6, <1>10, <1>11, <1>13, <2>2, <2>4 DEF IsFile
  <2>7. o.from # o.to => CopiedSoFar' BY <1>5, <1>6, <1>7, <1>10, <1>13, <2>2, <2>4 DEF CopiedSoFar
  <2>8. BusyCopying' BY <1>4, <1>14, <2>2, <2>3, <2>4, <2>5, <2>6, <2>7 DEF BusyCopying
  <2> QED BY <1>2, <1>13, <2>2, <2>8 DEF FsInv
<1>15. CASE o.kind # "move"
  <2>1. End(TRUE) BY <1>3, <1>15 DEF CopyMode
  <2>2. o.from # o.to => WillHold(o.to, o.whole) BY <1>5, <1>7, <1>10, <1>11, <1>13 DEF WillHold
  <2>3. o.kind = "copy" BY <1>6, <1>15
  <2> QED BY <1>3, <1>13, <2>1, <2>2, <2>3, EndKeeps
<1> QED BY <1>14, <1>15

LEMMA MoveUnlinksKeeps ==
  ASSUME FsInv, NEW ok \in BOOLEAN, MoveUnlinks(ok)
  PROVE  FsInv'
<1>1. op.at = "unlink" /\ End(ok) BY DEF MoveUnlinks
<1>2. DiskType /\ BusyCopying BY <1>1, BusyKinds DEF FsInv
<1>3. PICK o : o = op OBVIOUS
<1>4. o \in CopyOps /\ IsFile(o.from) /\ IsFile(o.to) /\ o.kind = "move" /\ o.from # o.to
  BY <1>1, <1>2, <1>3 DEF BusyCopying
<1>5. disk[o.from].data = o.whole /\ disk[o.to].data = o.whole
  BY <1>1, <1>2, <1>3, <1>4 DEF BusyCopying, CopiedSoFar
<1>6. o.from \in Paths /\ o.to \in Paths BY <1>4, CopyShape
<1>7. disk' = IF ok THEN [disk EXCEPT ![o.from] = NoEntry] ELSE disk BY <1>3 DEF MoveUnlinks
<1>8. DiskType' BY <1>2, <1>7 DEF DiskType
<1>9. disk'[o.to] = disk[o.to] BY <1>2, <1>4, <1>6, <1>7 DEF DiskType
<1>10. WillHold(o.to, o.whole) BY <1>4, <1>5, <1>9 DEF WillHold, IsFile
<1>11. ~ok => WillHold(o.from, o.whole) BY <1>4, <1>5, <1>7 DEF WillHold, IsFile
<1> QED BY <1>1, <1>3, <1>4, <1>8, <1>10, <1>11, EndKeeps

LEMMA FsInit == Init => FsInv
<1> SUFFICES ASSUME Init PROVE FsInv OBVIOUS
<1>1. DiskType BY FsAssumption DEF Init, DiskType
<1>2. op = NoOp /\ done.kind = "none" BY DEF Init, NoAnswer
<1>3. DoneInv BY <1>2 DEF DoneInv
<1> QED BY <1>1, <1>2, <1>3 DEF FsInv

LEMMA FsStepKeeps == FsInv /\ [Next]_vars => FsInv'
<1> SUFFICES ASSUME FsInv, [Next]_vars PROVE FsInv' OBVIOUS
<1>1. CASE UNCHANGED <<disk, op, done>> BY <1>1, FsKept
<1>2. CASE UNCHANGED fsVars BY <1>1, <1>2 DEF fsVars
<1>3. CASE FsNext
  <2>1. CASE \E s \in Sessions, want \in BOOLEAN : Trust(s, want) BY <1>1, <2>1 DEF Trust
  <2>2. CASE FsStart
    <3>1. PICK s \in Sessions, p \in Paths :
            \/ FsLook(s, p) \/ FsRemove(s, p) \/ FsMkdir(s, p)
            \/ \E data \in Written, append \in BOOLEAN : FsWrite(s, p, data, append)
            \/ \E q \in Paths : StartCopy(s, p, q) \/ StartMove(s, p, q) \/ Rename(s, p, q)
      BY <2>2 DEF FsStart
    <3>2. CASE FsLook(s, p) \/ FsRemove(s, p) \/ FsMkdir(s, p) BY <3>2, SmallOpsKeep
    <3>3. CASE \E data \in Written, append \in BOOLEAN : FsWrite(s, p, data, append) BY <3>3, FsWriteKeeps
    <3>4. CASE \E q \in Paths : StartCopy(s, p, q) \/ StartMove(s, p, q) \/ Rename(s, p, q)
      BY <3>4, StartsKeep, RenameKeeps
    <3> QED BY <3>1, <3>2, <3>3, <3>4
  <2> QED BY <1>3, <2>1, <2>2 DEF FsNext
<1>4. CASE FsStep
  <2>1. CASE WriteFails \/ CopyOpens \/ CopyChunk \/ CopyFlush \/ CopyFails
    BY <2>1, WriteFailsKeeps, CopyOpensKeeps, CopyChunkKeeps, CopyFlushKeeps, CopyFailsKeeps
  <2>2. CASE \E ok \in BOOLEAN : CloseWrite(ok) \/ CopyCloses(ok) \/ CopyMode(ok) \/ MoveUnlinks(ok)
    BY <2>2, CloseWriteKeeps, CopyClosesKeeps, CopyModeKeeps, MoveUnlinksKeeps
  <2> QED BY <1>4, <2>1, <2>2 DEF FsStep
<1>5. CASE \E ends \in {"hook", "guard", "well"} : Initialize(ends) BY <1>2, <1>5 DEF Initialize
<1>6. CASE ConfineStart BY <1>2, <1>6 DEF ConfineStart, Elsewhere
<1>7. CASE \E h \in Hosts : ConfineStep(h) BY <1>2, <1>7 DEF ConfineStep, Elsewhere
<1>8. CASE \E t \in Threads : HookStep(t) BY <1>2, <1>8 DEF HookStep, Elsewhere
<1>9. CASE StackNext BY <1>2, <1>9 DEF StackNext
<1>10. CASE UNCHANGED vars BY <1>2, <1>10 DEF vars
<1> QED BY <1>3, <1>4, <1>5, <1>6, <1>7, <1>8, <1>9, <1>10 DEF Next

-----------------------------------------------------------------------------
(* Results.                                                                *)

(* In every reachable state the three parts are consistent: the holder of  *)
(* the stack lock finds the file it checked, the trusted operation has its *)
(* data in hand, and the thread that compares paths holds the policy lock. *)
THEOREM SandboxInvariant == Spec => []SandboxInv
<1>1. Init => SandboxInv BY StackInit, FsInit, ConfineInit DEF SandboxInv
<1>2. SandboxInv /\ [Next]_vars => SandboxInv' BY StackStep, FsStepKeeps, ConfineNext DEF SandboxInv
<1> QED BY <1>1, <1>2, PTL DEF Spec

(* A dump or a close whose number the guest left alone acts on the file    *)
(* that was configured, and no stack file ever mixes two dumps, for any    *)
(* number of hosts, files, descriptors and samples.                        *)
THEOREM DumpsStayApart == Spec => []DumpsKeepToTheirFile
<1>1. SandboxInv => DumpsKeepToTheirFile
  <2> SUFFICES ASSUME SandboxInv PROVE DumpsKeepToTheirFile OBVIOUS
  <2>1. StackInv BY DEF SandboxInv
  <2>2. ASSUME NEW h \in Hosts, call[h].at \in {"truncate", "write", "close"}, ~call[h].raced
        PROVE  stackFd # None /\ table[stackFd] = identity
    BY <2>1, <2>2 DEF StackInv, CallInv
  <2>3. ASSUME NEW a \in Artifacts, text[a] # None
        PROVE  Len(text[a]) <= Samples /\ \A i, j \in DOMAIN text[a] : text[a][i] = text[a][j]
    BY <2>1, <2>3 DEF StackInv, TextInv, Uniform
  <2> QED BY <2>2, <2>3 DEF DumpsKeepToTheirFile
<1> QED BY <1>1, SandboxInvariant, PTL

(* Whatever call of a copy, a move or a write fails, and wherever it       *)
(* stops, the file that was moved is whole at one of its paths, the file   *)
(* that was copied is untouched, and a good answer means all of it is      *)
(* there, for any disk and any contents.                                   *)
THEOREM FilesAreNotLost == Spec => []FilesSurvive
<1>1. SandboxInv => FilesSurvive
  <2> SUFFICES ASSUME SandboxInv PROVE FilesSurvive OBVIOUS
  <2>1. FsInv BY DEF SandboxInv
  <2>2. CASE op = NoOp
    <3>1. op.at = "idle" BY <2>2 DEF NoOp
    <3>2. DoneInv BY <2>1, <2>2, BusyKinds
    <3> QED BY <3>1, <3>2 DEF FilesSurvive, DoneInv
  <2>3. CASE op # NoOp
    <3>1. done = NoAnswer /\ (BusyWriting \/ BusyOpening \/ BusyCopying) BY <2>1, <2>3 DEF FsInv
    <3>2. done.kind = "none" /\ ~done.ok BY <3>1 DEF NoAnswer
    <3>3. BusyWriting => op.kind = "write" BY DEF BusyWriting, WriteOps
    <3>4. BusyOpening =>
            /\ op.kind = "move" => Holds(op.from, op.whole)
            /\ IsFile(op.from) => Holds(op.from, op.whole)
      BY DEF BusyOpening, Holds
    <3>5. BusyCopying => (op.from # op.to => Holds(op.from, op.whole)) /\ (op.kind = "move" => op.from # op.to)
      BY DEF BusyCopying, CopiedSoFar, Holds
    <3> QED BY <3>1, <3>2, <3>3, <3>4, <3>5 DEF FilesSurvive
  <2> QED BY <2>2, <2>3
<1> QED BY <1>1, SandboxInvariant, PTL

(* A hook never compares with freed roots, a path it lets through one of   *)
(* the policies in force while it ran allows, and a path it refuses one of *)
(* them refuses or does not confine, for any number of hosts and threads.  *)
THEOREM OnePolicyAnswers == Spec => []HookAnswersForOnePolicy
<1>1. SandboxInv => HookAnswersForOnePolicy
  <2> SUFFICES ASSUME SandboxInv, NEW t \in Threads
               PROVE  /\ HasGil(t) => hook[t].roots \notin freed
                      /\ hook[t].at = "answered" =>
                           /\ \A path \in hook[t].passed : \E p \in hook[t].seen : Allows(p, path, hook[t].writing)
                           /\ ~hook[t].ok /\ hook[t].path # None =>
                                \E p \in hook[t].seen : ~p.confined \/ ~Allows(p, hook[t].path, hook[t].writing)
    BY DEF HookAnswersForOnePolicy
  <2>1. ConfineInv BY DEF SandboxInv
  <2>2. PICK k : k = hook[t] OBVIOUS
  <2>3. Fits(t, k, policy, lock) BY <2>1, <2>2 DEF ConfineInv, HookInv
  <2>4. policy.id \in Nat /\ \A i \in freed : i \in Nat /\ i < policy.id BY <2>1 DEF ConfineInv
  <2>5. policy.id \notin freed BY <2>4
  <2>6. k.at \in {"writes", "reads"} => k.roots = policy.id BY <2>3 DEF Fits
  <2>7. k.at = "answered" => /\ Lets(k.seen, k.passed, k.writing)
                             /\ ~k.ok /\ k.path # None => Refuses(k.seen, k.path, k.writing)
    BY <2>3 DEF Fits
  <2> QED BY <2>2, <2>5, <2>6, <2>7 DEF HasGil, Lets, Refuses
<1> QED BY <1>1, SandboxInvariant, PTL
=============================================================================
