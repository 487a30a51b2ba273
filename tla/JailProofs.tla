----------------------------- MODULE JailProofs -----------------------------
(***************************************************************************)
(* Jail proved for any processes, any number of threads that close their   *)
(* streams and any number of failing calls.                                *)
(*                                                                         *)
(* DescriptorsExact is not inductive: whether a second close of an end can *)
(* happen is known only from who may still close it.  StageInv says what   *)
(* the host has of a process at each stage of its spawn; StreamInv says    *)
(* that a stream can be closed only through its flag, or by the one thread *)
(* that won it, and that the host has it as long as that is to come.       *)
(***************************************************************************)
EXTENDS Jail, TLAPS

SpawnStages == {"no", "open", "forked", "await", "exposed", "cleanup", "failed"}

TypeInv ==
  /\ spawn \in [Procs -> SpawnStages]
  /\ held \in [{"host"} \cup Procs -> SUBSET Ends] /\ closes \in [Ends -> Nat] /\ cut \subseteq Ends
  /\ child \in [Procs -> {"none", "born", "grouped", "told", "runs", "reaped"}]
  /\ open \in [Streams -> BOOLEAN] /\ closer \in [Closers -> Streams \cup {None}]

(* An end the host has was never closed, and none was closed twice but     *)
(* those make_pipe cut, of which there are none with pipe2.                *)
OnceInv ==
  /\ \A e \in Ends : (closes[e] <= 1 \/ e \in cut) /\ (e \in held["host"] => closes[e] = 0)
  /\ Pipe2 => cut = {}

(* What the host has of a process while it is spawned, and what is left    *)
(* when the spawn is over.                                                 *)
Stage(p) ==
  /\ spawn[p] = "no" => \A e \in EndsOf(p) : e \notin held["host"] /\ closes[e] = 0
  /\ spawn[p] \in {"open", "forked"} => EndsOf(p) \subseteq held["host"]
  /\ spawn[p] = "await" => EndsOf(p) \ {<<p, "readyW">>} \subseteq held["host"]
  /\ spawn[p] \in {"await", "exposed"} => <<p, "readyW">> \notin held["host"]
  /\ spawn[p] = "failed" => EndsOf(p) \cap held["host"] = {}
  /\ spawn[p] = "exposed" => EndsOf(p) \cap held["host"] \subseteq HostEnds(p)

StageInv == \A p \in Procs : Stage(p)

StreamInv ==
  /\ \A s \in Streams : open[s] => s \in held["host"] /\ spawn[s[1]] = "exposed"
  /\ \A c \in Closers : closer[c] # None =>
       closer[c] \in held["host"] /\ ~open[closer[c]] /\ spawn[closer[c][1]] = "exposed"
  /\ \A c, d \in Closers : closer[c] # None /\ closer[c] = closer[d] => c = d

ChildInv == \A p \in Procs : child[p] = "runs" => held[p] \subseteq ChildEnds(p)

JailInv == TypeInv /\ OnceInv /\ StageInv /\ StreamInv /\ ChildInv

-----------------------------------------------------------------------------
(* The ends of a process, and whose they are.                              *)
LEMMA EndsAre ==
  /\ \A p \in Procs : \A e \in EndsOf(p) : e \in Ends /\ e[1] = p
  /\ \A p \in Procs : /\ HostEnds(p) \subseteq EndsOf(p) /\ ChildEnds(p) \subseteq EndsOf(p)
                      /\ <<p, "readyR">> \in EndsOf(p) /\ <<p, "readyW">> \in EndsOf(p)
  /\ \A p \in Procs : /\ <<p, "readyW">> \notin HostEnds(p) \cup ChildEnds(p) \cup {<<p, "readyR">>}
                      /\ <<p, "readyR">> \notin HostEnds(p) /\ HostEnds(p) \cap ChildEnds(p) = {}
  /\ \A p \in Procs : EndsOf(p) \ {<<p, "readyW">>} = HostEnds(p) \cup ChildEnds(p) \cup {<<p, "readyR">>}
  /\ \A s \in Streams : s \in Ends /\ s[1] \in Procs /\ s \in HostEnds(s[1])
  /\ \A p \in Procs : \A s \in HostEnds(p) : s \in Streams /\ s[1] = p
<1>1. ASSUME NEW p \in Procs, NEW e \in EndsOf(p) PROVE e \in Ends /\ e[1] = p
  <2>1. e \in Ends BY DEF Ends
  <2>2. e[1] = p BY DEF EndsOf, HostEnds, ChildEnds, ReadyEnds
  <2> QED BY <2>1, <2>2
<1>2. ASSUME NEW p \in Procs
      PROVE  /\ HostEnds(p) \subseteq EndsOf(p) /\ ChildEnds(p) \subseteq EndsOf(p)
             /\ <<p, "readyR">> \in EndsOf(p) /\ <<p, "readyW">> \in EndsOf(p)
  BY DEF EndsOf, ReadyEnds
<1>3. ASSUME NEW p \in Procs
      PROVE  /\ <<p, "readyW">> \notin HostEnds(p) \cup ChildEnds(p) \cup {<<p, "readyR">>}
             /\ <<p, "readyR">> \notin HostEnds(p) /\ HostEnds(p) \cap ChildEnds(p) = {}
  BY DEF HostEnds, ChildEnds
<1>4. ASSUME NEW p \in Procs
      PROVE  EndsOf(p) \ {<<p, "readyW">>} = HostEnds(p) \cup ChildEnds(p) \cup {<<p, "readyR">>}
  BY <1>3 DEF EndsOf, ReadyEnds
<1>5. ASSUME NEW p \in Procs, NEW s \in HostEnds(p) PROVE s \in Streams /\ s[1] = p
  <2>1. s \in Streams BY DEF Streams
  <2> QED BY <1>1, <1>2, <2>1
<1>6. ASSUME NEW s \in Streams PROVE s \in Ends /\ s[1] \in Procs /\ s \in HostEnds(s[1])
  <2>1. PICK p \in Procs : s \in HostEnds(p) BY DEF Streams
  <2> QED BY <1>1, <1>2, <1>5, <2>1
<1> QED BY <1>1, <1>2, <1>3, <1>4, <1>5, <1>6

(* What a failing spawn made, and what it cut, are its own ends.           *)
LEMMA PairsAre ==
  ASSUME NEW p \in Procs, NEW i \in 1..Len(PairsOf(p))
  PROVE  /\ PairsOf(p)[i] \subseteq EndsOf(p)
         /\ Made(p, i - 1) \subseteq EndsOf(p) /\ Made(p, i - 1) \cap PairsOf(p)[i] = {}
<1>1. Len(PairsOf(p)) \in Nat /\ \A j \in 1..Len(PairsOf(p)) : PairsOf(p)[j] \subseteq EndsOf(p)
  <2>1. CASE p \in Consoles
    <3>1. PairsOf(p) = <<{<<p, "master">>, <<p, "slave">>}, ReadyEnds(p)>> BY <2>1 DEF PairsOf
    <3>2. {<<p, "master">>, <<p, "slave">>} \subseteq EndsOf(p) /\ ReadyEnds(p) \subseteq EndsOf(p)
      BY <2>1 DEF EndsOf, HostEnds, ChildEnds
    <3> QED BY <3>1, <3>2
  <2>2. CASE p \notin Consoles
    <3>1. PairsOf(p) = <<{<<p, "inR">>, <<p, "inW">>}, {<<p, "outR">>, <<p, "outW">>}, ReadyEnds(p)>>
      BY <2>2 DEF PairsOf
    <3>2. /\ {<<p, "inR">>, <<p, "inW">>} \subseteq EndsOf(p) /\ {<<p, "outR">>, <<p, "outW">>} \subseteq EndsOf(p)
          /\ ReadyEnds(p) \subseteq EndsOf(p)
      BY <2>2 DEF EndsOf, HostEnds, ChildEnds
    <3> QED BY <3>1, <3>2
  <2> QED BY <2>1, <2>2
<1>2. \A j \in 1..i - 1 : j \in 1..Len(PairsOf(p)) BY <1>1
<1>3. Made(p, i - 1) \subseteq EndsOf(p) BY <1>1, <1>2 DEF Made
<1>4. \A j \in 1..i - 1 : PairsOf(p)[j] \cap PairsOf(p)[i] = {} BY <1>1, <1>2 DEF PairsOf, ReadyEnds
<1>5. Made(p, i - 1) \cap PairsOf(p)[i] = {} BY <1>4 DEF Made
<1> QED BY <1>1, <1>3, <1>5

LEMMA HostIs == "host" \notin Procs
BY JailAssumption

(* The host closes what it has, or what was cut. *)
LEMMA HostClosesOwn ==
  ASSUME TypeInv, OnceInv, NEW es, es \subseteq held["host"] \cup cut, HostCloses(es), cut' = cut
  PROVE  /\ OnceInv' /\ held' \in [{"host"} \cup Procs -> SUBSET Ends] /\ closes' \in [Ends -> Nat]
         /\ held'["host"] = held["host"] \ es /\ \A p \in Procs : held'[p] = held[p]
         /\ \A e \in Ends \ es : closes'[e] = closes[e]
<1>1. held \in [{"host"} \cup Procs -> SUBSET Ends] /\ closes \in [Ends -> Nat] BY DEF TypeInv
<1>2. held' = [held EXCEPT !["host"] = held["host"] \ es] BY DEF HostCloses
<1>3. \A e \in Ends : closes'[e] = IF e \in es THEN closes[e] + 1 ELSE closes[e] BY DEF HostCloses
<1>4. closes' \in [Ends -> Nat] BY <1>1 DEF HostCloses
<1>5. /\ held' \in [{"host"} \cup Procs -> SUBSET Ends] /\ held'["host"] = held["host"] \ es
      /\ \A p \in Procs : held'[p] = held[p]
  BY <1>1, <1>2, HostIs
<1>6. OnceInv'
  <2> SUFFICES ASSUME NEW e \in Ends PROVE (closes'[e] <= 1 \/ e \in cut) /\ (e \in held'["host"] => closes'[e] = 0)
    BY DEF OnceInv
  <2>1. closes[e] \in Nat /\ (closes[e] <= 1 \/ e \in cut) /\ (e \in held["host"] => closes[e] = 0) BY <1>1 DEF OnceInv
  <2>2. CASE e \in es BY <1>3, <1>5, <2>1, <2>2
  <2>3. CASE e \notin es BY <1>3, <1>5, <2>1, <2>3
  <2> QED BY <2>2, <2>3
<1> QED BY <1>3, <1>4, <1>5, <1>6

(* What a step of p does not change for another process, *)
LEMMA StageFrame ==
  ASSUME StageInv, NEW q \in Procs, spawn'[q] = spawn[q],
         \A e \in EndsOf(q) : (e \in held'["host"] <=> e \in held["host"]) /\ closes'[e] = closes[e]
  PROVE  Stage(q)'
<1>1. Stage(q) BY DEF StageInv
<1>2. <<q, "readyW">> \in EndsOf(q) BY EndsAre
<1> QED BY <1>1, <1>2 DEF Stage

(* and for the streams. *)
LEMMA StreamFrame ==
  ASSUME TypeInv, StreamInv, open' = open, closer' = closer,
         \A s \in Streams : spawn[s[1]] = "exposed" =>
           spawn'[s[1]] = "exposed" /\ (s \in held["host"] => s \in held'["host"])
  PROVE  StreamInv'
<1>1. \A c \in Closers : closer[c] # None => closer[c] \in Streams BY DEF TypeInv
<1> QED BY <1>1 DEF StreamInv

(* Steps of the children: the host has what it had.                        *)
LEMMA HostUntouched ==
  ASSUME TypeInv, OnceInv, StageInv, StreamInv, UNCHANGED <<spawn, closes, cut, open, closer>>,
         held'["host"] = held["host"]
  PROVE  OnceInv' /\ StageInv' /\ StreamInv'
<1>1. OnceInv' BY DEF OnceInv
<1>2. StageInv' BY StageFrame DEF StageInv
<1>3. StreamInv' BY StreamFrame
<1> QED BY <1>1, <1>2, <1>3

LEMMA ChildKeeps ==
  ASSUME JailInv, NEW p \in Procs, NEW h \in SUBSET Ends,
         NEW k \in {"none", "born", "grouped", "told", "runs", "reaped"},
         UNCHANGED <<spawn, closes, cut, open, closer>>, held' = [held EXCEPT ![p] = h],
         child' = [child EXCEPT ![p] = k], k = "runs" => h \subseteq ChildEnds(p)
  PROVE  JailInv'
<1>1. held \in [{"host"} \cup Procs -> SUBSET Ends] BY DEF JailInv, TypeInv
<1>2. held' \in [{"host"} \cup Procs -> SUBSET Ends] /\ held'["host"] = held["host"] /\ held'[p] = h
      /\ \A q \in Procs \ {p} : held'[q] = held[q]
  BY <1>1, HostIs
<1>3. TypeInv' BY <1>2 DEF JailInv, TypeInv
<1>4. OnceInv' /\ StageInv' /\ StreamInv' BY <1>2, HostUntouched DEF JailInv
<1>5. ChildInv' BY <1>2 DEF JailInv, TypeInv, ChildInv
<1> QED BY <1>3, <1>4, <1>5 DEF JailInv

LEMMA ChildStepKeeps ==
  ASSUME JailInv, NEW p \in Procs,
         \/ ChildStep(p) \/ ChildFails(p) \/ GuestForks(p) \/ \E who \in {"root", "kin"} : GuestEnds(p, who)
         \/ Reap(p) \/ Kill(p) \/ \E signal \in {"TERM", "KILL"} : Aim(p, signal)
  PROVE  JailInv'
<1> DEFINE Where == {"none", "born", "grouped", "told", "runs", "reaped"}
<1>1. held \in [{"host"} \cup Procs -> SUBSET Ends] /\ child \in [Procs -> Where] BY DEF JailInv, TypeInv
<1>2. child[p] = "runs" => held[p] \subseteq ChildEnds(p) BY DEF JailInv, ChildInv
<1>3. held = [held EXCEPT ![p] = held[p]] /\ child = [child EXCEPT ![p] = child[p]] BY <1>1
<1>4. UNCHANGED <<spawn, closes, cut, open, closer>>
  BY DEF ChildStep, Setsid, TellReady, Exec, ChildFails, GuestForks, GuestEnds, Reap, Kill, Aim, spawnVars, hostVars
<1>5. \E h \in SUBSET Ends, k \in Where :
        /\ held' = [held EXCEPT ![p] = h] /\ child' = [child EXCEPT ![p] = k]
        /\ k = "runs" => h \subseteq ChildEnds(p)
  <2>1. CASE Setsid(p) BY <1>1, <2>1 DEF Setsid
  <2>2. CASE TellReady(p) BY <1>1, <2>2 DEF TellReady
  <2>3. CASE Exec(p)
    <3>1. ChildEnds(p) \in SUBSET Ends BY EndsAre
    <3> QED BY <2>3, <3>1 DEF Exec
  <2>4. CASE ChildFails(p)
    <3>1. child[p] # "runs" /\ child' = child BY <2>4 DEF ChildFails
    <3>2. held' = [held EXCEPT ![p] = {}] \/ held' = held BY <1>3, <2>4 DEF ChildFails, Dies
    <3> QED BY <1>1, <1>3, <3>1, <3>2
  <2>5. CASE (\E who \in {"root", "kin"} : GuestEnds(p, who)) \/ Kill(p)
    <3>1. child' = child BY <2>5 DEF GuestEnds, Kill
    <3>2. held' = [held EXCEPT ![p] = {}] \/ held' = held BY <1>3, <2>5 DEF GuestEnds, Kill, Dies
    <3> QED BY <1>1, <1>2, <1>3, <3>1, <3>2
  <2>6. CASE GuestForks(p) \/ \E signal \in {"TERM", "KILL"} : Aim(p, signal)
    <3>1. child' = child /\ held' = held BY <2>6 DEF GuestForks, Aim, spawnVars, childVars
    <3> QED BY <1>1, <1>2, <1>3, <3>1
  <2>7. CASE Reap(p)
    <3>1. child' = [child EXCEPT ![p] = "reaped"] /\ held' = held BY <2>7 DEF Reap, spawnVars
    <3> QED BY <1>1, <1>3, <3>1
  <2> QED BY <2>1, <2>2, <2>3, <2>4, <2>5, <2>6, <2>7 DEF ChildStep
<1> QED BY <1>4, <1>5, ChildKeeps

-----------------------------------------------------------------------------
(* The spawn in the host.                                                  *)

(* What a step of visjail_spawn of p leaves to show: what the host has of  *)
(* p itself.                                                               *)
LEMMA SpawnKeeps ==
  ASSUME JailInv, NEW p \in Procs, NEW x \in SpawnStages, spawn' = [spawn EXCEPT ![p] = x],
         \A e \in Ends : e[1] # p => (e \in held'["host"] <=> e \in held["host"]) /\ closes'[e] = closes[e],
         Stage(p)'
  PROVE  /\ StageInv' /\ spawn' \in [Procs -> SpawnStages]
         /\ spawn[p] # "exposed" /\ open' = open /\ closer' = closer => StreamInv'
<1>1. spawn \in [Procs -> SpawnStages] BY DEF JailInv, TypeInv
<1>2. spawn'[p] = x /\ \A q \in Procs \ {p} : spawn'[q] = spawn[q] BY <1>1
<1>3. StageInv'
  <2> SUFFICES ASSUME NEW q \in Procs PROVE Stage(q)' BY DEF StageInv
  <2>1. CASE q = p BY <2>1
  <2>2. CASE q # p
    <3>1. \A e \in EndsOf(q) : (e \in held'["host"] <=> e \in held["host"]) /\ closes'[e] = closes[e]
      BY <2>2, EndsAre
    <3> QED BY <1>2, <2>2, <3>1, StageFrame DEF JailInv
  <2> QED BY <2>1, <2>2
<1>4. ASSUME spawn[p] # "exposed", open' = open, closer' = closer PROVE StreamInv'
  <2>1. \A s \in Streams : spawn[s[1]] = "exposed" =>
          spawn'[s[1]] = "exposed" /\ (s \in held["host"] => s \in held'["host"])
    BY <1>2, <1>4, EndsAre
  <2> QED BY <1>4, <2>1, StreamFrame DEF JailInv
<1> QED BY <1>1, <1>3, <1>4

LEMMA OpenKeeps ==
  ASSUME JailInv, NEW p \in Procs, Open(p) \/ OpenFails(p) \/ CloexecFails(p) \/ ForkFails(p)
  PROVE  JailInv'
<1>1. /\ held \in [{"host"} \cup Procs -> SUBSET Ends] /\ spawn \in [Procs -> SpawnStages]
      /\ closes \in [Ends -> Nat] /\ cut \subseteq Ends
  BY DEF JailInv, TypeInv
<1>2. UNCHANGED <<child, open, closer>> BY DEF Open, OpenFails, CloexecFails, ForkFails, childVars, hostVars
<1> DEFINE Takes(x, es, lost) ==
        /\ spawn' = [spawn EXCEPT ![p] = x] /\ held' = [held EXCEPT !["host"] = held["host"] \cup es]
        /\ spawn[p] \in {"no", "open"} /\ (spawn[p] = "open" => es = {}) /\ (x = "open" => es = EndsOf(p))
        /\ \A e \in Ends : closes'[e] = IF e \in lost THEN closes[e] + 1 ELSE closes[e]
        /\ closes' \in [Ends -> Nat]
        /\ cut' = cut \cup lost /\ (lost # {} => ~Pipe2) /\ es \cap lost = {} /\ (spawn[p] = "open" => lost = {})
<1>3. PICK x \in {"open", "cleanup"}, es \in SUBSET EndsOf(p), lost \in SUBSET EndsOf(p) : Takes(x, es, lost)
  <2>1. CASE Open(p)
    <3>1. Takes("open", EndsOf(p), {}) BY <1>1, <2>1 DEF Open
    <3> QED BY <3>1
  <2>2. CASE OpenFails(p)
    <3>1. PICK i \in 1..Len(PairsOf(p)) : held' = [held EXCEPT !["host"] = held["host"] \cup Made(p, i - 1)]
      BY <2>2 DEF OpenFails
    <3>2. Made(p, i - 1) \in SUBSET EndsOf(p) BY PairsAre
    <3>3. Takes("cleanup", Made(p, i - 1), {}) BY <1>1, <2>2, <3>1 DEF OpenFails
    <3> QED BY <3>2, <3>3
  <2>3. CASE CloexecFails(p)
    <3>1. PICK i \in 1..Len(PairsOf(p)) :
            /\ held' = [held EXCEPT !["host"] = held["host"] \cup Made(p, i - 1)]
            /\ closes' = [e \in Ends |-> IF e \in PairsOf(p)[i] THEN closes[e] + 1 ELSE closes[e]]
            /\ cut' = cut \cup PairsOf(p)[i]
      BY <2>3 DEF CloexecFails
    <3>2. PICK es \in SUBSET EndsOf(p), lost \in SUBSET EndsOf(p) : es = Made(p, i - 1) /\ lost = PairsOf(p)[i]
      BY PairsAre
    <3>3. es \cap lost = {} BY <3>2, PairsAre
    <3>4. closes' \in [Ends -> Nat] /\ \A e \in Ends : closes'[e] = IF e \in lost THEN closes[e] + 1 ELSE closes[e]
      BY <1>1, <3>1, <3>2
    <3>5. Takes("cleanup", es, lost) BY <2>3, <3>1, <3>2, <3>3, <3>4 DEF CloexecFails
    <3> QED BY <3>5
  <2>4. CASE ForkFails(p)
    <3>1. held' = [held EXCEPT !["host"] = held["host"] \cup {}] BY <1>1, <2>4 DEF ForkFails
    <3>2. Takes("cleanup", {}, {}) BY <1>1, <2>4, <3>1 DEF ForkFails
    <3> QED BY <3>2
  <2> QED BY <2>1, <2>2, <2>3, <2>4
<1>4. \A e \in EndsOf(p) : e \in Ends /\ e[1] = p BY EndsAre
<1>5. /\ held'["host"] = held["host"] \cup es /\ held' \in [{"host"} \cup Procs -> SUBSET Ends]
      /\ \A q \in Procs : held'[q] = held[q]
  BY <1>1, <1>3, <1>4, HostIs
<1>6. \A e \in es \cup lost : closes[e] = 0 /\ e \notin held["host"] BY <1>3 DEF JailInv, StageInv, Stage
<1>7. OnceInv'
  <2>1. ASSUME NEW e \in Ends
        PROVE  (closes'[e] <= 1 \/ e \in cut') /\ (e \in held'["host"] => closes'[e] = 0)
    <3>1. (closes[e] <= 1 \/ e \in cut) /\ (e \in held["host"] => closes[e] = 0) BY DEF JailInv, OnceInv
    <3>2. CASE e \in lost BY <1>3, <1>5, <1>6, <3>2
    <3>3. CASE e \notin lost BY <1>3, <1>5, <1>6, <3>1, <3>3
    <3> QED BY <3>2, <3>3
  <2>2. Pipe2 => cut' = {} BY <1>3 DEF JailInv, OnceInv
  <2> QED BY <2>1, <2>2 DEF OnceInv
<1>8. Stage(p)'
  <2>1. spawn'[p] = x BY <1>1, <1>3
  <2> QED BY <1>3, <1>5, <2>1 DEF Stage
<1>9. x \in SpawnStages BY DEF SpawnStages
<1>10. \A e \in Ends : e[1] # p => (e \in held'["host"] <=> e \in held["host"]) /\ closes'[e] = closes[e]
  BY <1>3, <1>4, <1>5
<1>11. StageInv' /\ spawn' \in [Procs -> SpawnStages] /\ StreamInv'
  BY <1>2, <1>3, <1>8, <1>9, <1>10, SpawnKeeps
<1>12. cut' \subseteq Ends BY <1>1, <1>3, <1>4
<1>13. TypeInv' BY <1>2, <1>3, <1>5, <1>11, <1>12 DEF JailInv, TypeInv
<1>14. ChildInv' BY <1>2, <1>5 DEF JailInv, ChildInv
<1> QED BY <1>7, <1>11, <1>13, <1>14 DEF JailInv

LEMMA ForkKeeps ==
  ASSUME JailInv, NEW p \in Procs, Fork(p) \/ AwaitFails(p)
  PROVE  JailInv'
<1>1. held \in [{"host"} \cup Procs -> SUBSET Ends] /\ spawn \in [Procs -> SpawnStages] BY DEF JailInv, TypeInv
<1>2. UNCHANGED <<closes, cut, open, closer>> BY DEF Fork, AwaitFails, hostVars
<1>3. PICK x \in {"forked", "cleanup"}, h \in SUBSET Ends, k \in {"born", "reaped"} :
        /\ spawn' = [spawn EXCEPT ![p] = x] /\ held' = [held EXCEPT ![p] = h] /\ child' = [child EXCEPT ![p] = k]
        /\ spawn[p] \in {"open", "await"} /\ (x = "forked" => spawn[p] = "open")
  BY <1>1 DEF Fork, AwaitFails
<1>4. /\ held'["host"] = held["host"] /\ held' \in [{"host"} \cup Procs -> SUBSET Ends]
      /\ \A q \in Procs \ {p} : held'[q] = held[q]
  BY <1>1, <1>3, HostIs
<1>5. Stage(p)'
  <2>1. spawn'[p] = x BY <1>1, <1>3
  <2>2. x = "forked" => EndsOf(p) \subseteq held'["host"] BY <1>3, <1>4 DEF JailInv, StageInv, Stage
  <2> QED BY <2>1, <2>2 DEF Stage
<1>6. x \in SpawnStages BY DEF SpawnStages
<1>7. StageInv' /\ spawn' \in [Procs -> SpawnStages] /\ StreamInv'
  BY <1>2, <1>3, <1>4, <1>5, <1>6, SpawnKeeps
<1>8. OnceInv' BY <1>2, <1>4 DEF JailInv, OnceInv
<1>9. TypeInv' BY <1>2, <1>3, <1>4, <1>7 DEF JailInv, TypeInv
<1>10. ChildInv' BY <1>3, <1>4 DEF JailInv, TypeInv, ChildInv
<1> QED BY <1>7, <1>8, <1>9, <1>10 DEF JailInv

LEMMA CloseReadyKeeps ==
  ASSUME JailInv, NEW p \in Procs, CloseReady(p) \/ Cleanup(p)
  PROVE  JailInv'
<1>1. spawn \in [Procs -> SpawnStages] BY DEF JailInv, TypeInv
<1>2. UNCHANGED <<child, cut, open, closer>> BY DEF CloseReady, Cleanup, childVars, hostVars
<1>3. PICK x \in {"await", "failed"}, es \in SUBSET EndsOf(p) :
        /\ spawn' = [spawn EXCEPT ![p] = x] /\ HostCloses(es) /\ spawn[p] \in {"forked", "cleanup"}
        /\ x = "await" => spawn[p] = "forked" /\ es = {<<p, "readyW">>}
        /\ x = "failed" => es = EndsOf(p) \cap (held["host"] \cup cut)
  <2>1. CASE CloseReady(p)
    <3>1. {<<p, "readyW">>} \in SUBSET EndsOf(p) BY EndsAre
    <3> QED BY <2>1, <3>1 DEF CloseReady
  <2>2. CASE Cleanup(p)
    <3>1. StillSet(p) \in SUBSET EndsOf(p) BY DEF StillSet
    <3> QED BY <2>2, <3>1 DEF Cleanup, StillSet
  <2> QED BY <2>1, <2>2
<1>4. spawn[p] = "forked" => EndsOf(p) \subseteq held["host"] BY DEF JailInv, StageInv, Stage
<1>5. es \subseteq held["host"] \cup cut BY <1>3, <1>4
<1>6. /\ OnceInv' /\ held' \in [{"host"} \cup Procs -> SUBSET Ends] /\ closes' \in [Ends -> Nat]
      /\ held'["host"] = held["host"] \ es /\ \A q \in Procs : held'[q] = held[q]
      /\ \A e \in Ends \ es : closes'[e] = closes[e]
  BY <1>2, <1>3, <1>5, HostClosesOwn DEF JailInv
<1>7. \A e \in EndsOf(p) : e \in Ends /\ e[1] = p BY EndsAre
<1>8. Stage(p)'
  <2>1. spawn'[p] = x BY <1>1, <1>3
  <2>2. x = "await" => /\ EndsOf(p) \ {<<p, "readyW">>} \subseteq held'["host"]
                       /\ <<p, "readyW">> \notin held'["host"]
    BY <1>3, <1>4, <1>6
  <2>3. x = "failed" => EndsOf(p) \cap held'["host"] = {} BY <1>3, <1>6
  <2> QED BY <2>1, <2>2, <2>3 DEF Stage
<1>9. x \in SpawnStages BY DEF SpawnStages
<1>10. StageInv' /\ spawn' \in [Procs -> SpawnStages] /\ StreamInv'
  BY <1>2, <1>3, <1>6, <1>7, <1>8, <1>9, SpawnKeeps
<1>11. TypeInv' BY <1>2, <1>6, <1>10 DEF JailInv, TypeInv
<1>12. ChildInv' BY <1>2, <1>6 DEF JailInv, ChildInv
<1> QED BY <1>6, <1>10, <1>11, <1>12 DEF JailInv

(* The host's ends become streams: from here on only their flags decide.   *)
LEMMA ExposeKeeps ==
  ASSUME JailInv, NEW p \in Procs, Expose(p)
  PROVE  JailInv'
<1>1. spawn \in [Procs -> SpawnStages] /\ open \in [Streams -> BOOLEAN] BY DEF JailInv, TypeInv
<1>2. PICK es : es = {<<p, "readyR">>} \cup ChildEnds(p) OBVIOUS
<1>3. /\ spawn[p] = "await" /\ HostCloses(es) /\ spawn' = [spawn EXCEPT ![p] = "exposed"]
      /\ open' = [s \in Streams |-> open[s] \/ s \in HostEnds(p)] /\ UNCHANGED <<child, cut, closer>>
  BY <1>2 DEF Expose, childVars
<1>4. EndsOf(p) \ {<<p, "readyW">>} \subseteq held["host"] /\ <<p, "readyW">> \notin held["host"]
  BY <1>3 DEF JailInv, StageInv, Stage
<1>5. EndsOf(p) \ {<<p, "readyW">>} = HostEnds(p) \cup es /\ HostEnds(p) \cap es = {}
  <2>1. EndsOf(p) \ {<<p, "readyW">>} = (HostEnds(p) \cup ChildEnds(p)) \cup {<<p, "readyR">>} BY EndsAre
  <2>2. <<p, "readyR">> \notin HostEnds(p) /\ HostEnds(p) \cap ChildEnds(p) = {} BY EndsAre
  <2> QED BY <1>2, <2>1, <2>2
<1>6. es \subseteq held["host"] BY <1>4, <1>5
<1>7. /\ OnceInv' /\ held' \in [{"host"} \cup Procs -> SUBSET Ends] /\ closes' \in [Ends -> Nat]
      /\ held'["host"] = held["host"] \ es /\ \A q \in Procs : held'[q] = held[q]
      /\ \A e \in Ends \ es : closes'[e] = closes[e]
  BY <1>3, <1>6, HostClosesOwn DEF JailInv
<1>8. \A e \in EndsOf(p) : e \in Ends /\ e[1] = p BY EndsAre
<1>9. es \subseteq EndsOf(p) BY <1>5
<1>10. spawn'[p] = "exposed" /\ \A q \in Procs \ {p} : spawn'[q] = spawn[q] BY <1>1, <1>3
<1>11. Stage(p)'
  <2>1. <<p, "readyW">> \notin held'["host"] BY <1>4, <1>7
  <2>2. EndsOf(p) \cap held'["host"] \subseteq HostEnds(p) BY <1>4, <1>5, <1>7
  <2> QED BY <1>10, <2>1, <2>2 DEF Stage
<1>12. "exposed" \in SpawnStages BY DEF SpawnStages
<1>13. StageInv' /\ spawn' \in [Procs -> SpawnStages]
  BY <1>3, <1>7, <1>8, <1>9, <1>11, <1>12, SpawnKeeps
<1>14. StreamInv'
  <2>1. HostEnds(p) \subseteq held'["host"] BY <1>4, <1>5, <1>7
  <2>2. \A s \in Streams : s \in HostEnds(p) <=> s[1] = p BY EndsAre
  <2>3. \A s \in Streams : open'[s] <=> open[s] \/ s \in HostEnds(p) BY <1>3
  <2>4. \A s \in Streams : s \in held["host"] /\ s[1] # p => s \in held'["host"] BY <1>7, <1>8, <1>9
  <2>5. \A s \in Streams : s[1] \in Procs BY EndsAre
  <2>6. \A s \in Streams : open'[s] => s \in held'["host"] /\ spawn'[s[1]] = "exposed"
    BY <1>10, <2>1, <2>2, <2>3, <2>4, <2>5 DEF JailInv, StreamInv
  <2>7. ASSUME NEW c \in Closers, closer[c] # None
        PROVE  closer[c] \in held'["host"] /\ ~open'[closer[c]] /\ spawn'[closer[c][1]] = "exposed"
    <3>1. PICK s \in Streams : s = closer[c] BY <2>7 DEF JailInv, TypeInv
    <3>2. s \in held["host"] /\ ~open[s] /\ spawn[s[1]] = "exposed" BY <2>7, <3>1 DEF JailInv, StreamInv
    <3>3. s[1] # p BY <1>3, <3>2
    <3> QED BY <1>10, <2>2, <2>3, <2>4, <2>5, <3>1, <3>2, <3>3
  <2> QED BY <1>3, <2>6, <2>7 DEF JailInv, StreamInv
<1>15. open' \in [Streams -> BOOLEAN] BY <1>3
<1>16. TypeInv' BY <1>3, <1>7, <1>13, <1>15 DEF JailInv, TypeInv
<1>17. ChildInv' BY <1>3, <1>7 DEF JailInv, ChildInv
<1> QED BY <1>7, <1>13, <1>14, <1>16, <1>17 DEF JailInv

-----------------------------------------------------------------------------
(* Streams.                                                                *)

LEMMA WinKeeps ==
  ASSUME JailInv, NEW c \in Closers, NEW s \in Streams, CloseStream(c, s)
  PROVE  JailInv'
<1>1. /\ closer[c] = None /\ open[s] /\ open' = [open EXCEPT ![s] = FALSE]
      /\ closer' = [closer EXCEPT ![c] = s] /\ UNCHANGED <<spawn, held, closes, cut, child>>
  BY DEF CloseStream, Wins, spawnVars, childVars
<1>2. open \in [Streams -> BOOLEAN] /\ closer \in [Closers -> Streams \cup {None}] BY DEF JailInv, TypeInv
<1>3. TypeInv' BY <1>1, <1>2 DEF JailInv, TypeInv
<1>4. OnceInv' /\ ChildInv' BY <1>1 DEF JailInv, OnceInv, ChildInv
<1>5. StageInv' BY <1>1 DEF JailInv, StageInv, Stage
<1>6. StreamInv'
  <2>1. s \in held["host"] /\ spawn[s[1]] = "exposed" BY <1>1 DEF JailInv, StreamInv
  <2>2. \A d \in Closers : closer[d] # None => closer[d] # s BY <1>1 DEF JailInv, StreamInv
  <2>3. closer'[c] = s /\ \A d \in Closers \ {c} : closer'[d] = closer[d] BY <1>1, <1>2
  <2>4. ~open'[s] /\ \A r \in Streams : open'[r] => open[r] BY <1>1, <1>2
  <2>5. \A r \in Streams : open'[r] => r \in held'["host"] /\ spawn'[r[1]] = "exposed"
    BY <1>1, <2>4 DEF JailInv, StreamInv
  <2>6. \A d \in Closers : closer'[d] # None =>
          closer'[d] \in held'["host"] /\ ~open'[closer'[d]] /\ spawn'[closer'[d][1]] = "exposed"
    BY <1>1, <1>2, <2>1, <2>3, <2>4 DEF JailInv, StreamInv
  <2>7. \A d, e \in Closers : closer'[d] # None /\ closer'[d] = closer'[e] => d = e
    BY <2>2, <2>3 DEF JailInv, StreamInv
  <2> QED BY <2>5, <2>6, <2>7 DEF StreamInv
<1> QED BY <1>3, <1>4, <1>5, <1>6 DEF JailInv

LEMMA CloseKeeps ==
  ASSUME JailInv, NEW c \in Closers, Close(c)
  PROVE  JailInv'
<1>1. closer \in [Closers -> Streams \cup {None}] /\ open \in [Streams -> BOOLEAN] BY DEF JailInv, TypeInv
<1>2. PICK s \in Streams : s = closer[c] /\ s # None BY <1>1 DEF Close
<1>3. HostCloses({s}) /\ closer' = [closer EXCEPT ![c] = None] /\ UNCHANGED <<spawn, cut, open, child>>
  BY <1>2 DEF Close, childVars
<1>4. s \in held["host"] /\ ~open[s] /\ spawn[s[1]] = "exposed" BY <1>2 DEF JailInv, StreamInv
<1>5. /\ OnceInv' /\ held' \in [{"host"} \cup Procs -> SUBSET Ends] /\ closes' \in [Ends -> Nat]
      /\ held'["host"] = held["host"] \ {s} /\ \A q \in Procs : held'[q] = held[q]
      /\ \A e \in Ends \ {s} : closes'[e] = closes[e]
  BY <1>3, <1>4, HostClosesOwn DEF JailInv
<1>6. TypeInv' BY <1>1, <1>3, <1>5 DEF JailInv, TypeInv
<1>7. ChildInv' BY <1>3, <1>5 DEF JailInv, ChildInv
<1>8. StageInv'
  <2> SUFFICES ASSUME NEW p \in Procs PROVE Stage(p)' BY DEF StageInv
  <2>1. CASE spawn[p] = "exposed" BY <1>3, <1>5, <2>1 DEF JailInv, StageInv, Stage
  <2>2. CASE spawn[p] # "exposed"
    <3>1. s \notin EndsOf(p) BY <1>4, <2>2, EndsAre
    <3>2. \A e \in EndsOf(p) : (e \in held'["host"] <=> e \in held["host"]) /\ closes'[e] = closes[e]
      BY <1>5, <3>1, EndsAre
    <3> QED BY <1>3, <3>2, StageFrame DEF JailInv
  <2> QED BY <2>1, <2>2
<1>9. StreamInv'
  <2>1. closer'[c] = None /\ \A d \in Closers \ {c} : closer'[d] = closer[d] BY <1>1, <1>3
  <2>2. \A d \in Closers \ {c} : closer[d] # s BY <1>2 DEF JailInv, StreamInv
  <2>3. \A r \in Streams : open'[r] => r \in held'["host"] /\ spawn'[r[1]] = "exposed"
    BY <1>3, <1>4, <1>5 DEF JailInv, StreamInv
  <2>4. \A d \in Closers : closer'[d] # None =>
          closer'[d] \in held'["host"] /\ ~open'[closer'[d]] /\ spawn'[closer'[d][1]] = "exposed"
    BY <1>3, <1>5, <2>1, <2>2 DEF JailInv, StreamInv
  <2>5. \A d, e \in Closers : closer'[d] # None /\ closer'[d] = closer'[e] => d = e
    BY <2>1 DEF JailInv, StreamInv
  <2> QED BY <2>3, <2>4, <2>5 DEF StreamInv
<1> QED BY <1>5, <1>6, <1>7, <1>8, <1>9 DEF JailInv

-----------------------------------------------------------------------------
LEMMA InitIsJailInv == Init => JailInv
<1> SUFFICES ASSUME Init PROVE JailInv OBVIOUS
<1>1. TypeInv BY DEF Init, TypeInv, SpawnStages
<1>2. OnceInv BY DEF Init, OnceInv
<1>3. StageInv
  <2>1. held["host"] = {} /\ \A e \in Ends : closes[e] = 0 BY DEF Init
  <2>2. \A p \in Procs : spawn[p] = "no" BY DEF Init
  <2> QED BY <2>1, <2>2, EndsAre DEF StageInv, Stage
<1>4. StreamInv BY DEF Init, StreamInv
<1>5. ChildInv BY DEF Init, ChildInv
<1> QED BY <1>1, <1>2, <1>3, <1>4, <1>5 DEF JailInv

LEMMA NextKeepsJailInv == JailInv /\ [Next]_vars => JailInv'
<1> SUFFICES ASSUME JailInv, [Next]_vars PROVE JailInv' OBVIOUS
<1>1. CASE UNCHANGED vars
  <2>1. UNCHANGED <<spawn, held, closes, cut, child, open, closer>> BY <1>1 DEF vars, spawnVars, childVars, hostVars
  <2> QED BY <2>1 DEF JailInv, TypeInv, OnceInv, StageInv, Stage, StreamInv, ChildInv
<1>2. ASSUME NEW p \in Procs,
             Open(p) \/ OpenFails(p) \/ CloexecFails(p) \/ ForkFails(p) \/ SpawnStep(p) \/ AwaitFails(p)
      PROVE JailInv'
  BY <1>2, OpenKeeps, ForkKeeps, CloseReadyKeeps, ExposeKeeps DEF SpawnStep
<1>3. ASSUME NEW p \in Procs,
             \/ ChildStep(p) \/ ChildFails(p) \/ GuestForks(p) \/ \E who \in {"root", "kin"} : GuestEnds(p, who)
             \/ Reap(p) \/ Kill(p) \/ \E signal \in {"TERM", "KILL"} : Aim(p, signal)
      PROVE JailInv'
  BY <1>3, ChildStepKeeps
<1>4. ASSUME NEW c \in Closers, Close(c) \/ \E s \in Streams : CloseStream(c, s) PROVE JailInv'
  BY <1>4, CloseKeeps, WinKeeps
<1> QED BY <1>1, <1>2, <1>3, <1>4 DEF Next

(* The host's descriptors at every stage of visjail_spawn and the streams  *)
(* of JailedProcess: what the host may still close, it has open, but the   *)
(* ends of a pipe whose fcntl failed; with pipe2 there are none of those.  *)
THEOREM JailInvariant == Spec => []JailInv
<1>1. Init => JailInv BY InitIsJailInv
<1>2. JailInv /\ [Next]_vars => JailInv' BY NextKeepsJailInv
<1> QED BY <1>1, <1>2, PTL DEF Spec

(* No descriptor is left open by a failed spawn, a command has nothing of  *)
(* the other processes, and none is closed twice with pipe2, nor without   *)
(* but for a pipe whose fcntl failed, however many spawns, closes and      *)
(* failures overlap (visjail_spawn, close_from_three, JailedProcess).      *)
THEOREM DescriptorsAreExact == Spec => []DescriptorsExact
<1>1. JailInv => DescriptorsExact
  BY DEF JailInv, OnceInv, StageInv, Stage, ChildInv, DescriptorsExact
<1> QED BY <1>1, JailInvariant, PTL
=============================================================================
