-------------------------------- MODULE Jail --------------------------------
(* Processes on Linux and macOS: visjail_spawn with its ready handshake    *)
(* (visjail.c), and the host object with its reaper, its destroy and its   *)
(* streams (JailedProcess.java).  Several spawns run at once in one host,  *)
(* so a child inherits the descriptors of the others until it closes what  *)
(* is not its own.                                                         *)
EXTENDS Integers, Sequences

CONSTANTS
  Procs,       \* processes the host spawns
  Consoles,    \* those on a pseudo terminal
  Closers,     \* host threads that close streams
  MaxFaults,   \* system calls that may fail in a behaviour
  Pipe2,       \* make_pipe is one call (Linux), not pipe and two of fcntl
  None

ASSUME JailAssumption ==
  Consoles \subseteq Procs /\ MaxFaults \in Nat /\ Pipe2 \in BOOLEAN /\ "host" \notin Procs

(* The ends of p: the ready pipe, the streams the host keeps, and the      *)
(* child's standard streams (separate error pipes are one more output).    *)
HostEnds(p) == IF p \in Consoles THEN {<<p, "master">>} ELSE {<<p, "inW">>, <<p, "outR">>}
ChildEnds(p) == IF p \in Consoles THEN {<<p, "slave">>} ELSE {<<p, "inR">>, <<p, "outW">>}
ReadyEnds(p) == {<<p, "readyR">>, <<p, "readyW">>}
EndsOf(p) == HostEnds(p) \cup ChildEnds(p) \cup ReadyEnds(p)
Ends == UNION {EndsOf(p) : p \in Procs}

(* The pairs of ends in the order visjail_spawn makes them. *)
PairsOf(p) == IF p \in Consoles THEN <<{<<p, "master">>, <<p, "slave">>}, ReadyEnds(p)>>
              ELSE <<{<<p, "inR">>, <<p, "inW">>}, {<<p, "outR">>, <<p, "outW">>}, ReadyEnds(p)>>
Streams == UNION {HostEnds(p) : p \in Procs}

VARIABLES
  spawn,    \* [Procs -> where visjail_spawn is]
  held,     \* [{"host"} \cup Procs -> ends it has; those of a child are its
            \*   whole group's]
  closes,   \* [Ends -> times the host closed it]
  cut,      \* ends that make_pipe closed itself and left set
  child,    \* [Procs -> where the child is before its command runs]
  group,    \* [Procs -> the live members: "root", "kin"]
  ready,    \* processes whose ready byte is in the pipe
  status,   \* [Procs -> how the root ended, or None]
  exit,     \* [Procs -> the exit future, or None]
  open,     \* [Streams -> its flag]
  closer,   \* [Closers -> the stream it is about to close, or None]
  aim,      \* [Procs -> the destroy that saw it alive: a signal, or None]
  killed,   \* processes a SIGKILL was sent for
  faults

spawnVars == <<spawn, held, closes, cut>>
childVars == <<child, group, ready, status>>
hostVars == <<exit, open, closer, aim, killed>>
vars == <<spawnVars, childVars, hostVars, faults>>

Init ==
  /\ spawn = [p \in Procs |-> "no"] /\ held = [a \in {"host"} \cup Procs |-> {}]
  /\ closes = [e \in Ends |-> 0] /\ cut = {}
  /\ child = [p \in Procs |-> "none"] /\ group = [p \in Procs |-> {}] /\ ready = {}
  /\ status = [p \in Procs |-> None] /\ exit = [p \in Procs |-> None]
  /\ open = [s \in Streams |-> FALSE] /\ closer = [c \in Closers |-> None]
  /\ aim = [p \in Procs |-> None] /\ killed = {} /\ faults = 0

Fault == faults < MaxFaults /\ faults' = faults + 1

HostCloses(es) ==
  /\ held' = [held EXCEPT !["host"] = @ \ es]
  /\ closes' = [e \in Ends |-> IF e \in es THEN closes[e] + 1 ELSE closes[e]]

-----------------------------------------------------------------------------
(* visjail_spawn in the host.                                              *)

Open(p) ==
  /\ spawn[p] = "no"
  /\ spawn' = [spawn EXCEPT ![p] = "open"] /\ held' = [held EXCEPT !["host"] = @ \cup EndsOf(p)]
  /\ UNCHANGED <<closes, cut, childVars, hostVars, faults>>

(* The first i pairs are there and the next cannot be made. *)
Made(p, i) == UNION {PairsOf(p)[j] : j \in 1..i}

OpenFails(p) ==
  /\ spawn[p] = "no" /\ Fault
  /\ \E i \in 1..Len(PairsOf(p)) : held' = [held EXCEPT !["host"] = @ \cup Made(p, i - 1)]
  /\ spawn' = [spawn EXCEPT ![p] = "cleanup"]
  /\ UNCHANGED <<closes, cut, childVars, hostVars>>

(* Without pipe2, make_pipe closes the two ends of its pipe when an fcntl  *)
(* fails, and leaves their numbers where it put them.                      *)
CloexecFails(p) ==
  /\ ~Pipe2 /\ spawn[p] = "no" /\ Fault
  /\ \E i \in 1..Len(PairsOf(p)) :
       LET pipe == PairsOf(p)[i] IN
         /\ pipe # {<<p, "master">>, <<p, "slave">>}
         /\ held' = [held EXCEPT !["host"] = @ \cup Made(p, i - 1)]
         /\ closes' = [e \in Ends |-> IF e \in pipe THEN closes[e] + 1 ELSE closes[e]]
         /\ cut' = cut \cup pipe
  /\ spawn' = [spawn EXCEPT ![p] = "cleanup"]
  /\ UNCHANGED <<childVars, hostVars>>

ForkFails(p) ==
  /\ spawn[p] = "open" /\ Fault /\ spawn' = [spawn EXCEPT ![p] = "cleanup"]
  /\ UNCHANGED <<held, closes, cut, childVars, hostVars>>

(* system_error: every descriptor that is still set is closed. *)
StillSet(p) == EndsOf(p) \cap (held["host"] \cup cut)

Cleanup(p) ==
  /\ spawn[p] = "cleanup" /\ HostCloses(StillSet(p))
  /\ spawn' = [spawn EXCEPT ![p] = "failed"]
  /\ UNCHANGED <<cut, childVars, hostVars, faults>>

(* The child has a copy of everything the host has open at that moment. *)
Fork(p) ==
  /\ spawn[p] = "open"
  /\ spawn' = [spawn EXCEPT ![p] = "forked"] /\ held' = [held EXCEPT ![p] = held["host"]]
  /\ child' = [child EXCEPT ![p] = "born"] /\ group' = [group EXCEPT ![p] = {"root"}]
  /\ UNCHANGED <<closes, cut, ready, status, hostVars, faults>>

CloseReady(p) ==
  /\ spawn[p] = "forked" /\ HostCloses({<<p, "readyW">>})
  /\ spawn' = [spawn EXCEPT ![p] = "await"]
  /\ UNCHANGED <<cut, childVars, hostVars, faults>>

(* Mutant: the parent does not wait for the child's byte. *)
AnsweredAtOnce(p) == TRUE

(* read returns the byte, or the end of the pipe of a child that died. *)
Answered(p) == p \in ready \/ \A a \in {"host"} \cup Procs : <<p, "readyW">> \notin held[a]

(* The pid and the host's ends are given out; the reaper starts. *)
Expose(p) ==
  /\ spawn[p] = "await" /\ Answered(p)
  /\ HostCloses({<<p, "readyR">>} \cup ChildEnds(p))
  /\ spawn' = [spawn EXCEPT ![p] = "exposed"]
  /\ open' = [s \in Streams |-> open[s] \/ s \in HostEnds(p)]
  /\ UNCHANGED <<cut, childVars, exit, closer, aim, killed, faults>>

(* The read fails: the child is killed by group and by pid, and reaped. *)
AwaitFails(p) ==
  /\ spawn[p] = "await" /\ Fault
  /\ group' = [group EXCEPT ![p] = {}] /\ child' = [child EXCEPT ![p] = "reaped"]
  /\ held' = [held EXCEPT ![p] = {}]
  /\ spawn' = [spawn EXCEPT ![p] = "cleanup"]
  /\ UNCHANGED <<closes, cut, ready, status, hostVars>>

-----------------------------------------------------------------------------
(* The child up to its command.                                            *)

Dies(p, who, how) ==
  /\ group' = [group EXCEPT ![p] = @ \ who]
  /\ status' = [status EXCEPT ![p] = IF "root" \in who \cap group[p] THEN how ELSE @]
  /\ held' = [held EXCEPT ![p] = IF group[p] \subseteq who THEN {} ELSE @]

Setsid(p) ==
  /\ child[p] = "born" /\ "root" \in group[p]
  /\ child' = [child EXCEPT ![p] = "grouped"] /\ held' = [held EXCEPT ![p] = @ \ {<<p, "readyR">>}]
  /\ UNCHANGED <<spawn, closes, cut, group, ready, status, hostVars, faults>>

TellReady(p) ==
  /\ child[p] = "grouped" /\ "root" \in group[p]
  /\ ready' = ready \cup {p} /\ child' = [child EXCEPT ![p] = "told"]
  /\ held' = [held EXCEPT ![p] = @ \ {<<p, "readyW">>}]
  /\ UNCHANGED <<spawn, closes, cut, group, status, hostVars, faults>>

(* Standard streams, directory and environment, then close_from_three or   *)
(* the bridge's close_except, and the command.                             *)
Exec(p) ==
  /\ child[p] = "told" /\ "root" \in group[p]
  /\ child' = [child EXCEPT ![p] = "runs"] /\ held' = [held EXCEPT ![p] = ChildEnds(p)]
  /\ UNCHANGED <<spawn, closes, cut, group, ready, status, hostVars, faults>>

(* child_fail, with 125. *)
ChildFails(p) ==
  /\ child[p] \in {"born", "grouped", "told"} /\ "root" \in group[p] /\ Fault
  /\ Dies(p, {"root"}, 125)
  /\ UNCHANGED <<spawn, closes, cut, child, ready, hostVars>>

(* The command forks, and its processes end. *)
GuestForks(p) ==
  /\ child[p] = "runs" /\ group[p] = {"root"}
  /\ group' = [group EXCEPT ![p] = {"root", "kin"}]
  /\ UNCHANGED <<spawnVars, child, ready, status, hostVars, faults>>

GuestEnds(p, who) ==
  /\ child[p] = "runs" /\ who \in group[p] /\ Dies(p, {who}, 0)
  /\ UNCHANGED <<spawn, closes, cut, child, ready, hostVars, faults>>

-----------------------------------------------------------------------------
(* JailedProcess: the reaper, destroy and destroyForcibly.                 *)

(* decode_status; a death by signal n is -n here. *)
Decode(s) == IF s < 0 THEN 128 - s ELSE s

Reap(p) ==
  /\ spawn[p] = "exposed" /\ child[p] \notin {"none", "reaped"} /\ "root" \notin group[p]
  /\ child' = [child EXCEPT ![p] = "reaped"] /\ exit' = [exit EXCEPT ![p] = Decode(status[p])]
  /\ UNCHANGED <<spawnVars, group, ready, status, open, closer, aim, killed, faults>>

Aim(p, signal) ==
  /\ spawn[p] = "exposed" /\ exit[p] = None /\ aim[p] = None
  /\ aim' = [aim EXCEPT ![p] = signal]
  /\ UNCHANGED <<spawnVars, childVars, exit, open, closer, killed, faults>>

(* visjail_kill: kill(-pid) finds the group once the child has made it; a  *)
(* command may ignore SIGTERM.                                             *)
Kill(p) ==
  /\ aim[p] # None
  /\ \/ /\ child[p] # "born" /\ Dies(p, group[p], -9)
     \/ /\ child[p] = "born" \/ aim[p] = "TERM" \/ group[p] = {}
        /\ UNCHANGED <<group, status, held>>
  /\ aim' = [aim EXCEPT ![p] = None]
  /\ killed' = IF aim[p] = "KILL" THEN killed \cup {p} ELSE killed
  /\ UNCHANGED <<spawn, closes, cut, child, ready, exit, open, closer, faults>>

-----------------------------------------------------------------------------
(* Streams: the flag decides which thread closes the descriptor: any that  *)
(* closes a pipe, the one that pumps its output for a terminal.            *)

AtEnd(p) == \A a \in {"host"} \cup Procs :
              <<p, IF p \in Consoles THEN "slave" ELSE "outW">> \notin held[a]

(* Mutant: the stream is closed whatever its flag. *)
WinsAlways(s) == spawn[s[1]] = "exposed"

(* compareAndSet. *)
Wins(s) == open[s]

CloseStream(c, s) ==
  /\ closer[c] = None /\ Wins(s)
  /\ open' = [open EXCEPT ![s] = FALSE] /\ closer' = [closer EXCEPT ![c] = s]
  /\ UNCHANGED <<spawnVars, childVars, exit, aim, killed, faults>>

Close(c) ==
  /\ closer[c] # None /\ HostCloses({closer[c]})
  /\ closer' = [closer EXCEPT ![c] = None]
  /\ UNCHANGED <<spawn, cut, childVars, exit, open, aim, killed, faults>>

-----------------------------------------------------------------------------
SpawnStep(p) == Fork(p) \/ CloseReady(p) \/ Expose(p) \/ Cleanup(p)
ChildStep(p) == Setsid(p) \/ TellReady(p) \/ Exec(p)

Next ==
  \/ \E p \in Procs :
       \/ Open(p) \/ OpenFails(p) \/ CloexecFails(p) \/ ForkFails(p) \/ SpawnStep(p) \/ AwaitFails(p)
       \/ ChildStep(p) \/ ChildFails(p) \/ GuestForks(p) \/ \E who \in {"root", "kin"} : GuestEnds(p, who)
       \/ Reap(p) \/ Kill(p) \/ \E signal \in {"TERM", "KILL"} : Aim(p, signal)
  \/ \E c \in Closers : Close(c) \/ \E s \in Streams : CloseStream(c, s)

(* A spawn in progress, a child on its way to its command, the reaper and  *)
(* a destroy in progress take their next step; a command may run for ever. *)
Fairness == \A p \in Procs : /\ WF_vars(SpawnStep(p)) /\ WF_vars(ChildStep(p))
                             /\ WF_vars(Reap(p)) /\ WF_vars(Kill(p))

Spec == Init /\ [][Next]_vars
FairSpec == Spec /\ Fairness

-----------------------------------------------------------------------------
(* Every descriptor has one owner: the host closes none twice (a second    *)
(* close would hit whatever has its number by then), but where there is no *)
(* pipe2 the ends of a pipe whose fcntl failed, which make_pipe and        *)
(* system_error both close; a spawn that failed leaves none open, a        *)
(* spawned process leaves the host its own ends only, and a running        *)
(* command has its standard streams and nothing of the other processes.    *)
DescriptorsExact ==
  /\ \A e \in Ends : closes[e] <= 1 \/ (~Pipe2 /\ e \in cut)
  /\ \A p \in Procs :
       /\ spawn[p] = "failed" => EndsOf(p) \cap held["host"] = {}
       /\ spawn[p] = "exposed" => EndsOf(p) \cap held["host"] \subseteq HostEnds(p)
       /\ child[p] = "runs" => held[p] \subseteq ChildEnds(p)

(* "The parent must not expose a pid before group-directed signals work": *)
(* a process sent SIGKILL is gone, with its exit known and its output at   *)
(* an end, whichever other spawns had copies of its descriptors.           *)
KilledIsGone == \A p \in Procs : p \in killed ~> (exit[p] # None /\ group[p] = {} /\ AtEnd(p))
=============================================================================
