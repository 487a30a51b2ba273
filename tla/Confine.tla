------------------------------ MODULE Confine ------------------------------
(* Confinement (vispython.c): the roots a host puts in force, and the      *)
(* audit hook that compares a guest's paths with them.  Hosts act on any   *)
(* thread and without the GIL but to read the interpreter's own roots; a   *)
(* hook holds the GIL, which it may lose while an argument's __fspath__    *)
(* runs.  Strings are abstracted to sequences of path components.          *)
EXTENDS Naturals, SequencesExt

CONSTANTS
  Hosts,       \* host threads that set policies
  Threads,     \* guest threads
  Requests,    \* what a host asks for: [read, write] sequences of names
  Events,      \* what a guest does: [kind, mode, flags, args]
  Real,        \* realpath of the paths that exist
  Cwd,         \* the working directory
  MaxPath,     \* components of the longest path (PATH_MAX)
  MaxRoots,    \* VIS_PY_MAX_ROOTS
  Pycache,     \* where bytecode goes, a name
  Installed,   \* sys.prefix and the absolute entries of sys.path, names
  Readable,    \* the devices a guest may read, names
  Writable,    \* and those it may write
  None

ASSUME ConfineAssumption ==
  /\ <<>> \in DOMAIN Real /\ MaxPath \in Nat /\ MaxRoots \in Nat
  /\ None \notin Threads \cup Hosts /\ Hosts \cap Threads = {}

VARIABLES
  python,    \* Py_IsInitialized
  policy,    \* the policy in force: [id, confined, read, write]
  net,       \* vis_py_net_allowed
  lock,      \* vis_py_policy_lock: its holder or None
  host,      \* [Hosts -> the vispython_confine it is in]
  freed,     \* the policies whose strings were freed
  hook       \* [Threads -> the audit event it is in, or its answer]

confineVars == <<python, policy, net, lock, host, freed, hook>>

-----------------------------------------------------------------------------
(* Paths.                                                                  *)

(* vis_py_canonical: the deepest ancestor that resolves, resolved, and the *)
(* missing tail as it was written.                                         *)
Canonical(name) ==
  LET path == IF name.absolute THEN name.parts ELSE Cwd \o name.parts
      deep == CHOOSE k \in 0..Len(path) :
                /\ SubSeq(path, 1, k) \in DOMAIN Real
                /\ \A j \in k+1..Len(path) : SubSeq(path, 1, j) \notin DOMAIN Real
      out == Real[SubSeq(path, 1, deep)] \o SubSeq(path, deep + 1, Len(path))
  IN IF (~name.absolute /\ name.parts = <<>>) \/ Len(path) > MaxPath \/ Len(out) > MaxPath THEN None ELSE out

(* vis_py_under. *)
Under(path, roots) == \E root \in roots : IsPrefix(root, path)

(* vis_py_roots_set, and the loops that call vis_py_roots_add: in order    *)
(* and while there is room; what does not resolve is dropped.              *)
RootsSet(roots, names) ==
  LET upTo(i) == {Canonical(names[j]) : j \in 1..i} \ {None}
  IN roots \cup UNION {IF Cardinality(roots \cup upTo(i - 1)) >= MaxRoots THEN {} ELSE upTo(i) : i \in DOMAIN names}

-----------------------------------------------------------------------------
(* The host: vispython_confine and vispython_network.                      *)

(* A hook holds the GIL but where an argument's own code may run. *)
HasGil(t) == hook[t].at \in {"writes", "reads"}
GilFree == \A t \in Threads : ~HasGil(t)

NoPolicy == [id |-> 0, confined |-> FALSE, read |-> {}, write |-> {}]
NoCall == [at |-> "idle"]

(* The next policy is assembled off to the side: the host's roots first... *)
Assemble(h, r) ==
  /\ host[h] = NoCall
  /\ host' = [host EXCEPT ![h] = [at |-> "own", confined |-> r.read # <<>> \/ r.write # <<>>,
                                  read |-> RootsSet({}, r.read), write |-> RootsSet({}, r.write)]]
  /\ UNCHANGED <<python, policy, net, lock, freed, hook>>

(* ... then the bytecode cache, the installation (under the GIL once there *)
(* is an interpreter) and the devices, when a policy comes into force.     *)
AddOwnRoots(h) ==
  /\ host[h].at = "own" /\ (python /\ host[h].confined => GilFree)
  /\ host' = [host EXCEPT ![h] =
       IF ~host[h].confined THEN [host[h] EXCEPT !.at = "swap"]
       ELSE [host[h] EXCEPT !.at = "swap",
              !.read = RootsSet(@, (IF python THEN Installed ELSE <<>>) \o Readable),
              !.write = RootsSet(@, <<Pycache>> \o Writable)]]
  /\ UNCHANGED <<python, policy, net, lock, freed, hook>>

(* Mutant: the host does not wait for the hook that is comparing. *)
SwapUnlocked(h) ==
  LET next == [id |-> policy.id + 1, confined |-> host[h].confined, read |-> host[h].read, write |-> host[h].write]
  IN /\ host[h].at = "swap"
     /\ policy' = next /\ host' = [host EXCEPT ![h] = [at |-> "clear", old |-> policy.id]]
     /\ hook' = [t \in Threads |-> IF hook[t].at \in {"idle", "answered"} THEN hook[t]
                                   ELSE [hook[t] EXCEPT !.seen = @ \cup {next}]]
     /\ UNCHANGED <<python, net, lock, freed>>

(* The swap, in one hold of the lock; the hooks under way have seen it. *)
Swap(h) ==
  LET next == [id |-> policy.id + 1, confined |-> host[h].confined, read |-> host[h].read, write |-> host[h].write]
  IN /\ host[h].at = "swap" /\ lock = None
     /\ policy' = next /\ host' = [host EXCEPT ![h] = [at |-> "clear", old |-> policy.id]]
     /\ hook' = [t \in Threads |-> IF hook[t].at \in {"idle", "answered"} THEN hook[t]
                                   ELSE [hook[t] EXCEPT !.seen = @ \cup {next}]]
     /\ UNCHANGED <<python, net, lock, freed>>

Clear(h) ==
  /\ host[h].at = "clear"
  /\ freed' = freed \cup {host[h].old} /\ host' = [host EXCEPT ![h] = NoCall]
  /\ UNCHANGED <<python, policy, net, lock, hook>>

Network(h, want) ==
  /\ host[h] = NoCall /\ lock = None /\ net # want /\ net' = want
  /\ UNCHANGED <<python, policy, lock, host, freed, hook>>

-----------------------------------------------------------------------------
(* The guest: vis_py_audit.                                                *)

Quiet == [at |-> "idle"]

(* vis_py_open_writes, and the list of events that write. *)
Writing(e) == IF e.kind = "open" THEN e.mode = "w" \/ e.flags = "w" ELSE e.kind = "write"

Answer(ok, path, writing, passed, seen) ==
  [at |-> "answered", ok |-> ok, path |-> path, writing |-> writing, passed |-> passed, seen |-> seen]

(* The first lines of the hook read the flags without the lock; a refusal  *)
(* in the host's words copies them under it.                               *)
Begin(t, e) ==
  LET refused == (e.kind = "network" /\ ~net) \/ (policy.confined /\ e.kind \in {"process", "native"})
      checked == policy.confined /\ e.kind \in {"open", "write", "read"} /\ e.args # <<>>
  IN /\ python /\ GilFree /\ hook[t].at \in {"idle", "answered"}
     /\ (refused /\ e.kind # "native" => lock = None)
     /\ hook' = [hook EXCEPT ![t] =
          IF checked THEN [at |-> "path", event |-> e, i |-> 1, seen |-> {policy}, passed |-> {}]
          ELSE Answer(~refused, None, FALSE, {}, {policy})]
     /\ UNCHANGED <<python, policy, net, lock, host, freed>>

(* An argument that passed: the next one, or the hook is done. *)
Passed(t, paths) ==
  LET k == hook[t]
  IN IF k.i = Len(k.event.args) THEN Answer(TRUE, None, Writing(k.event), k.passed \cup paths, k.seen)
     ELSE [at |-> "path", event |-> k.event, i |-> k.i + 1, seen |-> k.seen, passed |-> k.passed \cup paths]

Refused(t, path) == Answer(FALSE, path, Writing(hook[t].event), hook[t].passed, hook[t].seen)

(* vis_py_arg_path and vis_py_canonical; a path takes the lock to compare. *)
Resolve(t) ==
  LET arg == hook[t].event.args[hook[t].i]
      path == IF arg.is = "name" THEN Canonical(arg.name) ELSE None
  IN /\ hook[t].at = "path" /\ GilFree
     /\ IF path = None
        THEN hook' = [hook EXCEPT ![t] = IF arg.is = "other" THEN Passed(t, {}) ELSE Refused(t, None)] /\ UNCHANGED lock
        ELSE /\ lock = None /\ lock' = t
             /\ hook' = [hook EXCEPT ![t] = [at |-> "writes", event |-> @.event, i |-> @.i, seen |-> @.seen,
                                             passed |-> @.passed, path |-> path, roots |-> policy.id]]
     /\ UNCHANGED <<python, policy, net, host, freed>>

(* vis_py_check, both lists in one hold. *)
CompareWrites(t) ==
  LET found == Under(hook[t].path, policy.write)
      done == found \/ Writing(hook[t].event)
  IN /\ hook[t].at = "writes"
     /\ hook' = [hook EXCEPT ![t] = IF found THEN Passed(t, {@.path})
                                    ELSE IF done THEN Refused(t, @.path)
                                    ELSE [@ EXCEPT !.at = "reads"]]
     /\ lock' = IF done THEN None ELSE lock
     /\ UNCHANGED <<python, policy, net, host, freed>>

(* Mutant: a refusal returns before the lock is released. *)
CompareReadsHolding(t) ==
  LET found == Under(hook[t].path, policy.read)
  IN /\ hook[t].at = "reads"
     /\ hook' = [hook EXCEPT ![t] = IF found THEN Passed(t, {@.path}) ELSE Refused(t, @.path)]
     /\ lock' = IF found THEN None ELSE lock
     /\ UNCHANGED <<python, policy, net, host, freed>>

CompareReads(t) ==
  LET found == Under(hook[t].path, policy.read)
  IN /\ hook[t].at = "reads"
     /\ hook' = [hook EXCEPT ![t] = IF found THEN Passed(t, {@.path}) ELSE Refused(t, @.path)]
     /\ lock' = None
     /\ UNCHANGED <<python, policy, net, host, freed>>

-----------------------------------------------------------------------------
Allows(p, path, writing) ==
  ~p.confined \/ Under(path, p.write) \/ (~writing /\ Under(path, p.read))

(* What the lock is for: a hook never compares with strings that were      *)
(* freed; a path it lets through is allowed by one policy that was in      *)
(* force while it ran; and a path it refuses is refused by one, unless     *)
(* confinement was lifted meanwhile, for then the flag it read is of one   *)
(* policy and the empty lists of the other.                                *)
HookAnswersForOnePolicy ==
  \A t \in Threads :
    /\ HasGil(t) => hook[t].roots \notin freed
    /\ hook[t].at = "answered" =>
         /\ \A path \in hook[t].passed : \E p \in hook[t].seen : Allows(p, path, hook[t].writing)
         /\ ~hook[t].ok /\ hook[t].path # None =>
              \E p \in hook[t].seen : ~p.confined \/ ~Allows(p, hook[t].path, hook[t].writing)

(* "Lock order is GIL, then this": a host that asked for a policy has it,  *)
(* whatever the hooks of the guest are doing.                              *)
ConfineReturns == \A h \in Hosts : host[h].at # "idle" ~> host[h].at = "idle"
=============================================================================
