------------------------------ MODULE Sandbox ------------------------------
(* The sandbox as the host drives it (vispython.c): the interpreter is     *)
(* started, confined and trusted, its guests run into the audit hook and   *)
(* the trusted files, and the stacks of its threads are dumped into a      *)
(* private file whose descriptor the guest's own code can close.           *)
EXTENDS Confine, TrustedFs

CONSTANTS
  Artifacts,   \* paths of stack files
  Numbers,     \* descriptor numbers
  Foreign,     \* a file the guest opens
  Samples,     \* threads a dump writes
  Plans        \* how many calls of each kind a behaviour makes

ASSUME SandboxAssumption ==
  /\ None \notin Artifacts \cup Numbers /\ Foreign \notin Artifacts /\ Samples \in Nat \ {0}
  /\ Plans \subseteq [{"events", "confines", "ops", "stacks", "tampers"} -> Nat]

VARIABLES
  started,     \* vis_py_started
  stackLock,   \* vis_py_stack_lock: its holder or None
  stackFd,     \* vis_py_stack_fd, a number or None
  identity,    \* vis_py_stack_identity
  table,       \* [Numbers -> the file open there, or None]
  text,        \* [Artifacts -> its samples, None while there is no file]
  call,        \* [Hosts -> the stack call it is in]
  left         \* calls left of each kind

stackVars == <<stackLock, stackFd, identity, table, text, call>>
vars == <<confineVars, fsVars, started, stackVars, left>>

Init ==
  /\ python = FALSE /\ started = FALSE /\ policy = NoPolicy /\ net = TRUE /\ lock = None /\ freed = {}
  /\ host = [h \in Hosts |-> NoCall] /\ hook = [t \in Threads |-> Quiet]
  /\ trusted = [i \in 1..Slots |-> ""] /\ op = NoOp /\ done = NoAnswer /\ disk = OnDisk
  /\ stackLock = None /\ stackFd = None /\ identity = None /\ table = [n \in Numbers |-> None]
  /\ text = [a \in Artifacts |-> None] /\ call = [h \in Hosts |-> NoCall]
  /\ left \in Plans

Spent(kind) == left[kind] > 0 /\ left' = [left EXCEPT ![kind] = @ - 1]

(* vispython_initialize: it may fail before there is an interpreter, or    *)
(* after, when the scan guard cannot be installed.                         *)
Initialize(ends) ==
  /\ ~started /\ ~python
  /\ python' = (ends \in {"guard", "well"}) /\ started' = (ends = "well")
  /\ UNCHANGED <<policy, net, lock, host, freed, hook, fsVars, stackVars, left>>

-----------------------------------------------------------------------------
(* vispython_stack_diagnostics and vispython_dump_stacks: neither waits    *)
(* for the lock, and neither takes the GIL.                                *)

Owned == stackFd # None /\ table[stackFd] = identity
Enters(h, c) == call' = [call EXCEPT ![h] = c] /\ stackLock' = h
Returns(h) == call' = [call EXCEPT ![h] = NoCall] /\ stackLock' = None
MayCall(h) == stackLock = None /\ call[h] = NoCall

ConfigureChecks(h, a) ==
  /\ MayCall(h) /\ started /\ ~policy.confined /\ stackFd = None
  /\ Enters(h, [at |-> "open", file |-> a, raced |-> FALSE])
  /\ UNCHANGED <<stackFd, identity, table, text>>

(* O_EXCL: a file that is there is refused. *)
ConfigureOpens(h) ==
  LET a == call[h].file
  IN /\ call[h].at = "open" /\ text[a] = None /\ Returns(h)
     /\ \E n \in Numbers : /\ table[n] = None /\ table' = [table EXCEPT ![n] = a]
                           /\ stackFd' = n /\ identity' = a /\ text' = [text EXCEPT ![a] = <<>>]

ConfigureFails(h) ==
  /\ call[h].at = "open" /\ Returns(h) /\ UNCHANGED <<stackFd, identity, table, text>>

(* An empty path lets go of the file, and closes it if it still is ours. *)
CloseChecks(h) ==
  /\ MayCall(h) /\ stackFd # None
  /\ IF Owned THEN Enters(h, [at |-> "close", raced |-> FALSE]) /\ UNCHANGED stackFd
     ELSE stackFd' = None /\ UNCHANGED <<call, stackLock>>
  /\ UNCHANGED <<identity, table, text>>

Closes(h) ==
  /\ call[h].at = "close" /\ Returns(h)
  /\ table' = [table EXCEPT ![stackFd] = None] /\ stackFd' = None
  /\ UNCHANGED <<identity, text>>

(* Mutant: a dump does not ask for the lock. *)
DumpChecksAnyway(h) ==
  /\ call[h] = NoCall /\ stackFd # None
  /\ IF Owned THEN Enters(h, [at |-> "truncate", id |-> <<h, left.stacks>>, wrote |-> 0, raced |-> FALSE]) /\ UNCHANGED stackFd
     ELSE stackFd' = None /\ UNCHANGED <<call, stackLock>>
  /\ UNCHANGED <<identity, table, text>>

(* Each dump has an identity, for what it writes to be told from others. *)
DumpChecks(h) ==
  /\ MayCall(h) /\ stackFd # None
  /\ IF Owned THEN Enters(h, [at |-> "truncate", id |-> <<h, left.stacks>>, wrote |-> 0, raced |-> FALSE]) /\ UNCHANGED stackFd
     ELSE stackFd' = None /\ UNCHANGED <<call, stackLock>>
  /\ UNCHANGED <<identity, table, text>>

(* What a write does to the file that is open at the number now. *)
Onto(f, new) == IF f \in Artifacts THEN [text EXCEPT ![f] = new] ELSE text

DumpTruncates(h) ==
  /\ call[h].at = "truncate" /\ stackFd # None /\ table[stackFd] # None
  /\ text' = Onto(table[stackFd], <<>>) /\ call' = [call EXCEPT ![h].at = "write"]
  /\ UNCHANGED <<stackLock, stackFd, identity, table>>

DumpWrites(h) ==
  /\ call[h].at = "write" /\ stackFd # None /\ table[stackFd] # None
  /\ LET f == table[stackFd] IN text' = IF f \in Artifacts THEN Onto(f, Append(text[f], call[h].id)) ELSE text
  /\ IF call[h].wrote + 1 < Samples
     THEN call' = [call EXCEPT ![h].wrote = @ + 1] /\ UNCHANGED stackLock
     ELSE Returns(h)
  /\ UNCHANGED <<stackFd, identity, table>>

DumpFails(h) ==
  /\ call[h].at \in {"truncate", "write"} /\ Returns(h) /\ UNCHANGED <<stackFd, identity, table, text>>

(* The guest closes a number that is not its own, and may open a file      *)
(* there; a call that has looked at the number already is raced.           *)
GuestReplaces(n, f) ==
  /\ started /\ op = NoOp /\ GilFree /\ table[n] \in Artifacts /\ table' = [table EXCEPT ![n] = f]
  /\ call' = [h \in Hosts |-> IF call[h].at \in {"truncate", "write", "close"} THEN [call[h] EXCEPT !.raced = TRUE] ELSE call[h]]
  /\ UNCHANGED <<stackLock, stackFd, identity, text>>

-----------------------------------------------------------------------------
(* A host thread is in one call at a time; an operation on files holds the *)
(* GIL to its end.                                                         *)
Elsewhere == UNCHANGED <<fsVars, started, stackVars>>
ConfineStep(h) == ((op = NoOp /\ AddOwnRoots(h)) \/ Swap(h) \/ Clear(h)) /\ UNCHANGED left /\ Elsewhere
HookStep(t) == ((op = NoOp /\ Resolve(t)) \/ CompareWrites(t) \/ CompareReads(t)) /\ UNCHANGED left /\ Elsewhere

ConfineStart ==
  /\ \/ \E h \in Hosts : call[h] = NoCall /\ Spent("confines") /\ \E r \in Requests : Assemble(h, r)
     \/ \E h \in Hosts : Spent("confines") /\ \E want \in BOOLEAN : Network(h, want)
     \/ \E t \in Threads : started /\ op = NoOp /\ Spent("events") /\ \E e \in Events : Begin(t, e)
  /\ Elsewhere

FsStart ==
  \E s \in Sessions, p \in Paths :
    \/ FsLook(s, p) \/ FsRemove(s, p) \/ FsMkdir(s, p)
    \/ \E data \in Written, append \in BOOLEAN : FsWrite(s, p, data, append)
    \/ \E q \in Paths : StartCopy(s, p, q) \/ StartMove(s, p, q) \/ Rename(s, p, q)

FsStep ==
  /\ \/ WriteFails \/ CopyOpens \/ CopyChunk \/ CopyFlush \/ CopyFails
     \/ \E ok \in BOOLEAN : CloseWrite(ok) \/ CopyCloses(ok) \/ CopyMode(ok) \/ MoveUnlinks(ok)
  /\ UNCHANGED <<confineVars, started, stackVars, left>>

FsNext ==
  /\ \/ \E s \in Sessions, want \in BOOLEAN : Trust(s, want)
     \/ started /\ GilFree /\ FsStart
  /\ Spent("ops") /\ UNCHANGED <<confineVars, started, stackVars>>

StackNext ==
  /\ \/ \E h \in Hosts : /\ host[h] = NoCall /\ Spent("stacks")
                         /\ CloseChecks(h) \/ DumpChecks(h) \/ \E a \in Artifacts : ConfigureChecks(h, a)
     \/ \E h \in Hosts : /\ UNCHANGED left
                         /\ ConfigureOpens(h) \/ ConfigureFails(h) \/ Closes(h) \/ DumpTruncates(h) \/ DumpWrites(h) \/ DumpFails(h)
     \/ Spent("tampers") /\ \E n \in Numbers, f \in {None, Foreign} : GuestReplaces(n, f)
  /\ UNCHANGED <<confineVars, fsVars, started>>

Next ==
  \/ \E ends \in {"hook", "guard", "well"} : Initialize(ends)
  \/ ConfineStart \/ (\E h \in Hosts : ConfineStep(h)) \/ (\E t \in Threads : HookStep(t))
  \/ FsNext \/ FsStep \/ StackNext

(* A host's call, a hook and an operation go on when they can; nothing     *)
(* else has to.                                                            *)
Fairness ==
  /\ \A h \in Hosts : WF_vars(ConfineStep(h))
  /\ \A t \in Threads : WF_vars(HookStep(t))
  /\ WF_vars(FsStep)

Spec == Init /\ [][Next]_vars
FairSpec == Spec /\ Fairness

-----------------------------------------------------------------------------
(* "Each request replaces, rather than appends to, the private artifact",  *)
(* and a replaced descriptor is not written to: unless the guest replaces  *)
(* the descriptor between the check and the write, a dump or a close acts  *)
(* on the file that was configured, and no file mixes two dumps.           *)
DumpsKeepToTheirFile ==
  /\ \A h \in Hosts : call[h].at \in {"truncate", "write", "close"} /\ ~call[h].raced =>
       stackFd # None /\ table[stackFd] = identity
  /\ \A a \in Artifacts : text[a] # None =>
       Len(text[a]) <= Samples /\ \A i, j \in DOMAIN text[a] : text[a][i] = text[a][j]
=============================================================================
