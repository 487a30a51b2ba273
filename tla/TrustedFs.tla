----------------------------- MODULE TrustedFs -----------------------------
(* The files a trusted session reaches (vispython.c): the table of trusted *)
(* sessions, and the operations of _vis_fs in C.  The GIL is held through  *)
(* an operation, so there is one at a time; its calls to the C library may *)
(* fail one by one, and the process may die between any two of them.       *)
EXTENDS Naturals, SequencesExt

CONSTANTS
  Sessions,    \* names of sessions
  Slots,       \* VIS_PY_TRUSTED_MAX
  Paths,       \* paths, sequences of components
  OnDisk,      \* [Paths -> what is there at the start]
  Device,      \* [Paths -> the filesystem it is on]
  Written,     \* what a session writes, sequences of pieces
  MaxLen,      \* pieces of the longest file
  NoEntry      \* what is at a path where nothing is

(* What can be at a path: a file with its pieces, or a directory; its mode *)
(* is the one a new file gets, or another.                                 *)
Modes == {"plain", "run"}
Entry == [kind : {"file", "directory"}, data : Seq(Nat), mode : Modes]

ASSUME FsAssumption ==
  /\ NoEntry \notin Entry /\ OnDisk \in [Paths -> Entry \cup {NoEntry}] /\ Written \subseteq Seq(Nat)

VARIABLES
  trusted,     \* vis_py_trusted: [1..Slots -> session or ""]
  disk,        \* [Paths -> NoEntry or [kind, data, mode]]
  op,          \* the operation under way
  done         \* the last answer

fsVars == <<trusted, disk, op, done>>

NoOp == [at |-> "idle"]
NoAnswer == [ok |-> FALSE, kind |-> "none"]

-----------------------------------------------------------------------------
(* Trust.                                                                  *)

(* vispython_trust: the slot of the session, or the first empty one. *)
SlotOf(s) ==
  LET mine == {i \in 1..Slots : trusted[i] = s}
      empty == {i \in 1..Slots : trusted[i] = ""}
  IN CASE mine # {} -> Min(mine) [] mine = {} /\ empty # {} -> Min(empty) [] OTHER -> 0

Trust(s, want) ==
  LET slot == SlotOf(s)
  IN /\ slot # 0
     /\ trusted' = CASE want -> [trusted EXCEPT ![slot] = s]
                     [] ~want /\ trusted[slot] = s -> [trusted EXCEPT ![slot] = ""]
                     [] OTHER -> trusted
     /\ UNCHANGED <<disk, op, done>>

(* vis_py_fs_allowed: the session on top of the run stack is trusted. *)
Allowed(s) == op = NoOp /\ \E i \in 1..Slots : trusted[i] = s

-----------------------------------------------------------------------------
(* Entries of the disk.                                                    *)

IsFile(p) == disk[p] # NoEntry /\ disk[p].kind = "file"
IsDir(p) == disk[p] # NoEntry /\ disk[p].kind = "directory"
Parent(p) == SubSeq(p, 1, Len(p) - 1)
Inside(p) == {q \in Paths : q # p /\ IsPrefix(p, q) /\ disk[q] # NoEntry}
MayHold(p) == Len(p) = 1 \/ (Parent(p) \in Paths /\ IsDir(Parent(p)))
NewFile == [kind |-> "file", data |-> <<>>, mode |-> "plain"]
NewDir == [kind |-> "directory", data |-> <<>>, mode |-> "plain"]

(* fopen(p, "wb") can succeed, and leaves the file empty; its mode stays. *)
MayOpenToWrite(p) == MayHold(p) /\ ~IsDir(p)
Opened(p, keep) == IF IsFile(p) THEN (IF keep THEN disk[p] ELSE [disk[p] EXCEPT !.data = <<>>]) ELSE NewFile

(* An operation ends with an answer; whole is what it was to move or write. *)
End(ok) == op' = NoOp /\ done' = [ok |-> ok, kind |-> op.kind, from |-> op.from, to |-> op.to, whole |-> op.whole]
Leave == UNCHANGED trusted

(* What only reads, and a refusal, leave everything: read, list and stat.  *)
FsLook(s, p) ==
  /\ Allowed(s) /\ done' = [ok |-> disk[p] # NoEntry, kind |-> "look"]
  /\ UNCHANGED <<disk, op>> /\ Leave

-----------------------------------------------------------------------------
(* write: the stream is buffered, so what was written may be lost when it  *)
(* is closed.                                                              *)

FsWrite(s, p, data, append) ==
  /\ Allowed(s) /\ MayOpenToWrite(p) /\ Len(data) + Len(Opened(p, append).data) <= MaxLen
  /\ disk' = [disk EXCEPT ![p] = Opened(p, append)]
  /\ op' = [at |-> "write", kind |-> "write", from |-> p, to |-> p, whole |-> Opened(p, append).data \o data,
            buffer |-> data, wrote |-> TRUE, mode |-> Opened(p, append).mode]
  /\ done' = NoAnswer /\ Leave

(* Some pieces reach the file, and fwrite may fail there. *)
WriteFails ==
  /\ op.at = "write" /\ op.wrote /\ op.buffer # <<>>
  /\ \E k \in 0..Len(op.buffer) - 1 :
       disk' = [disk EXCEPT ![op.to].data = @ \o SubSeq(op.buffer, 1, k)]
  /\ op' = [op EXCEPT !.wrote = FALSE, !.buffer = <<>>]
  /\ UNCHANGED done /\ Leave

CloseWrite(ok) ==
  /\ op.at = "write"
  /\ disk' = IF ok THEN [disk EXCEPT ![op.to].data = @ \o op.buffer] ELSE disk
  /\ End(ok /\ op.wrote) /\ Leave

-----------------------------------------------------------------------------
(* copy and move: rename inside one filesystem, else copy and unlink.      *)

(* Files only; nothing asks whether a file is copied onto itself. *)
Begun(kind, p, q) ==
  [at |-> "open", kind |-> kind, from |-> p, to |-> q,
   whole |-> IF IsFile(p) THEN disk[p].data ELSE <<>>, mode |-> IF IsFile(p) THEN disk[p].mode ELSE "plain"]

StartCopy(s, p, q) ==
  /\ Allowed(s) /\ ~IsDir(p) /\ op' = Begun("copy", p, q)
  /\ done' = NoAnswer /\ UNCHANGED disk /\ Leave

StartMove(s, p, q) ==
  /\ Allowed(s) /\ IsFile(p) /\ MayHold(q) /\ Device[p] # Device[q] /\ op' = Begun("move", p, q)
  /\ done' = NoAnswer /\ UNCHANGED disk /\ Leave

Rename(s, p, q) ==
  /\ Allowed(s) /\ IsFile(p) /\ MayOpenToWrite(q) /\ Device[p] = Device[q]
  /\ disk' = IF p = q THEN disk ELSE [disk EXCEPT ![q] = disk[p], ![p] = NoEntry]
  /\ done' = [ok |-> TRUE, kind |-> "move", from |-> p, to |-> q, whole |-> disk[p].data]
  /\ UNCHANGED op /\ Leave

(* vis_py_fs_copy_bytes. *)
CopyOpens ==
  /\ op.at = "open" /\ IsFile(op.from) /\ MayOpenToWrite(op.to)
  /\ disk' = [disk EXCEPT ![op.to] = Opened(op.to, FALSE)]
  /\ op' = [at |-> "copy", kind |-> op.kind, from |-> op.from, to |-> op.to, whole |-> op.whole,
            mode |-> op.mode, read |-> 0, buffer |-> <<>>]
  /\ UNCHANGED done /\ Leave

CopyChunk ==
  /\ op.at = "copy" /\ op.read < Len(disk[op.from].data)
  /\ op' = [op EXCEPT !.read = @ + 1, !.buffer = Append(@, disk[op.from].data[op.read + 1])]
  /\ UNCHANGED <<disk, done>> /\ Leave

(* The stream's buffer may reach the file before it is closed. *)
CopyFlush ==
  /\ op.at = "copy" /\ op.buffer # <<>>
  /\ disk' = [disk EXCEPT ![op.to].data = @ \o op.buffer] /\ op' = [op EXCEPT !.buffer = <<>>]
  /\ UNCHANGED done /\ Leave

(* Opening, reading or writing fails: both streams are closed. *)
CopyFails ==
  /\ op.at \in {"open", "copy"} /\ UNCHANGED disk /\ End(FALSE) /\ Leave

(* Mutant: a stream that could not be closed is not noticed. *)
CopyClosesUnasked(ok) ==
  /\ op.at = "copy" /\ op.read = Len(disk[op.from].data)
  /\ disk' = IF ok THEN [disk EXCEPT ![op.to].data = @ \o op.buffer] ELSE disk
  /\ op' = [op EXCEPT !.at = "mode", !.buffer = <<>>] /\ UNCHANGED done
  /\ Leave

CopyCloses(ok) ==
  /\ op.at = "copy" /\ op.read = Len(disk[op.from].data)
  /\ disk' = IF ok THEN [disk EXCEPT ![op.to].data = @ \o op.buffer] ELSE disk
  /\ IF ok THEN op' = [op EXCEPT !.at = "mode", !.buffer = <<>>] /\ UNCHANGED done ELSE End(FALSE)
  /\ Leave

(* The mode travels if it can; nobody asks. *)
CopyMode(ok) ==
  /\ op.at = "mode"
  /\ disk' = IF ok THEN [disk EXCEPT ![op.to].mode = op.mode] ELSE disk
  /\ IF op.kind = "move" THEN op' = [op EXCEPT !.at = "unlink"] /\ UNCHANGED done ELSE End(TRUE)
  /\ Leave

MoveUnlinks(ok) ==
  /\ op.at = "unlink"
  /\ disk' = IF ok THEN [disk EXCEPT ![op.from] = NoEntry] ELSE disk
  /\ End(ok) /\ Leave

-----------------------------------------------------------------------------
(* remove and mkdir.                                                       *)

FsRemove(s, p) ==
  /\ Allowed(s) /\ disk[p] # NoEntry
  /\ disk' = IF IsDir(p) /\ Inside(p) # {} THEN disk ELSE [disk EXCEPT ![p] = NoEntry]
  /\ done' = [ok |-> disk # disk', kind |-> "remove"]
  /\ UNCHANGED op /\ Leave

(* Every parent too; a file on the way lets the call pass, for it exists,  *)
(* and fails the one below it; what was made before stays.                 *)
FsMkdir(s, p) ==
  LET all == {q \in Paths : IsPrefix(q, p)}
      stop == {q \in all : IsFile(q)}
      made == {q \in all : disk[q] = NoEntry /\ \A r \in stop : Len(q) < Len(r)}
  IN /\ Allowed(s) /\ made # {}
     /\ disk' = [q \in Paths |-> IF q \in made THEN NewDir ELSE disk[q]]
     /\ done' = [ok |-> stop \subseteq {p}, kind |-> "mkdir"]
     /\ UNCHANGED op /\ Leave

-----------------------------------------------------------------------------
Holds(p, data) == IsFile(p) /\ disk[p].data = data

(* "a cross-device move falls back to copy + remove": whichever call of it *)
(* fails, and wherever the process dies, the whole file is at one of its   *)
(* two paths; a copy to another path leaves what it copies; and an         *)
(* operation that answers well has put all of it where it was asked to.    *)
FilesSurvive ==
  /\ op.at # "idle" /\ op.kind = "move" => Holds(op.from, op.whole) \/ Holds(op.to, op.whole)
  /\ op.at # "idle" /\ op.kind = "copy" /\ op.from # op.to /\ IsFile(op.from) => Holds(op.from, op.whole)
  /\ done.kind = "move" => IF done.ok THEN Holds(done.to, done.whole) ELSE Holds(done.from, done.whole)
  /\ done.ok /\ (done.kind = "write" \/ (done.kind = "copy" /\ done.from # done.to)) => Holds(done.to, done.whole)
=============================================================================
