------------------------------- MODULE Relay -------------------------------
(* One direction of a relayed connection of network_bridge.c: struct       *)
(* direction and what one call of move_direction does to it.  The buffer   *)
(* keeps what the last recv gave and an offset into it, as the code does,  *)
(* so that a send that repeats or skips bytes can be told.                 *)
EXTENDS Naturals, Sequences

CONSTANT Buffer      \* bytes one recv may give: the 16384 of struct direction

Sides == {"client", "server"}
Other(s) == IF s = "client" THEN "server" ELSE "client"

(* A direction is named after its source. *)
NewDirection == [bytes |-> <<>>, offset |-> 0, eof |-> FALSE, shut |-> FALSE]

Length(d) == Len(d.bytes) - d.offset
Pending(d) == SubSeq(d.bytes, d.offset + 1, Len(d.bytes))

(* What relay asks poll for: input for a direction with an empty buffer    *)
(* that has not ended, output for one with bytes left.                     *)
WantsInput(d) == ~d.eof /\ Length(d) = 0
WantsOutput(d) == Length(d) > 0

(* Mutant: a short read is taken for the end of the source. *)
ReceivedShort(d, bytes) ==
  [d EXCEPT !.bytes = bytes, !.offset = 0, !.eof = Len(bytes) < Buffer]

(* recv: some bytes, or none when the source has ended. *)
Received(d, bytes) ==
  IF bytes = <<>> THEN [d EXCEPT !.eof = TRUE]
                  ELSE [d EXCEPT !.bytes = bytes, !.offset = 0]

(* Mutant: a second partial send starts where the first one did. *)
SentAgain(d, n) == [d EXCEPT !.offset = n]

(* send: the first n bytes left. *)
Sent(d, n) == [d EXCEPT !.offset = @ + n]

(* The source has ended and nothing is left to send: shut the output down. *)
Ends(d) == d.eof /\ Length(d) = 0 /\ ~d.shut

(* relay's loop goes on while a direction has input to read or bytes left. *)
Finished(d) == d.eof /\ Length(d) = 0
=============================================================================
