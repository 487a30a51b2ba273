---------------------------- MODULE BridgeProofs ----------------------------
(***************************************************************************)
(* Bridge proved for any connections, any loads of clients, any capacity   *)
(* of the control sockets, any buffer, any number of bytes and any exit    *)
(* codes of the payload.                                                   *)
(*                                                                         *)
(* Four arguments that share nothing but the types:                        *)
(*   - TurnInv: when both loops are inside a turn, one of them has either  *)
(*     room in its own queue or has yet to take a message from it, because *)
(*     a loop looks at its queue before it writes;                         *)
(*   - PassInv: a connection moves along one path (client, listener, the   *)
(*     hand of the loop that accepted it, control socket, the hand of the  *)
(*     loop that connects it, relay) and is at one place of it at a time;  *)
(*     HeldInv ties the descriptors to those places;                       *)
(*   - EndInv: a loop leaves with the status of what it waited for, and    *)
(*     that status does not change afterwards;                             *)
(*   - StreamInv: a direction that has read the end of its source has an   *)
(*     empty buffer, and shut its output down in the same turn.            *)
(***************************************************************************)
EXTENDS Bridge, SequenceTheorems, FiniteSetTheorems, TLAPS

Places == {"unborn", "setup", "poll", "control", "connect", "listen", "send", "kill", "leave", "gone"}
Lives == {"none", "forked", "asked", "running", "exited"}
Direction == [bytes : Seq(Nat), offset : Nat, eof : BOOLEAN, shut : BOOLEAN]

LoopType ==
  /\ loop \in [Loops -> Places] /\ saw \in [Loops -> SUBSET {"control", "listener"}]
  /\ queue \in [Loops -> Seq(Conns)]

PassType ==
  /\ hand \in [Loops -> Conns \cup {None}] /\ backlog \in [Loops -> SUBSET Conns]
  /\ fresh \subseteq Conns /\ held \in [Loops \cup Conns -> SUBSET Conns]
  /\ relay \in [Conns -> Lives]

ByteType ==
  /\ dir \in [Conns -> [Sides -> Direction]] /\ sent \in [Conns -> [Sides -> Nat]]
  /\ arrived \in [Conns -> [Sides -> Seq(Nat)]] /\ given \in [Conns -> [Sides -> Seq(Nat)]]
  /\ ended \in [Conns -> SUBSET Sides]

-----------------------------------------------------------------------------
(* The loop is between its poll and its reap_relays.                       *)
InTurn(p) == loop[p] \in {"control", "connect", "listen", "send"}

(* The loop's own queue does not stop the other one from writing, or will  *)
(* not once it has received.                                               *)
Drains(p) == IF loop[p] = "control" THEN Full(p) => "control" \in saw[p] ELSE ~Full(p)

TurnInv ==
  /\ \A p \in Loops : Len(queue[p]) <= QueueCap
  /\ InTurn("inside") /\ InTurn("outside") => Drains("inside") \/ Drains("outside")

-----------------------------------------------------------------------------
(* The places a connection passes on its way, in this order; the four in   *)
(* the middle are places at a loop.                                        *)
Spots == {"backlog", "send", "queue", "connect"}
Stages == Spots \cup {"fresh", "relay"}

Among(c, q) == \E i \in 1..Len(q) : q[i] = c

In(p, c, k) ==
  \/ k = "backlog" /\ c \in backlog[p]
  \/ k = "send" /\ loop[p] = "send" /\ hand[p] = c
  \/ k = "queue" /\ Among(c, queue[p])
  \/ k = "connect" /\ loop[p] = "connect" /\ hand[p] = c

At(c, k) ==
  \/ k = "fresh" /\ c \in fresh
  \/ k \in Spots /\ \E p \in Loops : In(p, c, k)
  \/ k = "relay" /\ relay[c] # "none"

(* The loop where a connection can be at a place: the one it arrives at,   *)
(* then the one that forks its relay.                                      *)
Home(c, k) == IF k \in {"queue", "connect"} THEN Parent(c) ELSE Peer(Parent(c))

HandInv == \A p \in Loops : hand[p] # None <=> loop[p] \in {"connect", "send"}
SideInv == \A p \in Loops, c \in Conns, k \in Spots : In(p, c, k) => p = Home(c, k)
OnceInv == \A c \in Conns, j, k \in Stages : At(c, j) /\ At(c, k) => j = k

(* A queue has no connection twice. *)
Distinct(q) == \A i, j \in 1..Len(q) : q[i] = q[j] => i = j
QueueInv == \A p \in Loops : Distinct(queue[p])

PassInv == HandInv /\ SideInv /\ OnceInv /\ QueueInv

HeldInv ==
  /\ \A p \in Loops : held[p] = {hand[p]} \ {None}
  /\ \A c \in Conns : held[c] = IF relay[c] \in {"forked", "asked", "running"} THEN {c} ELSE {}

-----------------------------------------------------------------------------
(* How the inside loop can have ended. *)
InsideEnd ==
  \/ status["inside"] = Signaled
  \/ status["inside"] = Exited(125) /\ status["payload"] = None
  \/ status["payload"] # None /\ status["inside"] = Exited(Decode(status["payload"]))

EndInv ==
  /\ status = [x \in {"payload", "inside"} |-> status[x]]
  /\ \A p \in Loops : loop[p] = "leave" => status[Principal(p)] # None
  /\ loop["inside"] \in {"unborn", "setup"} => status["payload"] = None
  /\ loop["outside"] = "setup" => loop["inside"] = "unborn"
  /\ status["inside"] # None => loop["inside"] = "gone" /\ InsideEnd
  /\ answer # None => loop["inside"] \in {"unborn", "gone"} /\ loop["outside"] = "gone"
  /\ StatusIsThePayloads

-----------------------------------------------------------------------------
EofInv ==
  \A c \in Conns, s \in Sides :
    /\ dir[c][s].offset <= Len(dir[c][s].bytes)
    /\ dir[c][s].eof => /\ dir[c][s].shut /\ s \in ended[c]
                        /\ Length(dir[c][s]) = 0 /\ arrived[c][s] = <<>>
    /\ dir[c][s].shut => dir[c][s].eof

StreamInv == EofInv /\ StreamsIntact

LoopInv == LoopType /\ TurnInv
BridgeInv == LoopInv /\ PassType /\ PassInv /\ HeldInv /\ EndInv /\ ByteType /\ StreamInv

-----------------------------------------------------------------------------
(* The turns of the loops.                                                 *)

LEMMA LoopsAre == Loops = {"inside", "outside"} /\ \A p \in Loops : Peer(p) \in Loops /\ Peer(p) # p
BY DEF Loops, Peer

(* A step that puts nothing into a queue and moves a loop, if at all, on   *)
(* within its turn after it received, or out of its turn.                  *)
LEMMA TurnKeeps ==
  ASSUME LoopInv, LoopType', \A p \in Loops : queue'[p] \in {queue[p], <<>>},
         \A p \in Loops : InTurn(p)' =>
           \/ loop'[p] = loop[p] /\ saw'[p] = saw[p]
           \/ loop[p] \in {"connect", "listen"} /\ loop'[p] \in {"connect", "listen", "send"}
  PROVE  TurnInv'
<1>1. QueueCap \in Nat /\ QueueCap > 0 BY BridgeAssumption
<1>2. \A p \in Loops : Len(queue[p]) \in Nat /\ Len(queue[p]) <= QueueCap
  BY DEF LoopInv, LoopType, TurnInv
<1>3. \A p \in Loops : Len(queue'[p]) \in Nat /\ Len(queue'[p]) <= Len(queue[p])
  BY <1>2
<1>4. ASSUME NEW p \in Loops, InTurn(p)' PROVE InTurn(p) /\ (Drains(p) => Drains(p)')
  <2>1. Full(p)' => Full(p) BY <1>1, <1>2, <1>3 DEF Full
  <2>2. CASE loop'[p] = loop[p] /\ saw'[p] = saw[p] BY <1>4, <2>1, <2>2 DEF InTurn, Drains
  <2>3. CASE loop[p] \in {"connect", "listen"} /\ loop'[p] \in {"connect", "listen", "send"}
    BY <1>4, <2>1, <2>3 DEF InTurn, Drains
  <2> QED BY <1>4, <2>2, <2>3
<1>5. InTurn("inside")' /\ InTurn("outside")' => Drains("inside")' \/ Drains("outside")'
  BY <1>4, LoopsAre DEF LoopInv, TurnInv
<1>6. \A p \in Loops : Len(queue'[p]) <= QueueCap BY <1>1, <1>2, <1>3
<1> QED BY <1>5, <1>6 DEF TurnInv

(* What poll reports includes the control socket whenever a message waits. *)
LEMMA PollKeepsTurn ==
  ASSUME LoopInv, LoopType', NEW p \in Loops, Poll(p)
  PROVE  TurnInv'
<1>1. QueueCap \in Nat /\ QueueCap > 0 BY BridgeAssumption
<1>2. queue' = queue /\ loop'[p] = "control" /\ saw'[p] = Ready(p)
  BY DEF Poll, passVars, LoopInv, LoopType
<1>3. Drains(p)'
  <2>1. SUFFICES ASSUME Full(p)' PROVE "control" \in saw'[p] BY <1>2 DEF Drains
  <2>2. Len(queue[p]) \in Nat /\ Len(queue[p]) >= QueueCap BY <1>2, <2>1 DEF Full, LoopInv, LoopType
  <2>3. queue[p] # <<>> BY <1>1, <2>2
  <2> QED BY <1>2, <2>3 DEF Ready
<1>4. p = "inside" \/ p = "outside" BY LoopsAre
<1>5. \A q \in Loops : Len(queue'[q]) <= QueueCap BY <1>2 DEF LoopInv, TurnInv
<1> QED BY <1>3, <1>4, <1>5 DEF TurnInv

(* A loop that passes its control socket by has room in its queue, or the  *)
(* other loop has.                                                         *)
LEMMA ReceiveKeepsTurn ==
  ASSUME LoopInv, LoopType', NEW p \in Loops, Receive(p)
  PROVE  TurnInv'
<1>1. QueueCap \in Nat /\ QueueCap > 0 BY BridgeAssumption
<1>2. /\ queue[p] \in Seq(Conns) /\ Len(queue[p]) \in Nat /\ Len(queue[p]) <= QueueCap
      /\ loop \in [Loops -> Places] /\ queue \in [Loops -> Seq(Conns)]
  BY DEF LoopInv, LoopType, TurnInv
<1>3. p = "inside" \/ p = "outside" BY LoopsAre
<1>4. loop[p] = "control" /\ saw' = saw BY DEF Receive
<1>5. CASE "control" \in saw[p] /\ queue[p] # <<>>
  <2>1. queue' = [queue EXCEPT ![p] = Tail(queue[p])] /\ loop' = [loop EXCEPT ![p] = "connect"]
    BY <1>5 DEF Receive
  <2>2. queue'[p] = Tail(queue[p]) /\ loop'[p] = "connect" /\ \A q \in Loops \ {p} : queue'[q] = queue[q]
    BY <1>2, <2>1
  <2>3. Len(queue'[p]) = Len(queue[p]) - 1 BY <1>2, <1>5, <2>2, HeadTailProperties
  <2>4. Drains(p)' BY <1>1, <1>2, <2>2, <2>3 DEF Drains, Full
  <2>5. ASSUME NEW q \in Loops PROVE Len(queue'[q]) <= QueueCap
    <3>1. CASE q = p BY <1>1, <1>2, <2>3, <3>1
    <3>2. CASE q # p BY <2>2, <3>2 DEF LoopInv, TurnInv
    <3> QED BY <3>1, <3>2
  <2> QED BY <1>3, <2>4, <2>5 DEF TurnInv
<1>6. CASE ~("control" \in saw[p] /\ queue[p] # <<>>)
  <2>1. queue' = queue /\ loop' = [loop EXCEPT ![p] = "listen"] BY <1>6 DEF Receive
  <2>2. loop'[p] = "listen" /\ \A q \in Loops \ {p} : loop'[q] = loop[q] BY <1>2, <2>1
  <2>3. Drains(p) => Drains(p)'
    <3>1. queue[p] = <<>> => ~Full(p) BY <1>1 DEF Full
    <3>2. Drains(p) => ~Full(p) BY <1>4, <1>6, <3>1 DEF Drains
    <3>3. ~Full(p) => ~Full(p)' BY <2>1 DEF Full
    <3> QED BY <2>2, <3>2, <3>3 DEF Drains
  <2>4. \A q \in Loops \ {p} : (Drains(q) => Drains(q)') /\ (InTurn(q)' => InTurn(q))
    BY <1>4, <2>1, <2>2 DEF Drains, Full, InTurn
  <2>5. InTurn(p) BY <1>4 DEF InTurn
  <2>6. InTurn("inside")' /\ InTurn("outside")' => Drains("inside")' \/ Drains("outside")'
    BY <1>3, <2>3, <2>4, <2>5, LoopsAre DEF LoopInv, TurnInv
  <2> QED BY <2>1, <2>6 DEF LoopInv, TurnInv
<1> QED BY <1>5, <1>6

(* A loop writes only when there is room, and is then out of its turn.     *)
LEMMA SendKeepsTurn ==
  ASSUME LoopInv, NEW p \in Loops, hand[p] \in Conns, Send(p)
  PROVE  TurnInv' /\ queue' \in [Loops -> Seq(Conns)]
<1>1. QueueCap \in Nat /\ QueueCap > 0 BY BridgeAssumption
<1>2. PICK q \in Loops : q = Peer(p) /\ q # p BY LoopsAre
<1>3. /\ queue[q] \in Seq(Conns) /\ Len(queue[q]) \in Nat
      /\ loop \in [Loops -> Places] /\ queue \in [Loops -> Seq(Conns)]
  BY DEF LoopInv, LoopType
<1>4. loop'[p] = Reaped(p) BY <1>3 DEF Send
<1>5. ~InTurn(p)' BY <1>4 DEF InTurn, Reaped
<1>6. p = "inside" \/ p = "outside" BY LoopsAre
<1>7. queue' \in [Loops -> Seq(Conns)] /\ \A r \in Loops : Len(queue'[r]) <= QueueCap
  <2>1. CASE ~ControlOpen(q)
    <3>1. queue' = queue BY <1>2, <2>1 DEF Send
    <3> QED BY <1>3, <3>1 DEF LoopInv, TurnInv
  <2>2. CASE ControlOpen(q)
    <3>1. ~Full(q) BY <1>2, <2>2 DEF Send, Blocked
    <3>2. queue' = [queue EXCEPT ![q] = Append(queue[q], hand[p])] BY <1>2, <2>2 DEF Send
    <3>3. Append(queue[q], hand[p]) \in Seq(Conns) BY <1>3, AppendProperties
    <3>4. Len(Append(queue[q], hand[p])) = Len(queue[q]) + 1 BY <1>3, AppendProperties
    <3>5. Len(queue[q]) + 1 <= QueueCap BY <1>1, <1>3, <3>1 DEF Full
    <3>6. queue'[q] = Append(queue[q], hand[p]) /\ \A r \in Loops \ {q} : queue'[r] = queue[r]
      BY <1>3, <3>2
    <3>7. \A r \in Loops : Len(queue'[r]) <= QueueCap BY <3>4, <3>5, <3>6 DEF LoopInv, TurnInv
    <3> QED BY <1>3, <3>2, <3>3, <3>7
  <2> QED BY <2>1, <2>2
<1> QED BY <1>5, <1>6, <1>7 DEF TurnInv

(* A queue that is dropped, or not.                                        *)
LEMMA QueueDropped ==
  ASSUME LoopType, NEW p \in Loops, queue' = queue \/ queue' = [queue EXCEPT ![p] = <<>>]
  PROVE  queue' \in [Loops -> Seq(Conns)] /\ \A q \in Loops : queue'[q] \in {queue[q], <<>>}
<1>1. queue \in [Loops -> Seq(Conns)] /\ <<>> \in Seq(Conns) BY EmptySeq DEF LoopType
<1>2. CASE queue' = queue BY <1>1, <1>2
<1>3. CASE queue' = [queue EXCEPT ![p] = <<>>]
  <2>1. PICK e : e = <<>> OBVIOUS
  <2>2. e \in Seq(Conns) /\ queue' = [queue EXCEPT ![p] = e] BY <1>1, <1>3, <2>1
  <2>3. queue' \in [Loops -> Seq(Conns)] /\ \A q \in Loops : queue'[q] \in {queue[q], e}
    BY <1>1, <2>2
  <2> QED BY <2>1, <2>3
<1> QED BY <1>2, <1>3

(* The end of a loop takes it out of its turn.                             *)
LEMMA GoneKeepsTurn ==
  ASSUME LoopInv, NEW p \in Loops, Gone(p)
  PROVE  LoopInv'
<1>1. /\ loop \in [Loops -> Places] /\ saw \in [Loops -> SUBSET {"control", "listener"}]
      /\ queue \in [Loops -> Seq(Conns)]
  BY DEF LoopInv, LoopType
<1>2. queue' = queue \/ queue' = [queue EXCEPT ![p] = <<>>] BY <1>1 DEF Gone
<1>3. queue' \in [Loops -> Seq(Conns)] /\ \A q \in Loops : queue'[q] \in {queue[q], <<>>}
  BY <1>2, QueueDropped DEF LoopInv
<1>4. loop' = [loop EXCEPT ![p] = "gone"] /\ saw' = [saw EXCEPT ![p] = {}] BY DEF Gone
<1>5. LoopType' BY <1>1, <1>3, <1>4 DEF LoopType, Places
<1>6. \A q \in Loops : InTurn(q)' => loop'[q] = loop[q] /\ saw'[q] = saw[q]
  BY <1>1, <1>4 DEF InTurn
<1>7. TurnInv' BY <1>3, <1>5, <1>6, TurnKeeps
<1> QED BY <1>5, <1>7 DEF LoopInv

LEMMA SetupKeepsTurn ==
  ASSUME LoopInv, Setup
  PROVE  LoopInv'
<1>1. /\ loop \in [Loops -> Places] /\ saw \in [Loops -> SUBSET {"control", "listener"}]
      /\ queue \in [Loops -> Seq(Conns)] /\ LoopType
  BY DEF LoopInv, LoopType
<1>2. CASE InsideFails BY <1>2, GoneKeepsTurn, LoopsAre DEF InsideFails
<1>3. CASE BridgeFails \/ BridgeForks \/ InsideForks
  <2>1. saw' = saw /\ queue' = queue BY <1>3 DEF BridgeFails, BridgeForks, InsideForks, passVars
  <2>2. /\ loop' \in [Loops -> Places]
        /\ \A q \in Loops : InTurn(q)' => loop'[q] = loop[q]
    <3>1. CASE BridgeFails BY <1>1, <3>1 DEF BridgeFails, Places, InTurn
    <3>2. CASE InsideForks BY <1>1, <3>2 DEF InsideForks, Places, InTurn
    <3>3. CASE BridgeForks BY <1>1, <3>3 DEF BridgeForks, Places, InTurn, Loops
    <3> QED BY <1>3, <3>1, <3>2, <3>3
  <2>3. LoopType' BY <1>1, <2>1, <2>2 DEF LoopType
  <2>4. TurnInv' BY <2>1, <2>2, <2>3, TurnKeeps
  <2> QED BY <2>3, <2>4 DEF LoopInv
<1> QED BY <1>2, <1>3 DEF Setup

LEMMA LoopStepKeepsTurn ==
  ASSUME LoopInv, NEW p \in Loops, loop[p] = "send" => hand[p] \in Conns, LoopStep(p) \/ PollFails(p)
  PROVE  LoopInv'
<1>1. /\ loop \in [Loops -> Places] /\ saw \in [Loops -> SUBSET {"control", "listener"}]
      /\ queue \in [Loops -> Seq(Conns)] /\ LoopType
  BY DEF LoopInv, LoopType
<1>2. CASE Poll(p)
  <2>1. LoopType' BY <1>1, <1>2 DEF Poll, LoopType, Places, Ready, passVars
  <2> QED BY <1>2, <2>1, PollKeepsTurn DEF LoopInv
<1>3. CASE Receive(p)
  <2>1. queue' \in [Loops -> Seq(Conns)]
    <3>1. queue[p] # <<>> => Tail(queue[p]) \in Seq(Conns) BY <1>1, HeadTailProperties
    <3> QED BY <1>1, <1>3, <3>1 DEF Receive
  <2>2. loop' \in [Loops -> Places] BY <1>1, <1>3 DEF Receive, Places
  <2>3. LoopType' BY <1>1, <1>3, <2>1, <2>2 DEF Receive, LoopType
  <2> QED BY <1>3, <2>3, ReceiveKeepsTurn DEF LoopInv
<1>4. CASE Send(p)
  <2>1. TurnInv' /\ queue' \in [Loops -> Seq(Conns)] BY <1>4, SendKeepsTurn DEF Send
  <2>2. LoopType' BY <1>1, <1>4, <2>1 DEF Send, LoopType, Places, Reaped
  <2> QED BY <2>1, <2>2 DEF LoopInv
<1>5. CASE Connect(p) \/ Accept(p) \/ PollFails(p)
  <2>1. saw' = saw /\ queue' = queue BY <1>5 DEF Connect, Accept, PollFails, passVars
  <2>2. PICK x \in {"listen", "send", "poll", "leave", "kill"} : loop' = [loop EXCEPT ![p] = x]
    BY <1>5 DEF Connect, Accept, Reaped, PollFails
  <2>3. loop[p] = "poll" => x = "kill" BY <1>1, <1>5, <2>2 DEF Connect, Accept, PollFails
  <2>4. loop[p] \in {"poll", "connect", "listen"} BY <1>5 DEF Connect, Accept, PollFails
  <2>5. LoopType' BY <1>1, <2>1, <2>2 DEF LoopType, Places
  <2>6. ASSUME NEW q \in Loops, InTurn(q)'
        PROVE  \/ loop'[q] = loop[q] /\ saw'[q] = saw[q]
               \/ loop[q] \in {"connect", "listen"} /\ loop'[q] \in {"connect", "listen", "send"}
    <3>1. CASE q # p BY <1>1, <2>1, <2>2, <3>1
    <3>2. CASE q = p BY <1>1, <2>2, <2>3, <2>4, <2>6, <3>2 DEF InTurn
    <3> QED BY <3>1, <3>2
  <2>7. TurnInv' BY <2>1, <2>5, <2>6, TurnKeeps
  <2> QED BY <2>5, <2>7 DEF LoopInv
<1>6. CASE KillPrincipal(p)
  <2>1. CASE Gone("inside") BY <2>1, GoneKeepsTurn, LoopsAre
  <2>2. CASE UNCHANGED <<loopVars, queue>>
    BY <2>2 DEF loopVars, LoopInv, LoopType, TurnInv, InTurn, Drains, Full
  <2> QED BY <1>6, <2>1, <2>2 DEF KillPrincipal
<1>7. CASE Leave(p) BY <1>7, GoneKeepsTurn DEF Leave
<1> QED BY <1>2, <1>3, <1>4, <1>5, <1>6, <1>7 DEF LoopStep

LEMMA OtherStepKeepsTurn ==
  ASSUME LoopInv, PayloadStep \/ UNCHANGED vars \/ \E c \in Conns : RelayStep(c) \/ PeerStep(c)
  PROVE  LoopInv'
<1>1. LoopType BY DEF LoopInv
<1>2. loop' = loop /\ saw' = saw
  BY DEF PayloadStep, PayloadEnds, RelayStep, AskParent, ArmRelay, KillRelay, LeaveRelay, EndRelay, Turn,
         PeerStep, ClientOpens, PeerResets, PeerSends, PeerEnds, loopVars, vars
<1>3. queue' = queue \/ \E p \in Loops : queue' = [queue EXCEPT ![p] = <<>>]
  <2>1. ASSUME NEW c \in Conns, ArmRelay(c)
        PROVE  queue' = queue \/ \E p \in Loops : queue' = [queue EXCEPT ![p] = <<>>]
    <3>1. Parent(c) \in Loops BY LoopsAre DEF Parent
    <3> QED BY <1>1, <2>1, <3>1 DEF ArmRelay, DropQueue, LoopType
  <2>2. ASSUME ~\E c \in Conns : ArmRelay(c) PROVE queue' = queue
    BY <2>2 DEF PayloadStep, PayloadEnds, RelayStep, AskParent, KillRelay, LeaveRelay, EndRelay, Turn,
           PeerStep, ClientOpens, PeerResets, PeerSends, PeerEnds, passVars, vars
  <2> QED BY <2>1, <2>2
<1>4. queue' \in [Loops -> Seq(Conns)] /\ \A p \in Loops : queue'[p] \in {queue[p], <<>>}
  BY <1>1, <1>3, QueueDropped, LoopsAre
<1>5. LoopType' BY <1>1, <1>2, <1>4 DEF LoopType
<1>6. TurnInv' BY <1>2, <1>4, <1>5, TurnKeeps
<1> QED BY <1>5, <1>6 DEF LoopInv

-----------------------------------------------------------------------------
(* How the loops and the payload end.                                      *)

LEMMA PrincipalsAre ==
  Principal("inside") = "payload" /\ Principal("outside") = "inside" /\ "inside" \in Loops /\ "outside" \in Loops
BY DEF Principal, Loops

(* A step of the loops that ends nobody.                                   *)
LEMMA MoveKeepsEnd ==
  ASSUME EndInv, status' = status, answer' = answer,
         \A p \in Loops : loop'[p] = "leave" => loop[p] = "leave" \/ status[Principal(p)] # None,
         loop["inside"] = "gone" => loop'["inside"] = "gone",
         loop'["inside"] \in {"unborn", "setup"} => loop["inside"] \in {"unborn", "setup"},
         loop'["outside"] = "setup" => loop["outside"] = "setup" /\ loop'["inside"] = loop["inside"],
         answer # None => loop' = loop
  PROVE  EndInv'
<1>1. \A p \in Loops : loop'[p] = "leave" => status'[Principal(p)] # None BY DEF EndInv
<1>2. status'["inside"] # None => loop'["inside"] = "gone" /\ InsideEnd' BY DEF EndInv, InsideEnd
<1>3. StatusIsThePayloads' BY DEF EndInv, StatusIsThePayloads
<1>4. loop'["outside"] = "setup" => loop'["inside"] = "unborn" BY DEF EndInv
<1>5. loop'["inside"] \in {"unborn", "setup"} => status'["payload"] = None BY DEF EndInv
<1>6. answer' # None => loop'["inside"] \in {"unborn", "gone"} /\ loop'["outside"] = "gone" BY DEF EndInv
<1>7. (status = [x \in {"payload", "inside"} |-> status[x]])' BY DEF EndInv
<1> QED BY <1>1, <1>2, <1>3, <1>4, <1>5, <1>6, <1>7 DEF EndInv

LEMMA SetupKeepsEnd ==
  ASSUME EndInv, LoopType, Setup
  PROVE  EndInv'
<1>1. loop \in [Loops -> Places] BY DEF LoopType
<1>2. CASE BridgeFails
  <2>1. loop' = [loop EXCEPT !["outside"] = "gone"] /\ answer' = 125 /\ status' = status
        /\ loop["outside"] = "setup"
    BY <1>2 DEF BridgeFails
  <2>2. loop'["outside"] = "gone" /\ loop'["inside"] = loop["inside"] BY <1>1, <2>1, PrincipalsAre
  <2>3. loop["inside"] = "unborn" BY <2>1 DEF EndInv
  <2>4. status["payload"] = None BY <2>3 DEF EndInv
  <2>5. StatusIsThePayloads' BY <2>1, <2>4 DEF StatusIsThePayloads
  <2>6. \A p \in Loops : loop'[p] # "leave" BY <2>2, <2>3, LoopsAre
  <2>7. status'["inside"] = None BY <2>1, <2>3 DEF EndInv
  <2> QED BY <2>1, <2>2, <2>3, <2>4, <2>5, <2>6, <2>7 DEF EndInv
<1>3. CASE BridgeForks
  <2>1. loop'["inside"] = "setup" /\ loop'["outside"] = "poll" /\ loop["outside"] = "setup"
    BY <1>3 DEF BridgeForks
  <2>2. status' = status /\ answer' = answer BY <1>3 DEF BridgeForks, endVars
  <2>3. loop["inside"] = "unborn" BY <2>1 DEF EndInv
  <2>4. answer = None BY <2>1 DEF EndInv
  <2> QED BY <2>1, <2>2, <2>3, <2>4, MoveKeepsEnd, LoopsAre
<1>4. CASE InsideForks
  <2>1. loop'["inside"] = "poll" /\ loop'["outside"] = loop["outside"] /\ loop["inside"] = "setup"
    BY <1>1, <1>4, PrincipalsAre DEF InsideForks
  <2>2. status' = status /\ answer' = answer BY <1>4 DEF InsideForks, endVars
  <2>3. answer = None /\ loop["outside"] # "setup" BY <2>1 DEF EndInv
  <2> QED BY <2>1, <2>2, <2>3, MoveKeepsEnd, LoopsAre
<1>5. CASE InsideFails
  <2>1. loop'["inside"] = "gone" /\ loop'["outside"] = loop["outside"] /\ loop["inside"] = "setup"
    BY <1>1, <1>5, PrincipalsAre DEF InsideFails, Gone
  <2>2. status' = [status EXCEPT !["inside"] = Exited(125)] /\ answer' = answer BY <1>5 DEF InsideFails
  <2>3. answer = None /\ loop["outside"] # "setup" /\ status["payload"] = None BY <2>1 DEF EndInv
  <2>4. status'["inside"] = Exited(125) /\ status'["payload"] = None
        /\ status' = [x \in {"payload", "inside"} |-> status'[x]]
    BY <2>2, <2>3 DEF EndInv
  <2>5. InsideEnd' BY <2>4 DEF InsideEnd
  <2>6. ASSUME NEW p \in Loops, loop'[p] = "leave" PROVE status'[Principal(p)] # None
    <3>1. p = "outside" /\ loop["outside"] = "leave" BY <2>1, <2>6, LoopsAre
    <3>2. status["inside"] # None BY <3>1, PrincipalsAre DEF EndInv
    <3> QED BY <2>1, <3>2 DEF EndInv
  <2>7. StatusIsThePayloads' BY <2>2, <2>3 DEF StatusIsThePayloads
  <2> QED BY <2>1, <2>2, <2>3, <2>4, <2>5, <2>6, <2>7 DEF EndInv
<1> QED BY <1>2, <1>3, <1>4, <1>5 DEF Setup

LEMMA PayloadKeepsEnd ==
  ASSUME EndInv, NEW x, PayloadEnds(x)
  PROVE  EndInv'
<1>1. /\ loop' = loop /\ answer' = answer /\ status' = [status EXCEPT !["payload"] = x]
      /\ loop["inside"] \notin {"unborn", "setup", "gone"} /\ status["payload"] = None
  BY DEF PayloadEnds, loopVars, Serving
<1>2. status'["payload"] = x /\ status'["inside"] = status["inside"]
      /\ status' = [y \in {"payload", "inside"} |-> status'[y]]
  BY <1>1 DEF EndInv
<1>3. status["inside"] = None /\ answer = None BY <1>1 DEF EndInv
<1>4. ASSUME NEW p \in Loops, loop'[p] = "leave" PROVE status'[Principal(p)] # None
  <2>1. status[Principal(p)] # None BY <1>1, <1>4 DEF EndInv
  <2>2. p = "inside" \/ p = "outside" BY LoopsAre
  <2> QED BY <1>1, <1>3, <2>1, <2>2, PrincipalsAre
<1>5. StatusIsThePayloads' BY <1>1, <1>3 DEF StatusIsThePayloads
<1> QED BY <1>1, <1>2, <1>3, <1>4, <1>5 DEF EndInv

(* A loop that kills what it waits for. *)
LEMMA KillKeepsEnd ==
  ASSUME EndInv, LoopType, NEW p \in Loops, KillPrincipal(p)
  PROVE  EndInv'
<1>1. loop \in [Loops -> Places] BY DEF LoopType
<1>2. /\ status' = [status EXCEPT ![Principal(p)] = Signaled] /\ answer' = answer
      /\ loop[p] = "kill" /\ status[Principal(p)] = None
  BY DEF KillPrincipal
<1>3. answer = None BY <1>2, LoopsAre DEF EndInv
<1>4. StatusIsThePayloads' BY <1>2, <1>3 DEF StatusIsThePayloads
<1>5. CASE p = "inside"
  <2>1. loop' = loop BY <1>2, <1>5 DEF KillPrincipal, loopVars
  <2>2. status' = [status EXCEPT !["payload"] = Signaled] BY <1>2, <1>5, PrincipalsAre
  <2>3. status'["inside"] = status["inside"] /\ status'["payload"] = Signaled
        /\ status' = [y \in {"payload", "inside"} |-> status'[y]]
    BY <2>2 DEF EndInv
  <2>4. status["inside"] = None BY <1>2, <1>5 DEF EndInv
  <2>5. ASSUME NEW q \in Loops, loop'[q] = "leave" PROVE status'[Principal(q)] # None
    BY <1>2, <1>5, <2>1, <2>4, <2>5, LoopsAre, PrincipalsAre DEF EndInv
  <2> QED BY <1>2, <1>3, <1>4, <1>5, <2>1, <2>3, <2>4, <2>5 DEF EndInv
<1>6. CASE p = "outside"
  <2>1. loop' = [loop EXCEPT !["inside"] = "gone"] BY <1>6 DEF KillPrincipal, Gone
  <2>2. loop'["inside"] = "gone" /\ loop'["outside"] = "kill" BY <1>1, <1>2, <1>6, <2>1, PrincipalsAre
  <2>3. status' = [status EXCEPT !["inside"] = Signaled] BY <1>2, <1>6, PrincipalsAre
  <2>4. status'["inside"] = Signaled /\ status' = [y \in {"payload", "inside"} |-> status'[y]]
    BY <2>3 DEF EndInv
  <2>5. InsideEnd' BY <2>4 DEF InsideEnd
  <2>6. \A q \in Loops : loop'[q] # "leave" BY <2>2, LoopsAre
  <2> QED BY <1>2, <1>3, <1>4, <2>2, <2>4, <2>5, <2>6 DEF EndInv
<1> QED BY <1>5, <1>6, LoopsAre

(* A loop that leaves has the status of what it waited for. *)
LEMMA LeaveKeepsEnd ==
  ASSUME EndInv, LoopType, NEW p \in Loops, Leave(p)
  PROVE  EndInv'
<1>1. loop' = [loop EXCEPT ![p] = "gone"] /\ loop \in [Loops -> Places] BY DEF Leave, Gone, LoopType
<1>2. loop[p] \in {"leave", "kill"} /\ status[Principal(p)] # None BY DEF Leave, EndInv
<1>3. answer = None BY <1>2, LoopsAre DEF EndInv
<1>4. CASE p = "inside"
  <2>1. loop'["inside"] = "gone" /\ loop'["outside"] = loop["outside"] BY <1>1, <1>4, PrincipalsAre
  <2>2. status' = [status EXCEPT !["inside"] = Exited(Decode(status["payload"]))] /\ answer' = answer
    BY <1>4 DEF Leave
  <2>3. /\ status'["inside"] = Exited(Decode(status["payload"])) /\ status'["payload"] = status["payload"]
        /\ status' = [y \in {"payload", "inside"} |-> status'[y]]
    BY <2>2 DEF EndInv
  <2>4. InsideEnd' BY <1>2, <1>4, <2>3, PrincipalsAre DEF InsideEnd
  <2>5. status["inside"] = None /\ loop["outside"] # "setup" BY <1>2, <1>4 DEF EndInv
  <2>6. \A q \in Loops : loop'[q] # "leave" BY <2>1, <2>5, LoopsAre, PrincipalsAre DEF EndInv
  <2>7. StatusIsThePayloads' BY <1>3, <2>2 DEF StatusIsThePayloads
  <2> QED BY <1>3, <2>1, <2>2, <2>3, <2>4, <2>5, <2>6, <2>7 DEF EndInv
<1>5. CASE p = "outside"
  <2>1. loop'["outside"] = "gone" /\ loop'["inside"] = loop["inside"] BY <1>1, <1>5, PrincipalsAre
  <2>2. answer' = Decode(status["inside"]) /\ status' = status BY <1>5 DEF Leave
  <2>3. loop["inside"] = "gone" /\ InsideEnd BY <1>2, <1>5, PrincipalsAre DEF EndInv
  <2>4. StatusIsThePayloads'
    <3>1. CASE status["inside"] = Signaled BY <2>2, <3>1 DEF StatusIsThePayloads
    <3>2. CASE status["inside"] = Exited(125) /\ status["payload"] = None
      BY <2>2, <3>2 DEF StatusIsThePayloads, Decode, Exited
    <3>3. CASE status["payload"] # None /\ status["inside"] = Exited(Decode(status["payload"]))
      <4>1. PICK d : d = Decode(status["payload"]) OBVIOUS
      <4>2. Decode(Exited(d)) = d BY DEF Decode, Exited
      <4>3. answer' = d BY <2>2, <3>3, <4>1, <4>2
      <4> QED BY <2>2, <3>3, <4>1, <4>3 DEF StatusIsThePayloads
    <3> QED BY <2>3, <3>1, <3>2, <3>3 DEF InsideEnd
  <2>5. InsideEnd' BY <2>2, <2>3 DEF InsideEnd
  <2>6. \A q \in Loops : loop'[q] # "leave" BY <2>1, <2>3, LoopsAre
  <2>7. status' = [y \in {"payload", "inside"} |-> status'[y]] BY <2>2 DEF EndInv
  <2>8. loop'["inside"] = "gone" BY <2>1, <2>3
  <2> QED BY <2>1, <2>4, <2>5, <2>6, <2>7, <2>8 DEF EndInv
<1> QED BY <1>4, <1>5, LoopsAre

LEMMA LoopStepKeepsEnd ==
  ASSUME EndInv, LoopType, NEW p \in Loops, LoopStep(p) \/ PollFails(p)
  PROVE  EndInv'
<1>1. loop \in [Loops -> Places] BY DEF LoopType
<1>2. CASE Poll(p) \/ Receive(p) \/ Connect(p) \/ Accept(p) \/ Send(p) \/ PollFails(p)
  <2>1. status' = status /\ answer' = answer
    BY <1>2 DEF Poll, Receive, Connect, Accept, Send, PollFails, endVars
  <2>2. PICK x \in {"control", "connect", "listen", "send", "poll", "leave", "kill"} :
          loop' = [loop EXCEPT ![p] = x] /\ (x = "leave" => status[Principal(p)] # None)
    BY <1>2 DEF Poll, Receive, Connect, Accept, Send, PollFails, Reaped
  <2>3. loop[p] \in {"poll", "control", "connect", "listen", "send"}
    BY <1>2 DEF Poll, Receive, Connect, Accept, Send, PollFails
  <2>4. loop'[p] = x /\ \A q \in Loops \ {p} : loop'[q] = loop[q] BY <1>1, <2>2
  <2>5. answer = None BY <2>3, LoopsAre DEF EndInv
  <2>6. p = "outside" => loop'["inside"] = loop["inside"] BY <2>4, LoopsAre
  <2>7. p = "inside" => loop["outside"] # "setup" BY <2>3 DEF EndInv
  <2>8. loop'["outside"] # "setup"
    <3>1. CASE p = "outside" BY <2>2, <2>4, <3>1
    <3>2. CASE p = "inside" BY <2>4, <2>7, <3>2, LoopsAre
    <3> QED BY <3>1, <3>2, LoopsAre
  <2>9. (loop["inside"] = "gone" => loop'["inside"] = "gone")
        /\ (loop'["inside"] \in {"unborn", "setup"} => loop["inside"] \in {"unborn", "setup"})
    <3>1. CASE p = "outside" BY <2>6, <3>1
    <3>2. CASE p = "inside" BY <2>2, <2>3, <2>4, <3>2
    <3> QED BY <3>1, <3>2, LoopsAre
  <2>10. ASSUME NEW q \in Loops, loop'[q] = "leave" PROVE loop[q] = "leave" \/ status[Principal(q)] # None
    <3>1. CASE q = p BY <2>2, <2>4, <2>10, <3>1
    <3>2. CASE q # p BY <2>4, <2>10, <3>2
    <3> QED BY <3>1, <3>2
  <2> QED BY <2>1, <2>5, <2>8, <2>9, <2>10, MoveKeepsEnd
<1>3. CASE KillPrincipal(p) BY <1>3, KillKeepsEnd
<1>4. CASE Leave(p) BY <1>4, LeaveKeepsEnd
<1> QED BY <1>2, <1>3, <1>4 DEF LoopStep

LEMMA OtherStepKeepsEnd ==
  ASSUME EndInv, UNCHANGED vars \/ \E c \in Conns : RelayStep(c) \/ PeerStep(c)
  PROVE  EndInv'
<1>1. loop' = loop /\ status' = status /\ answer' = answer
  BY DEF RelayStep, AskParent, ArmRelay, KillRelay, LeaveRelay, EndRelay, Turn,
         PeerStep, ClientOpens, PeerResets, PeerSends, PeerEnds, loopVars, endVars, vars
<1> QED BY <1>1, MoveKeepsEnd

-----------------------------------------------------------------------------
(* The bytes of the relays.                                                *)

LEMMA SidesAre ==
  \A s \in Sides : Other(s) \in Sides /\ Other(s) # s /\ Other(Other(s)) = s
BY DEF Sides, Other

(* What is left in the buffer of a direction.                              *)
LEMMA PendingIs ==
  ASSUME NEW d \in Direction, d.offset <= Len(d.bytes)
  PROVE  /\ Pending(d) \in Seq(Nat) /\ Len(Pending(d)) = Length(d) /\ Length(d) \in Nat
         /\ Length(d) = 0 => Pending(d) = <<>>
<1>1. d.bytes \in Seq(Nat) /\ d.offset \in Nat /\ Len(d.bytes) \in Nat BY DEF Direction
<1>2. \A i \in (d.offset + 1)..Len(d.bytes) : d.bytes[i] \in Nat
  <2> SUFFICES ASSUME NEW i \in (d.offset + 1)..Len(d.bytes) PROVE d.bytes[i] \in Nat OBVIOUS
  <2>1. i \in 1..Len(d.bytes) BY <1>1
  <2> QED BY <1>1, <2>1, ElementOfSeq
<1>3. Pending(d) \in Seq(Nat)
      /\ Len(Pending(d)) = IF d.offset + 1 <= Len(d.bytes) THEN Len(d.bytes) - (d.offset + 1) + 1 ELSE 0
  BY <1>1, <1>2, SubSeqProperties DEF Pending
<1>4. Length(d) \in Nat /\ Len(Pending(d)) = Length(d) BY <1>1, <1>3 DEF Length
<1> QED BY <1>3, <1>4, EmptySeq

(* A prefix of a sequence and what follows it.                             *)
LEMMA SplitAt ==
  ASSUME NEW q \in Seq(Nat), NEW k \in 0..Len(q)
  PROVE  /\ SubSeq(q, 1, k) \in Seq(Nat) /\ Len(SubSeq(q, 1, k)) = k
         /\ SubSeq(q, k + 1, Len(q)) \in Seq(Nat) /\ Len(SubSeq(q, k + 1, Len(q))) = Len(q) - k
         /\ SubSeq(q, 1, k) \o SubSeq(q, k + 1, Len(q)) = q
<1>1. Len(q) \in Nat /\ \A i \in 1..Len(q) : q[i] \in Nat BY ElementOfSeq, LenProperties
<1>2. SubSeq(q, 1, k) \in Seq(Nat) /\ Len(SubSeq(q, 1, k)) = k
      /\ \A i \in 1..k : SubSeq(q, 1, k)[i] = q[i]
  <2>1. \A i \in 1..k : q[i] \in Nat BY <1>1
  <2> QED BY <1>1, <2>1, SubSeqProperties
<1>3. /\ SubSeq(q, k + 1, Len(q)) \in Seq(Nat) /\ Len(SubSeq(q, k + 1, Len(q))) = Len(q) - k
      /\ \A i \in 1..(Len(q) - k) : SubSeq(q, k + 1, Len(q))[i] = q[k + i]
  <2>1. \A i \in (k + 1)..Len(q) : q[i] \in Nat BY <1>1
  <2> QED BY <1>1, <2>1, SubSeqProperties
<1>4. SubSeq(q, 1, k) \o SubSeq(q, k + 1, Len(q)) = SubSeq(q, 1, Len(q))
  <2>1. 1 \in 1..(Len(q) + 1) /\ k \in (1 - 1)..Len(q) /\ Len(q) \in k..Len(q) BY <1>1
  <2> QED BY <2>1, ConcatAdjacentSubSeq
<1> QED BY <1>2, <1>3, <1>4, SubSeqFull

LEMMA Regroup ==
  ASSUME NEW g \in Seq(Nat), NEW t \in Seq(Nat), NEW r \in Seq(Nat)
  PROVE  (g \o t) \o r = g \o (t \o r)
BY ConcatAssociative

(* The fields of a direction after recv and after send.                    *)
Refill(d, t) == [d EXCEPT !.bytes = t, !.offset = 0]

LEMMA Refilled ==
  ASSUME NEW d \in Direction, NEW t \in Seq(Nat), NEW e, e = Refill(d, t)
  PROVE  e \in Direction /\ e.bytes = t /\ e.offset = 0 /\ e.eof = d.eof /\ e.shut = d.shut
<1>1. e \in Direction BY DEF Direction, Refill
<1>2. e.bytes = t /\ e.offset = 0 BY DEF Direction, Refill
<1>3. e.shut = d.shut BY DEF Direction, Refill
<1>4. e.eof = d.eof BY DEF Direction, Refill
<1> QED BY <1>1, <1>2, <1>3, <1>4

LEMMA Advanced ==
  ASSUME NEW d \in Direction, NEW m \in Nat, NEW e, e = [d EXCEPT !.offset = m]
  PROVE  e \in Direction /\ e.bytes = d.bytes /\ e.offset = m /\ e.eof = d.eof /\ e.shut = d.shut
<1>1. e \in Direction BY DEF Direction
<1>2. e.bytes = d.bytes /\ e.offset = m BY DEF Direction
<1>3. e.shut = d.shut BY DEF Direction
<1>4. e.eof = d.eof BY DEF Direction
<1> QED BY <1>1, <1>2, <1>3, <1>4

(* recv into an empty buffer: what it takes leaves the socket and nothing  *)
(* else of the stream changes; it reports the end only with nothing left.  *)
ReadOK(d, g, a, t, r) ==
  /\ Received(d, t) \in Direction /\ Received(d, t).offset <= Len(Received(d, t).bytes)
  /\ (g \o Pending(Received(d, t))) \o r = (g \o Pending(d)) \o a
  /\ Received(d, t).shut = d.shut
  /\ IF a = <<>> THEN Received(d, t).eof /\ Length(Received(d, t)) = 0
                 ELSE Received(d, t).eof = d.eof

LEMMA ReceivedKeeps ==
  ASSUME NEW d \in Direction, d.offset <= Len(d.bytes), Length(d) = 0,
         NEW g \in Seq(Nat), NEW a \in Seq(Nat), NEW t \in Seq(Nat), NEW r \in Seq(Nat),
         t \o r = a, t = <<>> => a = <<>>
  PROVE  ReadOK(d, g, a, t, r)
<1>1. Pending(d) = <<>> BY PendingIs
<1>2. g \o Pending(d) = g BY <1>1, ConcatEmptySeq
<1>3. CASE t = <<>>
  <2>1. PICK e : e = Received(d, t) OBVIOUS
  <2>2. e = [d EXCEPT !.eof = TRUE] BY <1>3, <2>1 DEF Received
  <2>3. e \in Direction /\ e.bytes = d.bytes /\ e.offset = d.offset /\ e.eof /\ e.shut = d.shut
    BY <2>2 DEF Direction
  <2>4. Pending(e) = Pending(d) /\ Length(e) = 0 BY <2>3 DEF Pending, Length
  <2>5. r = a BY <1>3, ConcatEmptySeq
  <2> QED BY <1>3, <2>1, <2>3, <2>4, <2>5 DEF ReadOK
<1>4. CASE t # <<>>
  <2>1. PICK e : e = Received(d, t) OBVIOUS
  <2>2. e = Refill(d, t) BY <1>4, <2>1 DEF Received, Refill
  <2>3. e \in Direction /\ e.bytes = t /\ e.offset = 0 /\ e.eof = d.eof /\ e.shut = d.shut
    <3>1. Refill(d, t) \in Direction /\ Refill(d, t).bytes = t /\ Refill(d, t).offset = 0
      BY Refilled
    <3>2. Refill(d, t).eof = d.eof /\ Refill(d, t).shut = d.shut BY Refilled
    <3> QED BY <2>2, <3>1, <3>2
  <2>4. Pending(e) = SubSeq(t, 1, Len(t)) BY <2>3 DEF Pending
  <2>5. Pending(e) = t BY <2>4, SubSeqFull
  <2>6. (g \o t) \o r = g \o a BY Regroup
  <2>7. a # <<>> BY <1>4, ConcatEqualIffEmpty
  <2>8. e.offset <= Len(e.bytes) BY <2>3
  <2> QED BY <1>2, <2>1, <2>3, <2>5, <2>6, <2>7, <2>8 DEF ReadOK
<1> QED BY <1>3, <1>4

(* send of the first n bytes left: they go to the peer and leave the       *)
(* buffer.                                                                 *)
LEMMA SentSplits ==
  ASSUME NEW d \in Direction, NEW n \in 1..Length(d)
  PROVE  /\ Sent(d, n) \in Direction /\ Sent(d, n).offset <= Len(Sent(d, n).bytes)
         /\ Sent(d, n).shut = d.shut /\ Sent(d, n).eof = d.eof
         /\ SubSeq(Pending(d), 1, n) \o Pending(Sent(d, n)) = Pending(d)
<1>1. PICK b \in Seq(Nat), o \in Nat, l \in Nat : b = d.bytes /\ o = d.offset /\ l = Len(b)
  BY DEF Direction
<1>2. Length(d) = l - o BY <1>1 DEF Length
<1>3. n \in Nat /\ o \in Nat /\ l \in Nat /\ n >= 1 /\ o + n <= l BY <1>1, <1>2
<1>4. PICK e : e = Sent(d, n) OBVIOUS
<1>5. PICK m \in Nat : m = o + n BY <1>3
<1>6. e = [d EXCEPT !.offset = m] BY <1>1, <1>4, <1>5 DEF Sent
<1>7. e \in Direction /\ e.bytes = d.bytes /\ e.offset = m /\ e.eof = d.eof /\ e.shut = d.shut
  BY <1>6, Advanced
<1>8. e.offset <= Len(e.bytes) BY <1>1, <1>3, <1>5, <1>7
<1>9. Pending(d) = SubSeq(b, o + 1, l) /\ Pending(e) = SubSeq(b, o + n + 1, l)
  BY <1>1, <1>5, <1>7 DEF Pending
<1>10. SubSeq(SubSeq(b, o + 1, l), 1, n) = SubSeq(b, o + 1, o + n)
  <2>1. PICK i \in 1..l, j \in 1..l : i = o + 1 /\ j = l BY <1>3
  <2>2. 1 \in 1..(j - i + 1) /\ n \in 1..(j - i + 1) BY <1>3, <2>1
  <2>3. SubSeq(SubSeq(b, i, j), 1, n) = SubSeq(b, i + 1 - 1, i + n - 1)
    BY <1>1, <2>2, SubSeqOfSubSeq
  <2>4. i + 1 - 1 = o + 1 /\ i + n - 1 = o + n BY <1>3, <2>1
  <2> QED BY <2>1, <2>3, <2>4
<1>11. SubSeq(b, o + 1, o + n) \o SubSeq(b, o + n + 1, l) = SubSeq(b, o + 1, l)
  <2>1. o + 1 \in 1..(l + 1) /\ o + n \in ((o + 1) - 1)..l /\ l \in (o + n)..l BY <1>3
  <2> QED BY <1>1, <2>1, ConcatAdjacentSubSeq
<1>12. SubSeq(Pending(d), 1, n) \o Pending(e) = Pending(d) BY <1>9, <1>10, <1>11
<1> QED BY <1>4, <1>7, <1>8, <1>12

LEMMA SentKeeps ==
  ASSUME NEW d \in Direction, d.offset <= Len(d.bytes), NEW n \in 1..Length(d),
         NEW g \in Seq(Nat), NEW a \in Seq(Nat)
  PROVE  /\ g \o SubSeq(Pending(d), 1, n) \in Seq(Nat)
         /\ ((g \o SubSeq(Pending(d), 1, n)) \o Pending(Sent(d, n))) \o a = (g \o Pending(d)) \o a
<1>1. Pending(d) \in Seq(Nat) /\ Len(Pending(d)) = Length(d) /\ Length(d) \in Nat BY PendingIs
<1>2. Sent(d, n) \in Direction /\ Sent(d, n).offset <= Len(Sent(d, n).bytes) BY SentSplits
<1>3. PICK f \in Seq(Nat) : f = Pending(Sent(d, n)) BY <1>2, PendingIs
<1>4. PICK t \in Seq(Nat) : t = SubSeq(Pending(d), 1, n)
  <2>1. n \in 0..Len(Pending(d)) BY <1>1
  <2> QED BY <1>1, <2>1, SplitAt
<1>5. t \o f = Pending(d) BY <1>3, <1>4, SentSplits
<1>6. (g \o t) \o f = g \o Pending(d)
  <2>1. (g \o t) \o f = g \o (t \o f) BY Regroup
  <2> QED BY <1>5, <2>1
<1>7. g \o t \in Seq(Nat) BY ConcatProperties
<1> QED BY <1>3, <1>4, <1>6, <1>7

(* What one turn of a relay does to a direction: it reads, or it writes,   *)
(* or it leaves it alone; and it shuts down the output of one that ended.  *)
ShutIfOver(d) == IF Ends(d) THEN [d EXCEPT !.shut = TRUE] ELSE d

Reads(c, s, k) ==
  /\ WantsInput(dir[c][s]) /\ (arrived[c][s] # <<>> \/ s \in ended[c])
  /\ k = 0 => arrived[c][s] = <<>>
  /\ dir'[c][s] = ShutIfOver(Received(dir[c][s], SubSeq(arrived[c][s], 1, k)))
  /\ arrived'[c][s] = SubSeq(arrived[c][s], k + 1, Len(arrived[c][s]))
  /\ given'[c][Other(s)] = given[c][Other(s)]

Writes(c, s, n) ==
  /\ dir'[c][s] = ShutIfOver(Sent(dir[c][s], n))
  /\ arrived'[c][s] = arrived[c][s]
  /\ given'[c][Other(s)] = given[c][Other(s)] \o SubSeq(Pending(dir[c][s]), 1, n)

Rests(c, s) ==
  /\ dir'[c][s] = ShutIfOver(dir[c][s]) /\ arrived'[c][s] = arrived[c][s]
  /\ given'[c][Other(s)] = given[c][Other(s)]

LEMMA TurnOnSide ==
  ASSUME ByteType, NEW c \in Conns, NEW s \in Sides, Turn(c)
  PROVE  \/ \E k \in 0..Len(arrived[c][s]) : Reads(c, s, k)
         \/ \E n \in 1..Length(dir[c][s]) : Writes(c, s, n)
         \/ Rests(c, s)
<1> DEFINE readable == {x \in Sides : /\ WantsInput(dir[c][x])
                                      /\ arrived[c][x] # <<>> \/ x \in ended[c]}
           wanting == {x \in Sides : WantsOutput(dir[c][x])}
           room(x) == IF Len(arrived[c][x]) < Buffer THEN Len(arrived[c][x]) ELSE Buffer
           taken(x) == SubSeq(arrived[c][x], 1, room(x))
           moved(x, w, n) == IF x \in readable THEN Received(dir[c][x], taken(x))
                             ELSE IF x \in w THEN Sent(dir[c][x], n[x])
                             ELSE dir[c][x]
<1>1. PICK w \in SUBSET wanting : \E n \in [w -> 1..Buffer] :
        /\ \A x \in w : n[x] <= Length(dir[c][x])
        /\ dir' = [dir EXCEPT ![c] = [x \in Sides |-> ShutIfOver(moved(x, w, n))]]
        /\ arrived' = [arrived EXCEPT ![c] = [x \in Sides |->
             IF x \in readable THEN SubSeq(arrived[c][x], Len(taken(x)) + 1, Len(arrived[c][x]))
             ELSE arrived[c][x]]]
        /\ given' = [given EXCEPT ![c] = [x \in Sides |->
             IF Other(x) \in w
               THEN given[c][x] \o SubSeq(Pending(dir[c][Other(x)]), 1, n[Other(x)]) ELSE given[c][x]]]
  BY DEF Turn, ShutIfOver
<1>2. PICK n \in [w -> 1..Buffer] :
        /\ \A x \in w : n[x] <= Length(dir[c][x])
        /\ dir' = [dir EXCEPT ![c] = [x \in Sides |-> ShutIfOver(moved(x, w, n))]]
        /\ arrived' = [arrived EXCEPT ![c] = [x \in Sides |->
             IF x \in readable THEN SubSeq(arrived[c][x], Len(taken(x)) + 1, Len(arrived[c][x]))
             ELSE arrived[c][x]]]
        /\ given' = [given EXCEPT ![c] = [x \in Sides |->
             IF Other(x) \in w
               THEN given[c][x] \o SubSeq(Pending(dir[c][Other(x)]), 1, n[Other(x)]) ELSE given[c][x]]]
  BY <1>1
<1>3. dir'[c][s] = ShutIfOver(moved(s, w, n))
  <2> HIDE DEF moved, readable
  <2> QED BY <1>2 DEF ByteType
<1>4. arrived'[c][s] = IF s \in readable THEN SubSeq(arrived[c][s], Len(taken(s)) + 1, Len(arrived[c][s]))
                       ELSE arrived[c][s]
  <2> HIDE DEF taken, readable
  <2> QED BY <1>2 DEF ByteType
<1>5. given'[c][Other(s)] = IF s \in w THEN given[c][Other(s)] \o SubSeq(Pending(dir[c][s]), 1, n[s])
                            ELSE given[c][Other(s)]
  <2> HIDE DEF moved, readable, taken, wanting
  <2>1. Other(s) \in Sides /\ Other(Other(s)) = s BY SidesAre
  <2>2. given'[c][Other(s)] = IF Other(Other(s)) \in w
           THEN given[c][Other(s)] \o SubSeq(Pending(dir[c][Other(Other(s))]), 1, n[Other(Other(s))])
           ELSE given[c][Other(s)]
    BY <1>2, <2>1 DEF ByteType
  <2> QED BY <2>1, <2>2
<1>6. arrived[c][s] \in Seq(Nat) /\ Len(arrived[c][s]) \in Nat /\ Buffer \in Nat \ {0}
  BY BridgeAssumption DEF ByteType
<1>7. CASE s \in readable
  <2>1. s \notin w BY <1>7 DEF WantsInput, WantsOutput
  <2>2. room(s) \in 0..Len(arrived[c][s]) /\ (room(s) = 0 => Len(arrived[c][s]) = 0) BY <1>6
  <2>3. PICK k \in 0..Len(arrived[c][s]) : k = room(s) BY <2>2
  <2>4. Len(taken(s)) = k
    <3>1. Len(SubSeq(arrived[c][s], 1, k)) = k BY <1>6, SplitAt
    <3> QED BY <2>3, <3>1
  <2>5. k = 0 => arrived[c][s] = <<>> BY <1>6, <2>2, <2>3, EmptySeq
  <2>6. dir'[c][s] = ShutIfOver(Received(dir[c][s], SubSeq(arrived[c][s], 1, k))) BY <1>3, <1>7, <2>3
  <2>7. arrived'[c][s] = SubSeq(arrived[c][s], k + 1, Len(arrived[c][s])) BY <1>4, <1>7, <2>4
  <2>8. given'[c][Other(s)] = given[c][Other(s)] BY <1>5, <2>1
  <2>9. Reads(c, s, k) BY <1>7, <2>5, <2>6, <2>7, <2>8 DEF Reads
  <2> QED BY <2>9
<1>8. CASE s \notin readable /\ s \in w
  <2>1. n[s] \in 1..Buffer /\ n[s] <= Length(dir[c][s]) BY <1>2, <1>8
  <2>2. dir[c][s] \in Direction BY DEF ByteType
  <2>3. Length(dir[c][s]) \in Int BY <2>2 DEF Length, Direction
  <2>4. n[s] \in 1..Length(dir[c][s]) BY <1>6, <2>1, <2>3
  <2>5. Writes(c, s, n[s]) BY <1>3, <1>4, <1>5, <1>8 DEF Writes
  <2> QED BY <2>4, <2>5
<1>9. CASE s \notin readable /\ s \notin w
  <2>1. Rests(c, s) BY <1>3, <1>4, <1>5, <1>9 DEF Rests
  <2> QED BY <2>1
<1> QED BY <1>7, <1>8, <1>9

LEMMA ShutIs ==
  ASSUME NEW e \in Direction
  PROVE  /\ ShutIfOver(e) \in Direction /\ ShutIfOver(e).bytes = e.bytes
         /\ ShutIfOver(e).offset = e.offset /\ ShutIfOver(e).eof = e.eof
         /\ e.eof /\ Length(e) = 0 => ShutIfOver(e).shut
         /\ ShutIfOver(e).shut => e.shut \/ e.eof
         /\ Pending(ShutIfOver(e)) = Pending(e) /\ Length(ShutIfOver(e)) = Length(e)
<1>1. PICK f : f = ShutIfOver(e) OBVIOUS
<1>2. f \in Direction /\ f.bytes = e.bytes /\ f.offset = e.offset BY <1>1 DEF ShutIfOver, Direction
<1>3. f.eof = e.eof BY <1>1 DEF ShutIfOver, Direction
<1>4. e.eof /\ Length(e) = 0 => f.shut BY <1>1 DEF ShutIfOver, Ends, Direction
<1>5. f.shut => e.shut \/ e.eof BY <1>1 DEF ShutIfOver, Ends, Direction
<1>6. Pending(f) = Pending(e) /\ Length(f) = Length(e) BY <1>2 DEF Pending, Length
<1> QED BY <1>1, <1>2, <1>3, <1>4, <1>5, <1>6

(* What holds of one direction of a connection, for a buffer d, the bytes  *)
(* a not read and the peer's end o.                                        *)
SideOK(d, a, o) ==
  /\ d.offset <= Len(d.bytes) /\ (d.shut => d.eof)
  /\ d.eof => d.shut /\ o /\ Length(d) = 0 /\ a = <<>>

LEMMA TurnKeepsSide ==
  ASSUME ByteType, StreamInv, NEW c \in Conns, NEW s \in Sides, Turn(c)
  PROVE  /\ dir'[c][s] \in Direction /\ arrived'[c][s] \in Seq(Nat) /\ given'[c][Other(s)] \in Seq(Nat)
         /\ SideOK(dir'[c][s], arrived'[c][s], s \in ended[c])
         /\ (given'[c][Other(s)] \o Pending(dir'[c][s])) \o arrived'[c][s]
              = (given[c][Other(s)] \o Pending(dir[c][s])) \o arrived[c][s]
<1>1. PICK d \in Direction, a \in Seq(Nat), g \in Seq(Nat) :
        d = dir[c][s] /\ a = arrived[c][s] /\ g = given[c][Other(s)]
  BY SidesAre DEF ByteType
<1>2. d.offset <= Len(d.bytes) /\ (d.shut => d.eof) /\ (d.eof => d.shut /\ s \in ended[c] /\ Length(d) = 0 /\ a = <<>>)
  BY <1>1 DEF StreamInv, EofInv
<1>3. ASSUME NEW k \in 0..Len(a), Reads(c, s, k)
      PROVE  /\ dir'[c][s] \in Direction /\ arrived'[c][s] \in Seq(Nat) /\ given'[c][Other(s)] \in Seq(Nat)
             /\ SideOK(dir'[c][s], arrived'[c][s], s \in ended[c])
             /\ (given'[c][Other(s)] \o Pending(dir'[c][s])) \o arrived'[c][s] = (g \o Pending(d)) \o a
  <2>1. PICK t \in Seq(Nat), r \in Seq(Nat) :
          t = SubSeq(a, 1, k) /\ r = SubSeq(a, k + 1, Len(a)) /\ t \o r = a /\ Len(t) = k /\ Len(r) = Len(a) - k
    BY SplitAt
  <2>2. t = <<>> => a = <<>> BY <1>1, <1>3, <2>1 DEF Reads
  <2>3. ~d.eof /\ Length(d) = 0 /\ (a # <<>> \/ s \in ended[c]) BY <1>1, <1>3 DEF Reads, WantsInput
  <2>4. PICK e : e = Received(d, t) OBVIOUS
  <2>5. /\ e \in Direction /\ e.offset <= Len(e.bytes) /\ (g \o Pending(e)) \o r = (g \o Pending(d)) \o a
        /\ e.shut = d.shut /\ IF a = <<>> THEN e.eof /\ Length(e) = 0 ELSE e.eof = d.eof
    <3>1. t \o r = a /\ d.offset <= Len(d.bytes) /\ Length(d) = 0 BY <1>2, <2>1, <2>3
    <3>2. ReadOK(d, g, a, t, r) BY <2>2, <3>1, ReceivedKeeps
    <3> QED BY <2>4, <3>2 DEF ReadOK
  <2>6. PICK f : f = ShutIfOver(e) OBVIOUS
  <2>7. dir'[c][s] = f /\ arrived'[c][s] = r /\ given'[c][Other(s)] = g
    BY <1>1, <1>3, <2>1, <2>4, <2>6 DEF Reads
  <2>8. /\ f \in Direction /\ f.bytes = e.bytes /\ f.offset = e.offset /\ f.eof = e.eof
        /\ e.eof /\ Length(e) = 0 => f.shut
        /\ f.shut => e.shut \/ e.eof
        /\ Pending(f) = Pending(e) /\ Length(f) = Length(e)
    BY <2>5, <2>6, ShutIs
  <2>9. a = <<>> => r = <<>> BY <2>1, EmptySeq
  <2>10. ~e.shut BY <1>2, <2>3, <2>5
  <2>11. e.eof => a = <<>> /\ s \in ended[c] BY <2>3, <2>5
  <2>12. SideOK(f, r, s \in ended[c])
    <3>1. f.offset <= Len(f.bytes) BY <2>5, <2>8
    <3>2. f.shut => f.eof BY <2>8, <2>10
    <3>3. f.eof => e.eof BY <2>8
    <3>4. e.eof => f.shut /\ s \in ended[c] /\ Length(f) = 0 /\ r = <<>> BY <2>5, <2>8, <2>9, <2>11
    <3> QED BY <3>1, <3>2, <3>3, <3>4 DEF SideOK
  <2> QED BY <2>5, <2>7, <2>8, <2>12
<1>4. ASSUME NEW n \in 1..Length(d), Writes(c, s, n)
      PROVE  /\ dir'[c][s] \in Direction /\ arrived'[c][s] \in Seq(Nat) /\ given'[c][Other(s)] \in Seq(Nat)
             /\ SideOK(dir'[c][s], arrived'[c][s], s \in ended[c])
             /\ (given'[c][Other(s)] \o Pending(dir'[c][s])) \o arrived'[c][s] = (g \o Pending(d)) \o a
  <2>1. PICK e : e = Sent(d, n) OBVIOUS
  <2>2. e \in Direction /\ e.offset <= Len(e.bytes) /\ e.shut = d.shut /\ e.eof = d.eof
    BY <2>1, SentSplits
  <2>3. PICK h : h = g \o SubSeq(Pending(d), 1, n) OBVIOUS
  <2>4. h \in Seq(Nat) /\ (h \o Pending(e)) \o a = (g \o Pending(d)) \o a
    BY <1>2, <2>1, <2>3, SentKeeps
  <2>5. PICK f : f = ShutIfOver(e) OBVIOUS
  <2>6. dir'[c][s] = f /\ arrived'[c][s] = a /\ given'[c][Other(s)] = h
    BY <1>1, <1>4, <2>1, <2>3, <2>5 DEF Writes
  <2>7. /\ f \in Direction /\ f.bytes = e.bytes /\ f.offset = e.offset /\ f.eof = e.eof
        /\ f.shut => e.shut \/ e.eof
        /\ Pending(f) = Pending(e)
    BY <2>2, <2>5, ShutIs
  <2>8. ~d.eof
    <3>1. Length(d) \in Int BY DEF Length, Direction
    <3> QED BY <1>2, <1>4, <3>1
  <2>9. SideOK(f, a, s \in ended[c])
    <3>1. f.offset <= Len(f.bytes) BY <2>2, <2>7
    <3>2. ~f.eof /\ ~f.shut BY <1>2, <2>2, <2>7, <2>8
    <3> QED BY <3>1, <3>2 DEF SideOK
  <2> QED BY <2>4, <2>6, <2>7, <2>9
<1>5. ASSUME Rests(c, s)
      PROVE  /\ dir'[c][s] \in Direction /\ arrived'[c][s] \in Seq(Nat) /\ given'[c][Other(s)] \in Seq(Nat)
             /\ SideOK(dir'[c][s], arrived'[c][s], s \in ended[c])
             /\ (given'[c][Other(s)] \o Pending(dir'[c][s])) \o arrived'[c][s] = (g \o Pending(d)) \o a
  <2>1. ~Ends(d) BY <1>2 DEF Ends
  <2>2. dir'[c][s] = d /\ arrived'[c][s] = a /\ given'[c][Other(s)] = g
    BY <1>1, <1>5, <2>1 DEF Rests, ShutIfOver
  <2>3. SideOK(d, a, s \in ended[c]) BY <1>2 DEF SideOK
  <2> QED BY <2>2, <2>3
<1> QED BY <1>1, <1>3, <1>4, <1>5, TurnOnSide

(* A turn changes the bytes of its own connection.                         *)
LEMMA TurnFrame ==
  ASSUME ByteType, NEW c \in Conns, Turn(c)
  PROVE  \E D, A, G : /\ dir' = [dir EXCEPT ![c] = D] /\ D = [s \in Sides |-> D[s]]
                      /\ arrived' = [arrived EXCEPT ![c] = A] /\ A = [s \in Sides |-> A[s]]
                      /\ given' = [given EXCEPT ![c] = G] /\ G = [s \in Sides |-> G[s]]
<1> DEFINE readable == {x \in Sides : /\ WantsInput(dir[c][x])
                                      /\ arrived[c][x] # <<>> \/ x \in ended[c]}
           wanting == {x \in Sides : WantsOutput(dir[c][x])}
           room(x) == IF Len(arrived[c][x]) < Buffer THEN Len(arrived[c][x]) ELSE Buffer
           taken(x) == SubSeq(arrived[c][x], 1, room(x))
           moved(x, w, n) == IF x \in readable THEN Received(dir[c][x], taken(x))
                             ELSE IF x \in w THEN Sent(dir[c][x], n[x])
                             ELSE dir[c][x]
           after(x, w, n) == ShutIfOver(moved(x, w, n))
           left(x) == IF x \in readable
                        THEN SubSeq(arrived[c][x], Len(taken(x)) + 1, Len(arrived[c][x])) ELSE arrived[c][x]
           got(x, w, n) == IF Other(x) \in w
             THEN given[c][x] \o SubSeq(Pending(dir[c][Other(x)]), 1, n[Other(x)]) ELSE given[c][x]
<1>1. PICK w \in SUBSET wanting : \E n \in [w -> 1..Buffer] :
        /\ dir' = [dir EXCEPT ![c] = [x \in Sides |-> after(x, w, n)]]
        /\ arrived' = [arrived EXCEPT ![c] = [x \in Sides |-> left(x)]]
        /\ given' = [given EXCEPT ![c] = [x \in Sides |-> got(x, w, n)]]
  BY DEF Turn, ShutIfOver
<1> HIDE DEF after, left, got, wanting
<1>2. PICK n \in [w -> 1..Buffer] :
        /\ dir' = [dir EXCEPT ![c] = [x \in Sides |-> after(x, w, n)]]
        /\ arrived' = [arrived EXCEPT ![c] = [x \in Sides |-> left(x)]]
        /\ given' = [given EXCEPT ![c] = [x \in Sides |-> got(x, w, n)]]
  BY <1>1
<1>3. PICK D : D = [x \in Sides |-> after(x, w, n)] OBVIOUS
<1>4. PICK A : A = [x \in Sides |-> left(x)] OBVIOUS
<1>5. PICK G : G = [x \in Sides |-> got(x, w, n)] OBVIOUS
<1>6. D = [s \in Sides |-> D[s]] BY <1>3
<1>7. A = [s \in Sides |-> A[s]] BY <1>4
<1>8. G = [s \in Sides |-> G[s]] BY <1>5
<1>9. dir' = [dir EXCEPT ![c] = D] /\ arrived' = [arrived EXCEPT ![c] = A] /\ given' = [given EXCEPT ![c] = G]
  BY <1>2, <1>3, <1>4, <1>5
<1> QED BY <1>6, <1>7, <1>8, <1>9

LEMMA TurnKeepsStream ==
  ASSUME ByteType, StreamInv, NEW c \in Conns, Turn(c)
  PROVE  ByteType' /\ StreamInv'
<1>1. PICK D, A, G : /\ dir' = [dir EXCEPT ![c] = D] /\ D = [s \in Sides |-> D[s]]
                     /\ arrived' = [arrived EXCEPT ![c] = A] /\ A = [s \in Sides |-> A[s]]
                     /\ given' = [given EXCEPT ![c] = G] /\ G = [s \in Sides |-> G[s]]
  BY TurnFrame
<1>2. sent' = sent /\ ended' = ended BY DEF Turn
<1>3. dir'[c] = D /\ arrived'[c] = A /\ given'[c] = G BY <1>1 DEF ByteType
<1>4. \A x \in Conns \ {c} : dir'[x] = dir[x] /\ arrived'[x] = arrived[x] /\ given'[x] = given[x]
  BY <1>1 DEF ByteType
<1>5. ASSUME NEW s \in Sides PROVE D[s] \in Direction /\ A[s] \in Seq(Nat) /\ G[s] \in Seq(Nat)
  <2>1. Other(s) \in Sides /\ Other(Other(s)) = s BY SidesAre
  <2>2. dir'[c][s] \in Direction /\ arrived'[c][s] \in Seq(Nat) BY TurnKeepsSide
  <2>3. given'[c][Other(Other(s))] \in Seq(Nat) BY <2>1, TurnKeepsSide
  <2> QED BY <1>3, <2>1, <2>2, <2>3
<1>6. D \in [Sides -> Direction] /\ A \in [Sides -> Seq(Nat)] /\ G \in [Sides -> Seq(Nat)]
  BY <1>1, <1>5
<1>7. ByteType' BY <1>1, <1>2, <1>6 DEF ByteType
<1>8. ASSUME NEW x \in Conns, NEW s \in Sides
      PROVE  /\ SideOK(dir'[x][s], arrived'[x][s], s \in ended'[x])
             /\ (given'[x][Other(s)] \o Pending(dir'[x][s])) \o arrived'[x][s] = [i \in 1..sent'[x][s] |-> i]
  <2>1. (given[x][Other(s)] \o Pending(dir[x][s])) \o arrived[x][s] = [i \in 1..sent[x][s] |-> i]
    BY DEF StreamInv, StreamsIntact
  <2>2. CASE x = c BY <1>2, <2>1, <2>2, TurnKeepsSide
  <2>3. CASE x # c
    <3>1. SideOK(dir[x][s], arrived[x][s], s \in ended[x]) BY DEF StreamInv, EofInv, SideOK
    <3> QED BY <1>2, <1>4, <2>1, <2>3, <3>1
  <2> QED BY <2>2, <2>3
<1>9. EofInv' BY <1>8 DEF EofInv, SideOK
<1>10. StreamsIntact' BY <1>8 DEF StreamsIntact
<1> QED BY <1>7, <1>9, <1>10 DEF StreamInv

(* All that a peer has sent, and one more byte of it.                      *)
UpTo(n) == [i \in 1..n |-> i]

LEMMA OneMoreByte ==
  ASSUME NEW q \in Seq(Nat), NEW a \in Seq(Nat), NEW n \in Nat, q \o a = UpTo(n)
  PROVE  q \o Append(a, n + 1) = UpTo(n + 1)
<1>1. PICK l \in Nat, m \in Nat : l = Len(q) /\ m = Len(a) BY LenProperties
<1>2. PICK v \in Seq(Nat) : v = q \o a BY ConcatProperties
<1>3. Len(v) = l + m /\ \A i \in 1..(l + m) : v[i] = IF i <= l THEN q[i] ELSE a[i - l]
  BY <1>1, <1>2, ConcatProperties
<1>4. n = l + m /\ \A i \in 1..n : v[i] = i
  <2>1. Len([i \in 1..n |-> i]) = n OBVIOUS
  <2> QED BY <1>2, <1>3, <2>1 DEF UpTo
<1>5. PICK x \in Nat : x = n + 1 OBVIOUS
<1>6. PICK b \in Seq(Nat) : b = Append(a, x) BY <1>5, AppendProperties
<1>7. Len(b) = m + 1 /\ b[m + 1] = x /\ \A i \in 1..m : b[i] = a[i]
  BY <1>1, <1>5, <1>6, AppendProperties
<1>8. PICK k \in Nat : k = Len(b) BY <1>6, LenProperties
<1>9. PICK u \in Seq(Nat) : u = q \o b BY <1>6, ConcatProperties
<1>10. Len(u) = l + k /\ \A i \in 1..(l + k) : u[i] = IF i <= l THEN q[i] ELSE b[i - l]
  BY <1>1, <1>6, <1>8, <1>9, ConcatProperties
<1>11. l + k = x BY <1>4, <1>5, <1>7, <1>8
<1>12. ASSUME NEW i \in 1..x PROVE u[i] = i
  <2>1. u[i] = IF i <= l THEN q[i] ELSE b[i - l] BY <1>10, <1>11
  <2>2. CASE i = x
    <3>1. i - l = m + 1 /\ ~(i <= l) BY <1>4, <1>5, <2>2
    <3> QED BY <1>7, <2>1, <2>2, <3>1
  <2>3. CASE i # x
    <3>1. i \in 1..n BY <1>5, <2>3
    <3>2. v[i] = i BY <1>4, <3>1
    <3>3. v[i] = IF i <= l THEN q[i] ELSE a[i - l] BY <1>3, <1>4, <3>1
    <3>4. ~(i <= l) => i - l \in 1..m BY <1>4, <3>1
    <3> QED BY <1>7, <2>1, <3>2, <3>3, <3>4
  <2> QED BY <2>2, <2>3
<1>13. [i \in 1..x |-> i] \in Seq(Nat) /\ Len([i \in 1..x |-> i]) = x OBVIOUS
<1>14. Len(u) = x BY <1>10, <1>11
<1>15. u = [i \in 1..x |-> i] BY <1>12, <1>13, <1>14, SeqEqual
<1> QED BY <1>5, <1>6, <1>9, <1>15 DEF UpTo
LEMMA PeerSendsKeepsStream ==
  ASSUME ByteType, StreamInv, NEW c \in Conns, NEW s \in Sides, PeerSends(c, s)
  PROVE  ByteType' /\ StreamInv'
<1>1. /\ sent' = [sent EXCEPT ![c][s] = sent[c][s] + 1]
      /\ arrived' = [arrived EXCEPT ![c][s] = Append(arrived[c][s], sent[c][s] + 1)]
      /\ dir' = dir /\ ended' = ended /\ given' = given /\ s \notin ended[c]
  BY DEF PeerSends
<1>2. PICK n \in Nat, a \in Seq(Nat), m \in Nat : n = sent[c][s] /\ a = arrived[c][s] /\ m = n + 1
  BY DEF ByteType
<1>3. PICK b \in Seq(Nat) : b = Append(a, m) BY AppendProperties
<1>4. sent' = [sent EXCEPT ![c][s] = m] /\ arrived' = [arrived EXCEPT ![c][s] = b] BY <1>1, <1>2, <1>3
<1>5. ByteType' BY <1>1, <1>4 DEF ByteType
<1>6. sent'[c][s] = m /\ arrived'[c][s] = b BY <1>4 DEF ByteType
<1>7. \A x \in Conns, y \in Sides : ~(x = c /\ y = s) => sent'[x][y] = sent[x][y] /\ arrived'[x][y] = arrived[x][y]
  BY <1>4 DEF ByteType
<1>8. ~dir[c][s].eof BY <1>1 DEF StreamInv, EofInv
<1>9. EofInv'
  <2> SUFFICES ASSUME NEW x \in Conns, NEW y \in Sides
               PROVE  SideOK(dir[x][y], arrived'[x][y], y \in ended[x])
    BY <1>1 DEF EofInv, SideOK
  <2>1. SideOK(dir[x][y], arrived[x][y], y \in ended[x]) BY DEF StreamInv, EofInv, SideOK
  <2>2. CASE x = c /\ y = s BY <1>8, <2>1, <2>2 DEF SideOK
  <2>3. CASE ~(x = c /\ y = s) BY <1>7, <2>1, <2>3
  <2> QED BY <2>2, <2>3
<1>10. PICK g \in Seq(Nat), d \in Direction : g = given[c][Other(s)] /\ d = dir[c][s]
  BY SidesAre DEF ByteType
<1>11. PICK h \in Seq(Nat) : h = Pending(d)
  BY <1>10, PendingIs DEF StreamInv, EofInv
<1>12. PICK q \in Seq(Nat) : q = g \o h BY ConcatProperties
<1>13. q \o a = [i \in 1..n |-> i] BY <1>2, <1>10, <1>11, <1>12 DEF StreamInv, StreamsIntact
<1>14. q \o b = [i \in 1..m |-> i]
  <2>1. q \o a = UpTo(n) BY <1>13 DEF UpTo
  <2>2. q \o Append(a, n + 1) = UpTo(n + 1) BY <2>1, OneMoreByte
  <2>3. q \o b = UpTo(m) BY <1>2, <1>3, <2>2
  <2> QED BY <2>3 DEF UpTo
<1>15. StreamsIntact'
  <2> SUFFICES ASSUME NEW x \in Conns, NEW y \in Sides
               PROVE  (given[x][Other(y)] \o Pending(dir[x][y])) \o arrived'[x][y] = [i \in 1..sent'[x][y] |-> i]
    BY <1>1 DEF StreamsIntact
  <2>1. CASE x = c /\ y = s BY <1>6, <1>10, <1>11, <1>12, <1>14, <2>1
  <2>2. CASE ~(x = c /\ y = s)
    <3>1. (given[x][Other(y)] \o Pending(dir[x][y])) \o arrived[x][y] = [i \in 1..sent[x][y] |-> i]
      BY DEF StreamInv, StreamsIntact
    <3> QED BY <1>7, <2>2, <3>1
  <2> QED BY <2>1, <2>2
<1> QED BY <1>5, <1>9, <1>15 DEF StreamInv

(* A step that leaves the bytes alone, and may end a peer's output.        *)
LEMMA QuietKeepsStream ==
  ASSUME ByteType, StreamInv, UNCHANGED <<dir, sent, arrived, given>>,
         ended' \in [Conns -> SUBSET Sides], \A c \in Conns : ended[c] \subseteq ended'[c]
  PROVE  ByteType' /\ StreamInv'
<1>1. ByteType' BY DEF ByteType
<1>2. EofInv' BY DEF StreamInv, EofInv
<1>3. StreamsIntact' BY DEF StreamInv, StreamsIntact
<1> QED BY <1>1, <1>2, <1>3 DEF StreamInv

LEMMA StepKeepsStream ==
  ASSUME ByteType, StreamInv, [Next]_vars
  PROVE  ByteType' /\ StreamInv'
<1>1. ended \in [Conns -> SUBSET Sides] BY DEF ByteType
<1>2. CASE UNCHANGED vars BY <1>1, <1>2, QuietKeepsStream DEF vars, byteVars
<1>3. CASE Setup \/ PayloadStep
  <2>1. UNCHANGED byteVars
    BY <1>3 DEF Setup, BridgeFails, BridgeForks, InsideFails, InsideForks, PayloadStep, PayloadEnds
  <2> QED BY <1>1, <2>1, QuietKeepsStream DEF byteVars
<1>4. ASSUME NEW p \in Loops, LoopStep(p) \/ PollFails(p) PROVE ByteType' /\ StreamInv'
  <2>1. UNCHANGED byteVars
    BY <1>4 DEF LoopStep, PollFails, Poll, Receive, Connect, Accept, Send, KillPrincipal, Leave
  <2> QED BY <1>1, <2>1, QuietKeepsStream DEF byteVars
<1>5. ASSUME NEW c \in Conns, RelayStep(c) PROVE ByteType' /\ StreamInv'
  <2>1. CASE Turn(c) BY <2>1, TurnKeepsStream
  <2>2. CASE ~Turn(c)
    <3>1. UNCHANGED byteVars
      BY <1>5, <2>2 DEF RelayStep, AskParent, ArmRelay, KillRelay, LeaveRelay, EndRelay
    <3> QED BY <1>1, <3>1, QuietKeepsStream DEF byteVars
  <2> QED BY <2>1, <2>2
<1>6. ASSUME NEW c \in Conns, PeerStep(c) PROVE ByteType' /\ StreamInv'
  <2>1. CASE ClientOpens(c) \/ PeerResets(c)
    <3>1. UNCHANGED <<dir, sent, arrived, ended, given>> BY <2>1 DEF ClientOpens, PeerResets, byteVars
    <3> QED BY <1>1, <3>1, QuietKeepsStream
  <2>2. ASSUME NEW s \in Sides, PeerSends(c, s) PROVE ByteType' /\ StreamInv' BY <2>2, PeerSendsKeepsStream
  <2>3. ASSUME NEW s \in Sides, PeerEnds(c, s) PROVE ByteType' /\ StreamInv'
    <3>1. UNCHANGED <<dir, sent, arrived, given>> /\ ended' = [ended EXCEPT ![c] = @ \cup {s}]
      BY <2>3 DEF PeerEnds
    <3> QED BY <1>1, <3>1, QuietKeepsStream
  <2> QED BY <1>6, <2>1, <2>2, <2>3 DEF PeerStep
<1> QED BY <1>2, <1>3, <1>4, <1>5, <1>6 DEF Next

-----------------------------------------------------------------------------
(* The way of a connection.                                                *)

LEMMA TailOfDistinct ==
  ASSUME NEW q \in Seq(Conns), q # <<>>, Distinct(q)
  PROVE  /\ Head(q) \in Conns /\ Distinct(Tail(q))
         /\ \A c : Among(c, Tail(q)) => Among(c, q) /\ c # Head(q)
         /\ Among(Head(q), q)
<1>1. PICK t \in Seq(Conns) : t = Tail(q) BY HeadTailProperties
<1>2. PICK n \in Nat, m \in Nat : n = Len(q) /\ m = Len(t) BY LenProperties
<1>3. n = m + 1 /\ \A i \in 1..m : t[i] = q[i + 1] BY <1>1, <1>2, HeadTailProperties
<1>4. Head(q) \in Conns /\ Head(q) = q[1] BY HeadTailProperties
<1>5. \A i, j \in 1..n : q[i] = q[j] => i = j BY <1>2 DEF Distinct
<1>6. ASSUME NEW i \in 1..m, NEW j \in 1..m, t[i] = t[j] PROVE i = j
  <2>1. i + 1 \in 1..n /\ j + 1 \in 1..n BY <1>3
  <2>2. q[i + 1] = q[j + 1] BY <1>3, <1>6
  <2>3. i + 1 = j + 1 BY <1>5, <2>1, <2>2
  <2> QED BY <2>3
<1>7. Distinct(t) BY <1>2, <1>6 DEF Distinct
<1>8. ASSUME NEW c, NEW i \in 1..m, t[i] = c PROVE Among(c, q) /\ c # Head(q)
  <2>1. i + 1 \in 1..n /\ 1 \in 1..n /\ i + 1 # 1 BY <1>3
  <2>2. q[i + 1] = c BY <1>3, <1>8
  <2>3. Among(c, q) BY <1>2, <2>1, <2>2 DEF Among
  <2>4. q[i + 1] # q[1] BY <1>5, <2>1
  <2> QED BY <1>4, <2>2, <2>3, <2>4
<1>9. Among(Head(q), q)
  <2>1. 1 \in 1..n BY <1>3
  <2> QED BY <1>2, <1>4, <2>1 DEF Among
<1>10. \A c : Among(c, t) => Among(c, q) /\ c # Head(q) BY <1>2, <1>8 DEF Among
<1> QED BY <1>1, <1>4, <1>7, <1>9, <1>10

LEMMA AppendOfDistinct ==
  ASSUME NEW q \in Seq(Conns), NEW d \in Conns, Distinct(q), ~Among(d, q)
  PROVE  /\ Distinct(Append(q, d))
         /\ \A c : Among(c, Append(q, d)) => Among(c, q) \/ c = d
<1>1. PICK t \in Seq(Conns) : t = Append(q, d) BY AppendProperties
<1>2. PICK n \in Nat, m \in Nat : n = Len(q) /\ m = Len(t) BY LenProperties
<1>3. m = n + 1 /\ t[m] = d /\ \A i \in 1..n : t[i] = q[i] BY <1>1, <1>2, AppendProperties
<1>4. \A i \in 1..n : q[i] # d BY <1>2 DEF Among
<1>5. \A i, j \in 1..n : q[i] = q[j] => i = j BY <1>2 DEF Distinct
<1>6. \A i \in 1..m : i \in 1..n \/ i = m BY <1>3
<1>7. ASSUME NEW i \in 1..m, NEW j \in 1..m, t[i] = t[j] PROVE i = j
  BY <1>3, <1>4, <1>5, <1>6, <1>7
<1>8. Distinct(t) BY <1>2, <1>7 DEF Distinct
<1>9. ASSUME NEW c, NEW i \in 1..m, t[i] = c PROVE Among(c, q) \/ c = d
  BY <1>2, <1>3, <1>6, <1>9 DEF Among
<1>10. \A c : Among(c, t) => Among(c, q) \/ c = d BY <1>2, <1>9 DEF Among
<1> QED BY <1>1, <1>8, <1>10

LEMMA EmptyIsDistinct == Distinct(<<>>) /\ \A c : ~Among(c, <<>>)
BY EmptySeq DEF Distinct, Among

(* A connection arrives at one loop and is connected by the other.         *)
LEMMA Homes ==
  \A c \in Conns : /\ Parent(c) \in Loops /\ Peer(Parent(c)) \in Loops /\ Peer(Peer(Parent(c))) = Parent(c)
                   /\ \A p \in Loops : c \in Listens(p) => p = Peer(Parent(c))
BY BridgeAssumption DEF Parent, Peer, Loops, Listens, Conns

(* A step that brings no connection to a place.                            *)
LEMMA NobodyMoves ==
  ASSUME PassInv, fresh' \subseteq fresh,
         \A p \in Loops, c \in Conns, k \in Spots : In(p, c, k)' => In(p, c, k),
         \A c \in Conns : relay'[c] # "none" => relay[c] # "none"
  PROVE  SideInv' /\ OnceInv'
<1>1. SideInv' BY DEF PassInv, SideInv, Home, Parent, Peer
<1>2. \A c \in Conns, k \in Stages : At(c, k)' => At(c, k) BY DEF At
<1>3. OnceInv' BY <1>2 DEF PassInv, OnceInv
<1> QED BY <1>1, <1>3

(* A step that moves the connection d from the place j to k.               *)
LEMMA OneMoves ==
  ASSUME PassInv, NEW d \in Conns, NEW j \in Stages, NEW k \in Stages, At(d, j), fresh' \subseteq fresh,
         \A p \in Loops, c \in Conns \ {d}, l \in Spots : In(p, c, l)' => In(p, c, l),
         \A c \in Conns \ {d} : relay'[c] # "none" => relay[c] # "none",
         \A l \in Stages : At(d, l)' => l = k \/ (l # j /\ At(d, l)),
         \A p \in Loops, l \in Spots : In(p, d, l)' => p = Home(d, l)
  PROVE  SideInv' /\ OnceInv'
<1>1. SideInv'
  <2> SUFFICES ASSUME NEW p \in Loops, NEW c \in Conns, NEW l \in Spots, In(p, c, l)' PROVE p = Home(c, l)
    BY DEF SideInv, Home, Parent, Peer
  <2> QED BY DEF PassInv, SideInv
<1>2. \A c \in Conns \ {d}, l \in Stages : At(c, l)' => At(c, l) BY DEF At
<1>3. OnceInv'
  <2> SUFFICES ASSUME NEW c \in Conns, NEW l \in Stages, NEW m \in Stages, At(c, l)', At(c, m)' PROVE l = m
    BY DEF OnceInv
  <2>1. CASE c = d
    <3>1. \A x \in Stages : At(d, x)' => x = k BY DEF PassInv, OnceInv
    <3> QED BY <2>1, <3>1
  <2>2. CASE c # d BY <1>2, <2>2 DEF PassInv, OnceInv
  <2> QED BY <2>1, <2>2
<1> QED BY <1>1, <1>3

PlaceInv == PassType /\ PassInv /\ HeldInv

(* Steps that leave every connection where it is.                          *)
LEMMA NobodyTouched ==
  ASSUME PlaceInv, UNCHANGED <<hand, queue, backlog, fresh, held, relay>>,
         \A p \in Loops : loop'[p] = loop[p] \/ {loop[p], loop'[p]} \cap {"connect", "send"} = {}
  PROVE  PlaceInv'
<1>1. PassType' /\ HeldInv' BY DEF PlaceInv, PassType, HeldInv
<1>2. HandInv' /\ QueueInv' BY DEF PlaceInv, PassInv, HandInv, QueueInv
<1>3. \A p \in Loops, c \in Conns, k \in Spots : In(p, c, k)' => In(p, c, k) BY DEF In
<1>4. SideInv' /\ OnceInv' BY <1>3, NobodyMoves DEF PlaceInv
<1> QED BY <1>1, <1>2, <1>4 DEF PlaceInv, PassInv

(* A loop that ends loses its descriptors, its listener, and its queue     *)
(* with the last process that has its end of the control socket.           *)
LEMMA GoneKeepsPlaces ==
  ASSUME PlaceInv, LoopType, NEW p \in Loops, Gone(p), relay' = relay, fresh' = fresh
  PROVE  PlaceInv'
<1>1. /\ loop' = [loop EXCEPT ![p] = "gone"] /\ hand' = [hand EXCEPT ![p] = None]
      /\ held' = [held EXCEPT ![p] = {}] /\ backlog' = [backlog EXCEPT ![p] = {}]
  BY DEF Gone
<1>2. queue' = queue \/ queue' = [queue EXCEPT ![p] = <<>>] BY DEF Gone, LoopType
<1>3. \A q \in Loops : queue'[q] = queue[q] \/ queue'[q] = <<>> BY <1>2, QueueDropped
<1>4. loop \in [Loops -> Places] BY DEF LoopType
<1>5. p \notin Conns BY BridgeAssumption
<1>6. PassType' BY <1>1 DEF PlaceInv, PassType
<1>7. HandInv' BY <1>1, <1>4 DEF PlaceInv, PassType, PassInv, HandInv
<1>8. QueueInv' BY <1>3, EmptyIsDistinct DEF PlaceInv, PassInv, QueueInv
<1>9. HeldInv' BY <1>1, <1>5 DEF PlaceInv, PassType, HeldInv
<1>10. ASSUME NEW q \in Loops, NEW c \in Conns, NEW k \in Spots, In(q, c, k)' PROVE In(q, c, k)
  <2>1. Among(c, queue'[q]) => Among(c, queue[q]) BY <1>3, EmptyIsDistinct
  <2>2. c \in backlog'[q] => c \in backlog[q] BY <1>1 DEF PlaceInv, PassType
  <2>3. loop'[q] \in {"send", "connect"} => loop'[q] = loop[q] /\ hand'[q] = hand[q]
    BY <1>1, <1>4 DEF PlaceInv, PassType
  <2> QED BY <1>10, <2>1, <2>2, <2>3 DEF In
<1>11. SideInv' /\ OnceInv' BY <1>10, NobodyMoves DEF PlaceInv
<1> QED BY <1>6, <1>7, <1>8, <1>9, <1>11 DEF PlaceInv, PassInv

(* What a relay has open, from its fork to its end.                        *)
LEMMA RelayKeepsPlaces ==
  ASSUME PlaceInv, LoopType, NEW c \in Conns, AskParent(c) \/ ArmRelay(c) \/ KillRelay(c) \/ LeaveRelay(c)
  PROVE  PlaceInv'
<1>1. UNCHANGED <<loop, hand, backlog, fresh>>
  BY DEF AskParent, ArmRelay, KillRelay, LeaveRelay, EndRelay, loopVars, passVars
<1>2. \A q \in Loops : queue'[q] = queue[q] \/ queue'[q] = <<>>
  <2>1. PICK p \in Loops : p = Parent(c) BY Homes
  <2>2. queue' = queue \/ queue' = [queue EXCEPT ![p] = <<>>]
    BY <2>1 DEF AskParent, ArmRelay, DropQueue, KillRelay, LeaveRelay, EndRelay, passVars, LoopType
  <2> QED BY <2>2, QueueDropped
<1>3. PICK l \in {"asked", "running", "exited"}, h \in {{}, {c}} :
        /\ relay' = [relay EXCEPT ![c] = l] /\ held' = [held EXCEPT ![c] = h]
        /\ relay[c] \in {"forked", "asked", "running"}
        /\ h = IF l = "exited" THEN {} ELSE {c}
  <2>1. held[c] = {c} <=> relay[c] \in {"forked", "asked", "running"} BY DEF PlaceInv, HeldInv
  <2>2. CASE AskParent(c)
    <3>1. relay[c] = "forked" /\ relay' = [relay EXCEPT ![c] = "asked"] /\ held' = held
      BY <2>2 DEF AskParent, passVars
    <3>2. held' = [held EXCEPT ![c] = {c}] BY <2>1, <3>1 DEF PlaceInv, PassType
    <3> QED BY <3>1, <3>2
  <2>3. CASE ArmRelay(c)
    <3>1. relay[c] = "asked" /\ held[c] = {c} BY <2>1, <2>3 DEF ArmRelay
    <3>2. CASE ~Alive(Parent(c)) /\ c \notin stray
      <4>1. relay' = [relay EXCEPT ![c] = "exited"] /\ held' = [held EXCEPT ![c] = {}]
        BY <2>3, <3>2 DEF ArmRelay
      <4> QED BY <3>1, <4>1
    <3>3. CASE ~(~Alive(Parent(c)) /\ c \notin stray)
      <4>1. relay' = [relay EXCEPT ![c] = "running"] /\ held' = [held EXCEPT ![c] = held[c] \cap {c}]
        BY <2>3, <3>3 DEF ArmRelay
      <4>2. held[c] \cap {c} = {c} BY <3>1
      <4> QED BY <3>1, <4>1, <4>2
    <3> QED BY <3>2, <3>3
  <2>4. CASE KillRelay(c) \/ LeaveRelay(c) BY <2>4 DEF KillRelay, LeaveRelay, EndRelay
  <2> QED BY <2>2, <2>3, <2>4
<1>4. PassType' BY <1>1, <1>3 DEF PlaceInv, PassType, Lives
<1>5. HandInv' BY <1>1 DEF PlaceInv, PassInv, HandInv
<1>6. QueueInv' BY <1>2, EmptyIsDistinct DEF PlaceInv, PassInv, QueueInv
<1>7. HeldInv'
  <2>1. c \notin Loops BY BridgeAssumption
  <2>2. \A p \in Loops : held'[p] = held[p] BY <1>3, <2>1 DEF PlaceInv, PassType
  <2>3. \A d \in Conns \ {c} : held'[d] = held[d] /\ relay'[d] = relay[d]
    BY <1>3 DEF PlaceInv, PassType
  <2>4. held'[c] = h /\ relay'[c] = l BY <1>3 DEF PlaceInv, PassType
  <2>5. held'[c] = IF relay'[c] \in {"forked", "asked", "running"} THEN {c} ELSE {} BY <1>3, <2>4
  <2>6. \A p \in Loops : held'[p] = {hand'[p]} \ {None} BY <1>1, <2>2 DEF PlaceInv, HeldInv
  <2>7. \A d \in Conns : held'[d] = IF relay'[d] \in {"forked", "asked", "running"} THEN {d} ELSE {}
    BY <2>3, <2>5 DEF PlaceInv, HeldInv
  <2> QED BY <2>6, <2>7 DEF HeldInv
<1>8. ASSUME NEW q \in Loops, NEW d \in Conns, NEW k \in Spots, In(q, d, k)' PROVE In(q, d, k)
  <2>1. Among(d, queue'[q]) => Among(d, queue[q]) BY <1>2, EmptyIsDistinct
  <2> QED BY <1>1, <1>8, <2>1 DEF In
<1>9. \A d \in Conns : relay'[d] # "none" => relay[d] # "none" BY <1>3 DEF PlaceInv, PassType
<1>10. SideInv' /\ OnceInv' BY <1>1, <1>8, <1>9, NobodyMoves DEF PlaceInv
<1> QED BY <1>4, <1>5, <1>6, <1>7, <1>10 DEF PlaceInv, PassInv

(* A client opens a connection: it waits at the listener of its side.      *)
LEMMA OpenKeepsPlaces ==
  ASSUME PlaceInv, NEW c \in Conns, ClientOpens(c)
  PROVE  PlaceInv'
<1>1. PICK p \in Loops : c \in Listens(p) /\ backlog' = [backlog EXCEPT ![p] = backlog[p] \cup {c}]
  BY DEF ClientOpens
<1>2. UNCHANGED <<loop, hand, queue, held, relay>> /\ fresh' = fresh \ {c} /\ c \in fresh
  BY DEF ClientOpens, loopVars, lifeVars
<1>3. PassType' BY <1>1, <1>2 DEF PlaceInv, PassType
<1>4. HandInv' /\ QueueInv' /\ HeldInv' BY <1>2 DEF PlaceInv, PassInv, HandInv, QueueInv, HeldInv
<1>5. \A q \in Loops : \A d \in backlog'[q] : d \in backlog[q] \/ (d = c /\ q = p)
  BY <1>1 DEF PlaceInv, PassType
<1>6. \A q \in Loops, d \in Conns, l \in Spots : In(q, d, l)' => In(q, d, l) \/ (d = c /\ q = p /\ l = "backlog")
  BY <1>2, <1>5 DEF In
<1>7. At(c, "fresh") BY <1>2 DEF At
<1>8. p = Home(c, "backlog") BY <1>1, Homes DEF Home
<1>9. \A l \in Stages : At(c, l)' => l = "backlog" \/ (l # "fresh" /\ At(c, l))
  BY <1>2, <1>6 DEF At, Spots
<1>10. \A q \in Loops, l \in Spots : In(q, c, l)' => q = Home(c, l)
  BY <1>6, <1>8 DEF PlaceInv, PassInv, SideInv
<1>11. "fresh" \in Stages /\ "backlog" \in Stages BY DEF Stages, Spots
<1>12. SideInv' /\ OnceInv' BY <1>2, <1>6, <1>7, <1>9, <1>10, <1>11, OneMoves DEF PlaceInv
<1> QED BY <1>3, <1>4, <1>12 DEF PlaceInv, PassInv

(* What the steps of a loop have in common: they change its own place and  *)
(* hand, and what it holds is what it has in hand.                         *)
LEMMA OwnHand ==
  ASSUME PlaceInv, LoopType, NEW p \in Loops, NEW x \in Places, NEW h \in Conns \cup {None},
         loop' = [loop EXCEPT ![p] = x], hand' = [hand EXCEPT ![p] = h], h # None <=> x \in {"connect", "send"}
  PROVE  /\ HandInv' /\ loop'[p] = x /\ hand'[p] = h /\ hand' \in [Loops -> Conns \cup {None}]
         /\ \A q \in Loops \ {p} : loop'[q] = loop[q] /\ hand'[q] = hand[q]
<1>1. loop \in [Loops -> Places] /\ hand \in [Loops -> Conns \cup {None}]
  BY DEF LoopType, PlaceInv, PassType
<1>2. loop'[p] = x /\ hand'[p] = h /\ hand' \in [Loops -> Conns \cup {None}]
  BY <1>1
<1>3. \A q \in Loops \ {p} : loop'[q] = loop[q] /\ hand'[q] = hand[q] BY <1>1
<1>4. HandInv' BY <1>2, <1>3 DEF PlaceInv, PassInv, HandInv
<1> QED BY <1>2, <1>3, <1>4

LEMMA OwnHeld ==
  ASSUME PlaceInv, NEW p \in Loops, relay' = relay, hand' = [hand EXCEPT ![p] = hand'[p]],
         held' = [held EXCEPT ![p] = {hand'[p]} \ {None}], hand'[p] \in Conns \cup {None}
  PROVE  HeldInv' /\ held' \in [Loops \cup Conns -> SUBSET Conns]
<1>1. hand \in [Loops -> Conns \cup {None}] /\ held \in [Loops \cup Conns -> SUBSET Conns]
  BY DEF PlaceInv, PassType
<1>2. p \notin Conns BY BridgeAssumption
<1>3. {hand'[p]} \ {None} \subseteq Conns OBVIOUS
<1>4. held' \in [Loops \cup Conns -> SUBSET Conns] BY <1>1, <1>3
<1>5. \A q \in Loops : held'[q] = {hand'[q]} \ {None}
  <2> SUFFICES ASSUME NEW q \in Loops PROVE held'[q] = {hand'[q]} \ {None} OBVIOUS
  <2>1. CASE q = p BY <1>1, <2>1
  <2>2. CASE q # p
    <3>1. held'[q] = held[q] /\ hand'[q] = hand[q] BY <1>1, <2>2
    <3> QED BY <3>1 DEF PlaceInv, HeldInv
  <2> QED BY <2>1, <2>2
<1>6. \A c \in Conns : held'[c] = held[c] BY <1>1, <1>2
<1> QED BY <1>4, <1>5, <1>6 DEF PlaceInv, HeldInv

LEMMA AcceptKeepsPlaces ==
  ASSUME PlaceInv, LoopType, NEW p \in Loops, Accept(p)
  PROVE  PlaceInv'
<1>1. loop[p] = "listen" /\ UNCHANGED <<queue, fresh, relay>> BY DEF Accept, lifeVars
<1>2. loop \in [Loops -> Places] BY DEF LoopType
<1>3. CASE "listener" \notin saw[p]
  <2>1. loop' = [loop EXCEPT ![p] = Reaped(p)] /\ UNCHANGED <<backlog, hand, held>> BY <1>3 DEF Accept
  <2>2. \A q \in Loops : loop'[q] = loop[q] \/ {loop[q], loop'[q]} \cap {"connect", "send"} = {}
    BY <1>1, <1>2, <2>1 DEF Reaped
  <2> QED BY <1>1, <2>1, <2>2, NobodyTouched
<1>4. CASE "listener" \in saw[p]
  <2>1. PICK c \in backlog[p] : /\ backlog' = [backlog EXCEPT ![p] = backlog[p] \ {c}]
                                /\ hand' = [hand EXCEPT ![p] = c]
                                /\ held' = [held EXCEPT ![p] = held[p] \cup {c}]
                                /\ loop' = [loop EXCEPT ![p] = "send"]
    BY <1>4 DEF Accept
  <2>2. c \in Conns /\ c # None BY <2>1, BridgeAssumption DEF PlaceInv, PassType
  <2>3. hand[p] = None BY <1>1 DEF PlaceInv, PassInv, HandInv
  <2>4. /\ HandInv' /\ loop'[p] = "send" /\ hand'[p] = c /\ hand' \in [Loops -> Conns \cup {None}]
        /\ \A q \in Loops \ {p} : loop'[q] = loop[q] /\ hand'[q] = hand[q]
    BY <2>1, <2>2, OwnHand DEF Places
  <2>5. HeldInv' /\ held' \in [Loops \cup Conns -> SUBSET Conns]
    <3>1. held[p] \cup {c} = {c} \ {None} BY <2>2, <2>3 DEF PlaceInv, HeldInv
    <3> QED BY <1>1, <2>1, <2>2, <2>4, <3>1, OwnHeld
  <2>6. PassType' BY <1>1, <2>1, <2>4, <2>5 DEF PlaceInv, PassType
  <2>7. QueueInv' BY <1>1 DEF PlaceInv, PassInv, QueueInv
  <2>8. c \notin backlog'[p] /\ \A q \in Loops : backlog'[q] \subseteq backlog[q]
    BY <2>1 DEF PlaceInv, PassType
  <2>9. \A q \in Loops, d \in Conns, l \in Spots : In(q, d, l)' => In(q, d, l) \/ (d = c /\ q = p /\ l = "send")
    BY <1>1, <2>4, <2>8 DEF In
  <2>10. In(p, c, "backlog") /\ "backlog" \in Spots /\ "send" \in Spots BY <2>1 DEF In, Spots
  <2>11. p = Home(c, "backlog") /\ p = Home(c, "send")
    BY <2>2, <2>10 DEF PlaceInv, PassInv, SideInv, Home
  <2>12. \A q \in Loops, l \in Spots : In(q, c, l)' => q = Home(c, l)
    BY <2>2, <2>9, <2>11 DEF PlaceInv, PassInv, SideInv
  <2>13. ~At(c, "backlog")'
    <3>1. \A q \in Loops : In(q, c, "backlog")' => q = p BY <2>10, <2>11, <2>12
    <3> QED BY <2>8, <3>1 DEF At, In
  <2>14. At(c, "backlog") BY <2>10 DEF At
  <2>15. \A l \in Stages : At(c, l)' => l = "send" \/ At(c, l) BY <1>1, <2>2, <2>9 DEF At
  <2>16. "backlog" \in Stages /\ "send" \in Stages BY DEF Stages, Spots
  <2>17. SideInv' /\ OnceInv'
    BY <1>1, <2>2, <2>9, <2>12, <2>13, <2>14, <2>15, <2>16, OneMoves DEF PlaceInv
  <2> QED BY <2>4, <2>5, <2>6, <2>7, <2>17 DEF PlaceInv, PassInv
<1> QED BY <1>3, <1>4

LEMMA SendKeepsPlaces ==
  ASSUME PlaceInv, LoopType, NEW p \in Loops, Send(p)
  PROVE  PlaceInv'
<1>1. loop[p] = "send" /\ UNCHANGED <<backlog, fresh, relay>> BY DEF Send, lifeVars
<1>2. PICK c \in Conns : c = hand[p] /\ c # None
  BY <1>1 DEF PlaceInv, PassType, PassInv, HandInv
<1>3. PICK x \in {"poll", "leave"} : loop' = [loop EXCEPT ![p] = x] BY DEF Send, Reaped
<1>4. hand' = [hand EXCEPT ![p] = None] /\ held' = [held EXCEPT ![p] = held[p] \ {c}] BY <1>2 DEF Send
<1>5. /\ HandInv' /\ loop'[p] = x /\ hand'[p] = None /\ hand' \in [Loops -> Conns \cup {None}]
      /\ \A q \in Loops \ {p} : loop'[q] = loop[q] /\ hand'[q] = hand[q]
  BY <1>3, <1>4, OwnHand DEF Places
<1>6. HeldInv' /\ held' \in [Loops \cup Conns -> SUBSET Conns]
  <2>1. held[p] \ {c} = {None} \ {None} BY <1>2 DEF PlaceInv, HeldInv
  <2> QED BY <1>1, <1>4, <1>5, <2>1, OwnHeld
<1>7. PassType' BY <1>1, <1>5, <1>6 DEF PlaceInv, PassType
<1>8. In(p, c, "send") /\ "queue" \in Spots /\ "send" \in Spots BY <1>1, <1>2 DEF In, Spots
<1>9. p = Home(c, "send") BY <1>8 DEF PlaceInv, PassInv, SideInv
<1>10. PICK r \in Loops : r = Peer(p) /\ r = Home(c, "queue")
  BY <1>9, Homes, LoopsAre DEF Home
<1>11. At(c, "send") /\ "send" \in Stages /\ "queue" \in Stages BY <1>8 DEF At, Stages
<1>12. /\ \A q \in Loops : Distinct(queue'[q])
       /\ \A q \in Loops, d \in Conns : Among(d, queue'[q]) => Among(d, queue[q]) \/ (d = c /\ q = r)
  <2>1. \A q \in Loops : Distinct(queue[q]) BY DEF PlaceInv, PassInv, QueueInv
  <2>2. CASE ~ControlOpen(r)
    <3>1. queue' = queue BY <1>10, <2>2 DEF Send
    <3> QED BY <2>1, <3>1
  <2>3. CASE ControlOpen(r)
    <3>1. PICK t : t = Append(queue[r], c) OBVIOUS
    <3>2. queue' = [queue EXCEPT ![r] = t] BY <1>2, <1>10, <2>3, <3>1 DEF Send
    <3>3. queue \in [Loops -> Seq(Conns)] BY DEF LoopType
    <3>4. queue'[r] = t /\ \A q \in Loops \ {r} : queue'[q] = queue[q] BY <3>2, <3>3
    <3>5. ~Among(c, queue[r])
      <4>1. ~At(c, "queue") BY <1>11 DEF PlaceInv, PassInv, OnceInv
      <4> QED BY <1>8, <4>1 DEF At, In
    <3>6. Distinct(t) /\ \A d : Among(d, t) => Among(d, queue[r]) \/ d = c
      BY <2>1, <3>1, <3>3, <3>5, AppendOfDistinct
    <3> QED BY <2>1, <3>4, <3>6
  <2> QED BY <2>2, <2>3
<1>13. QueueInv' BY <1>12 DEF QueueInv
<1>14. \A q \in Loops, d \in Conns, l \in Spots : In(q, d, l)' => In(q, d, l) \/ (d = c /\ q = r /\ l = "queue")
  BY <1>1, <1>5, <1>12 DEF In
<1>15. \A q \in Loops, l \in Spots : In(q, c, l)' => q = Home(c, l)
  BY <1>10, <1>14 DEF PlaceInv, PassInv, SideInv
<1>16. ~At(c, "send")'
  <2>1. \A q \in Loops : In(q, c, "send")' => q = p BY <1>8, <1>9, <1>15
  <2>2. ~In(p, c, "send")' BY <1>5 DEF In
  <2> QED BY <2>1, <2>2 DEF At
<1>17. \A l \in Stages : At(c, l)' => l = "queue" \/ At(c, l) BY <1>1, <1>14 DEF At
<1>18. SideInv' /\ OnceInv'
  BY <1>1, <1>11, <1>14, <1>15, <1>16, <1>17, OneMoves DEF PlaceInv
<1> QED BY <1>5, <1>6, <1>7, <1>13, <1>18 DEF PlaceInv, PassInv

LEMMA ReceiveKeepsPlaces ==
  ASSUME PlaceInv, LoopType, NEW p \in Loops, Receive(p)
  PROVE  PlaceInv'
<1>1. loop[p] = "control" /\ UNCHANGED <<backlog, fresh, relay>> BY DEF Receive, lifeVars
<1>2. loop \in [Loops -> Places] /\ queue \in [Loops -> Seq(Conns)] BY DEF LoopType
<1>3. CASE ~("control" \in saw[p] /\ queue[p] # <<>>)
  <2>1. loop' = [loop EXCEPT ![p] = "listen"] /\ UNCHANGED <<queue, hand, held>> BY <1>3 DEF Receive
  <2>2. \A q \in Loops : loop'[q] = loop[q] \/ {loop[q], loop'[q]} \cap {"connect", "send"} = {}
    BY <1>1, <1>2, <2>1
  <2> QED BY <1>1, <2>1, <2>2, NobodyTouched
<1>4. CASE "control" \in saw[p] /\ queue[p] # <<>>
  <2>1. PICK t, c : t = Tail(queue[p]) /\ c = Head(queue[p]) OBVIOUS
  <2>2. /\ queue' = [queue EXCEPT ![p] = t] /\ hand' = [hand EXCEPT ![p] = c]
        /\ held' = [held EXCEPT ![p] = held[p] \cup {c}] /\ loop' = [loop EXCEPT ![p] = "connect"]
    BY <1>4, <2>1 DEF Receive
  <2>3. \A q \in Loops : Distinct(queue[q]) BY DEF PlaceInv, PassInv, QueueInv
  <2>4. /\ c \in Conns /\ Distinct(t) /\ Among(c, queue[p])
        /\ \A d : Among(d, t) => Among(d, queue[p]) /\ d # c
    BY <1>2, <1>4, <2>1, <2>3, TailOfDistinct
  <2>5. c # None BY <2>4, BridgeAssumption
  <2>6. hand[p] = None BY <1>1 DEF PlaceInv, PassInv, HandInv
  <2>7. /\ HandInv' /\ loop'[p] = "connect" /\ hand'[p] = c /\ hand' \in [Loops -> Conns \cup {None}]
        /\ \A q \in Loops \ {p} : loop'[q] = loop[q] /\ hand'[q] = hand[q]
    BY <2>2, <2>4, <2>5, OwnHand DEF Places
  <2>8. HeldInv' /\ held' \in [Loops \cup Conns -> SUBSET Conns]
    <3>1. held[p] \cup {c} = {c} \ {None} BY <2>5, <2>6 DEF PlaceInv, HeldInv
    <3> QED BY <1>1, <2>2, <2>4, <2>7, <3>1, OwnHeld
  <2>9. PassType' BY <1>1, <2>7, <2>8 DEF PlaceInv, PassType
  <2>10. queue'[p] = t /\ \A q \in Loops \ {p} : queue'[q] = queue[q] BY <1>2, <2>2
  <2>11. QueueInv' BY <2>3, <2>4, <2>10 DEF QueueInv
  <2>12. \A q \in Loops, d \in Conns : Among(d, queue'[q]) => Among(d, queue[q]) BY <2>4, <2>10
  <2>13. \A q \in Loops, d \in Conns, l \in Spots : In(q, d, l)' => In(q, d, l) \/ (d = c /\ q = p /\ l = "connect")
    BY <1>1, <2>7, <2>12 DEF In
  <2>14. In(p, c, "queue") /\ "queue" \in Spots /\ "connect" \in Spots BY <2>4 DEF In, Spots
  <2>15. p = Home(c, "queue") /\ p = Home(c, "connect")
    BY <2>4, <2>14 DEF PlaceInv, PassInv, SideInv, Home
  <2>16. \A q \in Loops, l \in Spots : In(q, c, l)' => q = Home(c, l)
    BY <2>4, <2>13, <2>15 DEF PlaceInv, PassInv, SideInv
  <2>17. ~At(c, "queue")'
    <3>1. \A q \in Loops : In(q, c, "queue")' => q = p BY <2>14, <2>15, <2>16
    <3>2. ~In(p, c, "queue")' BY <2>4, <2>10 DEF In
    <3> QED BY <3>1, <3>2 DEF At
  <2>18. At(c, "queue") /\ "queue" \in Stages /\ "connect" \in Stages BY <2>14 DEF At, Stages
  <2>19. \A l \in Stages : At(c, l)' => l = "connect" \/ At(c, l) BY <1>1, <2>4, <2>13 DEF At
  <2>20. SideInv' /\ OnceInv'
    BY <1>1, <2>4, <2>13, <2>16, <2>17, <2>18, <2>19, OneMoves DEF PlaceInv
  <2> QED BY <2>7, <2>8, <2>9, <2>11, <2>20 DEF PlaceInv, PassInv
<1> QED BY <1>3, <1>4

LEMMA ConnectKeepsPlaces ==
  ASSUME PlaceInv, LoopType, NEW p \in Loops, Connect(p)
  PROVE  PlaceInv'
<1>1. loop[p] = "connect" /\ UNCHANGED <<queue, backlog, fresh>> BY DEF Connect
<1>2. PICK c \in Conns : c = hand[p] /\ c # None
  BY <1>1 DEF PlaceInv, PassType, PassInv, HandInv
<1>3. hand' = [hand EXCEPT ![p] = None] /\ loop' = [loop EXCEPT ![p] = "listen"] BY DEF Connect
<1>4. /\ HandInv' /\ loop'[p] = "listen" /\ hand'[p] = None /\ hand' \in [Loops -> Conns \cup {None}]
      /\ \A q \in Loops \ {p} : loop'[q] = loop[q] /\ hand'[q] = hand[q]
  BY <1>3, OwnHand DEF Places
<1>5. QueueInv' BY <1>1 DEF PlaceInv, PassInv, QueueInv
<1>6. \A q \in Loops, d \in Conns, l \in Spots : In(q, d, l)' => In(q, d, l) BY <1>1, <1>4 DEF In
<1>7. held[p] = {c} BY <1>2 DEF PlaceInv, HeldInv
<1>8. CASE held' = [held EXCEPT ![p] = held[p] \ {c}] /\ relay' = relay
  <2>1. HeldInv' /\ held' \in [Loops \cup Conns -> SUBSET Conns]
    <3>1. held[p] \ {c} = {None} \ {None} BY <1>7
    <3> QED BY <1>3, <1>4, <1>8, <3>1, OwnHeld
  <2>2. PassType' BY <1>1, <1>4, <1>8, <2>1 DEF PlaceInv, PassType
  <2>3. SideInv' /\ OnceInv' BY <1>1, <1>6, <1>8, NobodyMoves DEF PlaceInv
  <2> QED BY <1>4, <1>5, <2>1, <2>2, <2>3 DEF PlaceInv, PassInv
<1>9. CASE relay' = [relay EXCEPT ![c] = "forked"] /\ SpawnRelay(p, c)
  <2>1. p \notin Conns /\ c \notin Loops BY BridgeAssumption
  <2>2. held \in [Loops \cup Conns -> SUBSET Conns] /\ relay \in [Conns -> Lives] BY DEF PlaceInv, PassType
  <2>3. /\ held' \in [Loops \cup Conns -> SUBSET Conns] /\ held'[c] = {c} /\ held'[p] = {}
        /\ \A h \in (Loops \cup Conns) \ {p, c} : held'[h] = held[h]
    BY <1>7, <1>9, <2>1, <2>2 DEF SpawnRelay
  <2>4. /\ relay' \in [Conns -> Lives] /\ relay'[c] = "forked"
        /\ \A d \in Conns \ {c} : relay'[d] = relay[d]
    BY <1>9, <2>2 DEF Lives
  <2>5. PassType' BY <1>1, <1>4, <2>3, <2>4 DEF PlaceInv, PassType
  <2>6. HeldInv'
    <3>1. \A q \in Loops : held'[q] = {hand'[q]} \ {None}
      BY <1>4, <2>1, <2>3 DEF PlaceInv, HeldInv
    <3>2. \A d \in Conns : held'[d] = IF relay'[d] \in {"forked", "asked", "running"} THEN {d} ELSE {}
      BY <2>1, <2>3, <2>4 DEF PlaceInv, HeldInv
    <3> QED BY <3>1, <3>2 DEF HeldInv
  <2>7. In(p, c, "connect") /\ "connect" \in Spots BY <1>1, <1>2 DEF In, Spots
  <2>8. p = Home(c, "connect") BY <2>7 DEF PlaceInv, PassInv, SideInv
  <2>9. ~At(c, "connect")'
    <3>1. \A q \in Loops : In(q, c, "connect")' => q = p
      BY <1>6, <2>7, <2>8 DEF PlaceInv, PassInv, SideInv
    <3>2. ~In(p, c, "connect")' BY <1>4 DEF In
    <3> QED BY <3>1, <3>2 DEF At
  <2>10. At(c, "connect") /\ "connect" \in Stages /\ "relay" \in Stages BY <2>7 DEF At, Stages
  <2>11. \A l \in Stages : At(c, l)' => l = "relay" \/ At(c, l) BY <1>1, <1>6 DEF At
  <2>12. \A q \in Loops, l \in Spots : In(q, c, l)' => q = Home(c, l) BY <1>6 DEF PlaceInv, PassInv, SideInv
  <2>13. SideInv' /\ OnceInv'
    BY <1>1, <1>6, <2>4, <2>9, <2>10, <2>11, <2>12, OneMoves DEF PlaceInv
  <2> QED BY <1>4, <1>5, <2>5, <2>6, <2>13 DEF PlaceInv, PassInv
<1> QED BY <1>2, <1>8, <1>9 DEF Connect

LEMMA StepKeepsPlaces ==
  ASSUME PlaceInv, LoopType, EndInv, [Next]_vars
  PROVE  PlaceInv'
<1>1. loop \in [Loops -> Places] BY DEF LoopType
<1>2. CASE UNCHANGED vars
  <2>1. UNCHANGED <<loop, hand, queue, backlog, fresh, held, relay>>
    BY <1>2 DEF vars, loopVars, passVars, lifeVars
  <2> QED BY <2>1, NobodyTouched
<1>3. CASE Setup
  <2>1. CASE InsideFails BY <2>1, GoneKeepsPlaces, LoopsAre DEF InsideFails
  <2>2. CASE BridgeFails \/ BridgeForks \/ InsideForks
    <3>1. UNCHANGED <<hand, queue, backlog, fresh, held, relay>>
      BY <2>2 DEF BridgeFails, BridgeForks, InsideForks, passVars, lifeVars
    <3>2. \A p \in Loops : loop'[p] = loop[p] \/ {loop[p], loop'[p]} \cap {"connect", "send"} = {}
      <4>1. CASE BridgeFails \/ InsideForks BY <1>1, <4>1 DEF BridgeFails, InsideForks
      <4>2. CASE BridgeForks
        <5>1. loop["outside"] = "setup" /\ loop["inside"] = "unborn" BY <4>2 DEF BridgeForks, EndInv
        <5>2. loop'["inside"] = "setup" /\ loop'["outside"] = "poll" BY <4>2 DEF BridgeForks
        <5> QED BY <5>1, <5>2, LoopsAre
      <4> QED BY <2>2, <4>1, <4>2
    <3> QED BY <3>1, <3>2, NobodyTouched
  <2> QED BY <1>3, <2>1, <2>2 DEF Setup
<1>4. CASE PayloadStep
  <2>1. UNCHANGED <<loop, hand, queue, backlog, fresh, held, relay>>
    BY <1>4 DEF PayloadStep, PayloadEnds, loopVars, passVars, lifeVars
  <2> QED BY <2>1, NobodyTouched
<1>5. ASSUME NEW p \in Loops, LoopStep(p) \/ PollFails(p) PROVE PlaceInv'
  <2>1. CASE Poll(p) \/ PollFails(p)
    <3>1. UNCHANGED <<hand, queue, backlog, fresh, held, relay>>
      BY <2>1 DEF Poll, PollFails, passVars, lifeVars
    <3>2. \A q \in Loops : loop'[q] = loop[q] \/ {loop[q], loop'[q]} \cap {"connect", "send"} = {}
      BY <1>1, <2>1 DEF Poll, PollFails
    <3> QED BY <3>1, <3>2, NobodyTouched
  <2>2. CASE Receive(p) BY <2>2, ReceiveKeepsPlaces
  <2>3. CASE Connect(p) BY <2>3, ConnectKeepsPlaces
  <2>4. CASE Accept(p) BY <2>4, AcceptKeepsPlaces
  <2>5. CASE Send(p) BY <2>5, SendKeepsPlaces
  <2>6. CASE KillPrincipal(p)
    <3>1. relay' = relay /\ fresh' = fresh BY <2>6 DEF KillPrincipal
    <3>2. CASE Gone("inside") BY <3>1, <3>2, GoneKeepsPlaces, LoopsAre
    <3>3. CASE UNCHANGED <<loopVars, queue, backlog, held>> BY <3>1, <3>3, NobodyTouched DEF loopVars
    <3> QED BY <2>6, <3>2, <3>3 DEF KillPrincipal
  <2>7. CASE Leave(p) BY <2>7, GoneKeepsPlaces DEF Leave
  <2> QED BY <1>5, <2>1, <2>2, <2>3, <2>4, <2>5, <2>6, <2>7 DEF LoopStep
<1>6. ASSUME NEW c \in Conns, RelayStep(c) PROVE PlaceInv'
  <2>1. CASE Turn(c)
    <3>1. UNCHANGED <<loop, hand, queue, backlog, fresh, held, relay>>
      BY <2>1 DEF Turn, loopVars, passVars, lifeVars
    <3> QED BY <3>1, NobodyTouched
  <2>2. CASE ~Turn(c) BY <1>6, <2>2, RelayKeepsPlaces DEF RelayStep
  <2> QED BY <2>1, <2>2
<1>7. ASSUME NEW c \in Conns, PeerStep(c) PROVE PlaceInv'
  <2>1. CASE ClientOpens(c) BY <2>1, OpenKeepsPlaces
  <2>2. CASE ~ClientOpens(c)
    <3>1. UNCHANGED <<loop, hand, queue, backlog, fresh, held, relay>>
      BY <1>7, <2>2 DEF PeerStep, PeerResets, PeerSends, PeerEnds, loopVars, passVars, lifeVars
    <3> QED BY <3>1, NobodyTouched
  <2> QED BY <2>1, <2>2
<1> QED BY <1>2, <1>3, <1>4, <1>5, <1>6, <1>7 DEF Next

-----------------------------------------------------------------------------
LEMMA InitIsBridgeInv == Init => BridgeInv
<1> SUFFICES ASSUME Init PROVE BridgeInv OBVIOUS
<1>1. LoopType /\ \A p \in Loops : queue[p] = <<>>
  BY EmptySeq, LoopsAre DEF Init, LoopType, Places
<1>2. TurnInv
  <2>1. QueueCap \in Nat BY BridgeAssumption
  <2>2. \A p \in Loops : Len(queue[p]) <= QueueCap BY <1>1, <2>1
  <2>3. ~InTurn("outside") BY LoopsAre DEF Init, InTurn
  <2> QED BY <2>2, <2>3 DEF TurnInv
<1>3. PassType BY BridgeAssumption DEF Init, PassType, Lives
<1>4. HandInv /\ QueueInv
  <2>1. \A p \in Loops : hand[p] = None /\ loop[p] \in {"unborn", "setup"} BY DEF Init
  <2> QED BY <1>1, <2>1, EmptyIsDistinct DEF HandInv, QueueInv
<1>5. \A p \in Loops, c \in Conns, k \in Spots : ~In(p, c, k)
  <2>1. \A p \in Loops : backlog[p] = {} /\ loop[p] \in {"unborn", "setup"} BY DEF Init
  <2> QED BY <1>1, <2>1, EmptyIsDistinct DEF In
<1>6. SideInv BY <1>5 DEF SideInv
<1>7. OnceInv
  <2>1. \A c \in Conns, k \in Stages : At(c, k) => k = "fresh" BY <1>5 DEF At, Init
  <2> QED BY <2>1 DEF OnceInv
<1>8. HeldInv BY DEF Init, HeldInv
<1>9. EndInv BY DEF Init, EndInv, StatusIsThePayloads, Loops
<1>10. ASSUME NEW c \in Conns, NEW s \in Sides
       PROVE  /\ dir[c][s] = NewDirection /\ sent[c][s] = 0 /\ arrived[c][s] = <<>> /\ given[c][s] = <<>>
  BY <1>10 DEF Init
<1>11. NewDirection \in Direction /\ NewDirection.bytes = <<>> /\ NewDirection.offset = 0
       /\ ~NewDirection.eof /\ ~NewDirection.shut
  BY EmptySeq DEF NewDirection, Direction
<1>12. ByteType
  <2>1. <<>> \in Seq(Nat) BY EmptySeq
  <2>2. dir \in [Conns -> [Sides -> Direction]] BY <1>11 DEF Init
  <2>3. sent \in [Conns -> [Sides -> Nat]] BY DEF Init
  <2>4. arrived \in [Conns -> [Sides -> Seq(Nat)]] BY <2>1 DEF Init
  <2>5. given \in [Conns -> [Sides -> Seq(Nat)]] BY <2>1 DEF Init
  <2>6. ended \in [Conns -> SUBSET Sides] BY DEF Init
  <2> QED BY <2>2, <2>3, <2>4, <2>5, <2>6 DEF ByteType
<1>13. EofInv
  <2>1. 0 <= Len(<<>>) OBVIOUS
  <2> QED BY <1>10, <1>11, <2>1 DEF EofInv
<1>14. StreamsIntact
  <2>1. Pending(NewDirection) = <<>>
    <3>1. NewDirection.offset <= Len(NewDirection.bytes) BY <1>11
    <3>2. Length(NewDirection) = 0 BY <1>11 DEF Length
    <3> QED BY <1>11, <3>1, <3>2, PendingIs
  <2>2. (<<>> \o <<>>) \o <<>> = [i \in 1..0 |-> i]
    <3>1. <<>> \o <<>> = <<>> OBVIOUS
    <3>2. <<>> = [i \in 1..0 |-> i] OBVIOUS
    <3> QED BY <3>1, <3>2
  <2> QED BY <1>10, <2>1, <2>2, SidesAre DEF StreamsIntact
<1> QED BY <1>1, <1>2, <1>3, <1>4, <1>6, <1>7, <1>8, <1>9, <1>12, <1>13, <1>14
        DEF BridgeInv, LoopInv, PassInv, StreamInv

LEMMA NextKeepsBridgeInv == BridgeInv /\ [Next]_vars => BridgeInv'
<1> SUFFICES ASSUME BridgeInv, [Next]_vars PROVE BridgeInv' OBVIOUS
<1>1. LoopInv /\ LoopType /\ EndInv /\ PlaceInv /\ ByteType /\ StreamInv BY DEF BridgeInv, LoopInv, PlaceInv
<1>2. ByteType' /\ StreamInv' BY <1>1, StepKeepsStream
<1>3. PlaceInv' BY <1>1, StepKeepsPlaces
<1>4. \A p \in Loops : loop[p] = "send" => hand[p] \in Conns
  BY <1>1 DEF PlaceInv, PassType, PassInv, HandInv
<1>5. LoopInv' /\ EndInv'
  <2>1. CASE Setup BY <1>1, <2>1, SetupKeepsTurn, SetupKeepsEnd
  <2>2. CASE PayloadStep BY <1>1, <2>2, OtherStepKeepsTurn, PayloadKeepsEnd DEF PayloadStep
  <2>3. ASSUME NEW p \in Loops, LoopStep(p) \/ PollFails(p) PROVE LoopInv' /\ EndInv'
    BY <1>1, <1>4, <2>3, LoopStepKeepsTurn, LoopStepKeepsEnd
  <2>4. CASE UNCHANGED vars \/ \E c \in Conns : RelayStep(c) \/ PeerStep(c)
    BY <1>1, <2>4, OtherStepKeepsTurn, OtherStepKeepsEnd
  <2> QED BY <2>1, <2>2, <2>3, <2>4 DEF Next
<1> QED BY <1>2, <1>3, <1>5 DEF BridgeInv, PlaceInv

(* The invariant the results below rest on: the turns of the loops, the    *)
(* place of each connection and who has it open, how loops and payload     *)
(* end, and the bytes of each direction (network_bridge.c).                *)
THEOREM BridgeInvariant == Spec => []BridgeInv
<1>1. Init => BridgeInv BY InitIsBridgeInv
<1>2. BridgeInv /\ [Next]_vars => BridgeInv' BY NextKeepsBridgeInv
<1> QED BY <1>1, <1>2, PTL DEF Spec

(* The two loops never wait in sendmsg for each other, however many        *)
(* connections arrive at both and however few messages a control socket    *)
(* holds: run_inside and run_outside receive before they accept.           *)
THEOREM LoopsNotBothBlocked == Spec => []NotBothBlocked
<1>1. BridgeInv => NotBothBlocked
  <2> SUFFICES ASSUME BridgeInv, Blocked("inside"), Blocked("outside") PROVE FALSE BY DEF NotBothBlocked
  <2>1. Full("outside") /\ Full("inside") BY DEF Blocked, Peer
  <2>2. loop["inside"] = "send" /\ loop["outside"] = "send" BY DEF Blocked
  <2> QED BY <2>1, <2>2 DEF BridgeInv, LoopInv, TurnInv, InTurn, Drains
<1> QED BY <1>1, BridgeInvariant, PTL

(* What visjail_linux_bridge_run answers is how the payload ended, unless  *)
(* the bridge was not set up or the inside loop was killed; also when the  *)
(* payload's own code is one the bridge uses for either of these.          *)
THEOREM AnswerIsThePayloads == Spec => []StatusIsThePayloads
<1>1. BridgeInv => StatusIsThePayloads BY DEF BridgeInv, EndInv
<1> QED BY <1>1, BridgeInvariant, PTL

(* A connection on its way is open in one process, a running relay is the  *)
(* only one that has its connection, and nobody has that of a relay that   *)
(* exited (spawn_relay, close_except and the close after sendmsg).         *)
THEOREM LastHolder == Spec => []RelayIsTheLastHolder
<1>1. BridgeInv => RelayIsTheLastHolder
  <2> SUFFICES ASSUME BridgeInv, NEW c \in Conns
               PROVE  /\ relay[c] = "running" => Holders(c) = {c} /\ held[c] = {c}
                      /\ relay[c] = "exited" => Holders(c) = {}
                      /\ Cardinality(Holders(c) \ {c}) <= 1
    BY DEF RelayIsTheLastHolder
  <2>1. c # None /\ c \notin Loops BY BridgeAssumption
  <2>2. \A d \in Conns : c \in held[d] => d = c BY DEF BridgeInv, HeldInv
  <2>3. held[c] = IF relay[c] \in {"forked", "asked", "running"} THEN {c} ELSE {} BY DEF BridgeInv, HeldInv
  <2>4. ASSUME NEW p \in Loops, c \in held[p]
        PROVE  \E k \in {"send", "connect"} : In(p, c, k) /\ At(c, k) /\ p = Home(c, k)
    <3>1. hand[p] = c BY <2>4 DEF BridgeInv, HeldInv
    <3>2. loop[p] \in {"connect", "send"} BY <2>1, <3>1 DEF BridgeInv, PassInv, HandInv
    <3>3. PICK k \in {"send", "connect"} : k = loop[p] BY <3>2
    <3>4. In(p, c, k) /\ k \in Spots BY <3>1, <3>3 DEF In, Spots
    <3>5. At(c, k) BY <3>4 DEF At
    <3>6. p = Home(c, k) BY <3>4 DEF BridgeInv, PassInv, SideInv
    <3> QED BY <3>4, <3>5, <3>6
  <2>5. relay[c] # "none" => \A p \in Loops : c \notin held[p]
    <3>1. SUFFICES ASSUME relay[c] # "none", NEW p \in Loops, c \in held[p] PROVE FALSE OBVIOUS
    <3>2. At(c, "relay") BY <3>1 DEF At
    <3>3. PICK k \in {"send", "connect"} : At(c, k) BY <2>4, <3>1
    <3>4. "relay" \in Stages /\ k \in Stages BY DEF Stages, Spots
    <3> QED BY <3>2, <3>3, <3>4 DEF BridgeInv, PassInv, OnceInv
  <2>6. \A p, q \in Loops : c \in held[p] /\ c \in held[q] => p = q
    <3> SUFFICES ASSUME NEW p \in Loops, NEW q \in Loops, c \in held[p], c \in held[q] PROVE p = q OBVIOUS
    <3>1. PICK k \in {"send", "connect"} : At(c, k) /\ p = Home(c, k) BY <2>4
    <3>2. PICK l \in {"send", "connect"} : At(c, l) /\ q = Home(c, l) BY <2>4
    <3>3. k \in Stages /\ l \in Stages BY DEF Stages, Spots
    <3>4. k = l BY <3>1, <3>2, <3>3 DEF BridgeInv, PassInv, OnceInv
    <3> QED BY <3>1, <3>2, <3>4
  <2>7. Cardinality(Holders(c) \ {c}) <= 1
    <3>1. \A h \in Holders(c) \ {c} : h \in Loops /\ c \in held[h] BY <2>2 DEF Holders
    <3>2. CASE Holders(c) \ {c} = {} BY <3>2, FS_EmptySet
    <3>3. CASE Holders(c) \ {c} # {}
      <4>1. PICK h : h \in Holders(c) \ {c} BY <3>3
      <4>2. Holders(c) \ {c} = {h} BY <2>6, <3>1, <4>1
      <4>3. Cardinality({h}) = 1 BY FS_Singleton
      <4>4. Cardinality(Holders(c) \ {c}) = 1 BY <4>2, <4>3
      <4> QED BY <4>4
    <3> QED BY <3>2, <3>3
  <2>8. relay[c] = "running" => Holders(c) = {c} /\ held[c] = {c} BY <2>2, <2>3, <2>5 DEF Holders
  <2>9. relay[c] = "exited" => Holders(c) = {} BY <2>2, <2>3, <2>5 DEF Holders
  <2> QED BY <2>7, <2>8, <2>9
<1> QED BY <1>1, BridgeInvariant, PTL

(* Whatever partial reads and writes a relay makes, in whatever order the  *)
(* peers send, no byte of a stream is lost, repeated or moved              *)
(* (move_direction).                                                       *)
THEOREM StreamsKept == Spec => []StreamsIntact
<1>1. BridgeInv => StreamsIntact BY DEF BridgeInv, StreamInv
<1> QED BY <1>1, BridgeInvariant, PTL

(* A relay tells a peer of the end of the stream only after every byte,    *)
(* and is over only when both ends were told (move_direction, relay).      *)
THEOREM EndsHonest == Spec => []EndsAreHonest
<1>1. BridgeInv => EndsAreHonest
  <2> SUFFICES ASSUME BridgeInv, NEW c \in Conns
               PROVE  /\ \A s \in Sides : dir[c][s].shut => s \in ended[c] /\ Len(given[c][Other(s)]) = sent[c][s]
                      /\ (\A s \in Sides : Finished(dir[c][s])) => \A s \in Sides : dir[c][s].shut
    BY DEF EndsAreHonest
  <2>1. ASSUME NEW s \in Sides, dir[c][s].shut PROVE s \in ended[c] /\ Len(given[c][Other(s)]) = sent[c][s]
    <3>1. PICK d \in Direction, g \in Seq(Nat), n \in Nat :
            d = dir[c][s] /\ g = given[c][Other(s)] /\ n = sent[c][s]
      BY SidesAre DEF BridgeInv, ByteType
    <3>2. d.eof /\ d.offset <= Len(d.bytes) BY <2>1, <3>1 DEF BridgeInv, StreamInv, EofInv
    <3>3. s \in ended[c] /\ Length(d) = 0 /\ arrived[c][s] = <<>>
      BY <3>1, <3>2 DEF BridgeInv, StreamInv, EofInv
    <3>4. Pending(d) = <<>> BY <3>2, <3>3, PendingIs
    <3>5. (g \o <<>>) \o <<>> = [i \in 1..n |-> i]
      BY <3>1, <3>3, <3>4 DEF BridgeInv, StreamInv, StreamsIntact
    <3>6. g \o <<>> = g BY ConcatEmptySeq
    <3>7. g = [i \in 1..n |-> i] BY <3>5, <3>6
    <3>8. Len(g) = n BY <3>7
    <3> QED BY <3>1, <3>3, <3>8
  <2>2. \A s \in Sides : Finished(dir[c][s]) => dir[c][s].shut
    BY DEF Finished, BridgeInv, StreamInv, EofInv
  <2> QED BY <2>1, <2>2
<1> QED BY <1>1, BridgeInvariant, PTL
=============================================================================
