------------------------------- MODULE Bridge -------------------------------
(* The network bridge of a jailed Linux process (network_bridge.c).  The   *)
(* outside loop runs in the host's network, the inside loop in a namespace *)
(* of its own with the payload.  Each accepts connections at its listener  *)
(* and passes the descriptor over the control socket; the other end        *)
(* connects to the target and forks a relay for the pair.  Connections in  *)
(* Outbound start at the payload, the others at the host.                  *)
EXTENDS Relay, FiniteSets, SequencesExt

CONSTANTS
  Outbound, Inbound,   \* connections, by the listener they arrive at
  Talkers,             \* connections whose peers send and end
  Targets,             \* connections whose target may answer
  Loads,               \* sets of connections: what the clients may open
  QueueCap,            \* messages a control socket holds before sendmsg blocks
  MaxSent,             \* [Sides -> Nat]: bytes a talking peer may send
  Codes,               \* exit codes of the payload; 125 and 137 are also answers
                       \* of the bridge's own
  None

Conns == Outbound \cup Inbound
Loops == {"inside", "outside"}

ASSUME BridgeAssumption ==
  /\ Outbound \cap Inbound = {} /\ Talkers \subseteq Conns
  /\ Targets \subseteq Conns /\ Loads \subseteq SUBSET Conns
  /\ None \notin Conns /\ Loops \cap Conns = {}
  /\ QueueCap \in Nat \ {0} /\ Buffer \in Nat \ {0}
  /\ MaxSent \in [Sides -> Nat] /\ Codes \subseteq 0..255

VARIABLES
  loop,      \* [Loops -> where its loop is]
  saw,       \* [Loops -> what its last poll reported]
  hand,      \* [Loops -> the connection it is handling, or None]
  queue,     \* [Loops -> connections sent to it over the control socket]
  backlog,   \* [Loops -> connections waiting at its listener]
  fresh,     \* connections a client may still open
  held,      \* [Loops \cup Conns -> connections a loop, or the relay of a
             \*   connection, has descriptors of]
  relay,     \* [Conns -> the life of its relay]
  stray,     \* relays that asked for their parent after it had ended
  dir,       \* [Conns -> [Sides -> direction]], named by the source
  sent,      \* [Conns -> [Sides -> bytes its peer sent]]
  arrived,   \* [Conns -> [Sides -> bytes at the relay's socket, not read]]
  ended,     \* [Conns -> the sides whose peer has shut down its output]
  reset,     \* connections with a socket in error
  given,     \* [Conns -> [Sides -> bytes sent on to the peer]]
  status,    \* [payload and inside -> how it ended, or None]
  answer     \* the code visjail_linux_bridge_run answers, or None

loopVars == <<loop, saw, hand>>
passVars == <<queue, backlog, fresh, held>>
lifeVars == <<relay, stray>>
byteVars == <<dir, sent, arrived, ended, reset, given>>
endVars == <<status, answer>>
vars == <<loopVars, passVars, lifeVars, byteVars, endVars>>

Peer(p) == IF p = "inside" THEN "outside" ELSE "inside"
Listens(p) == IF p = "inside" THEN Outbound ELSE Inbound
Parent(c) == IF c \in Outbound THEN "outside" ELSE "inside"
Principal(p) == IF p = "inside" THEN "payload" ELSE "inside"
Alive(p) == loop[p] \notin {"unborn", "gone"}
Serving(p) == loop[p] \notin {"unborn", "setup", "gone"}

(* Mutant: a copy of each end stays open in the process that made them. *)
ControlOpenKept(p) == loop[p] # "unborn"

(* A forked relay has its parent's end of the control socket until it      *)
(* closes what is not its own.                                             *)
ControlOpen(p) == Alive(p) \/ \E c \in Conns : Parent(c) = p /\ relay[c] \in {"forked", "asked"}

Exited(n) == [how |-> "exited", n |-> n]
Signaled == [how |-> "signaled", n |-> 9]

(* decode_status, for an exit code and for SIGKILL. *)
Decode(s) == IF s.how = "exited" THEN s.n ELSE 128 + s.n

Init ==
  /\ loop = [p \in Loops |-> IF p = "outside" THEN "setup" ELSE "unborn"]
  /\ saw = [p \in Loops |-> {}] /\ hand = [p \in Loops |-> None]
  /\ queue = [p \in Loops |-> <<>>] /\ backlog = [p \in Loops |-> {}]
  /\ fresh \in Loads /\ held = [h \in Loops \cup Conns |-> {}]
  /\ relay = [c \in Conns |-> "none"] /\ stray = {}
  /\ dir = [c \in Conns |-> [s \in Sides |-> NewDirection]]
  /\ sent = [c \in Conns |-> [s \in Sides |-> 0]]
  /\ arrived = [c \in Conns |-> [s \in Sides |-> <<>>]]
  /\ ended = [c \in Conns |-> {}] /\ reset = {}
  /\ given = [c \in Conns |-> [s \in Sides |-> <<>>]]
  /\ status = [x \in {"payload", "inside"} |-> None] /\ answer = None

(* The end of a loop: its descriptors and its listener close, and what is  *)
(* queued for it is dropped with the last holder of its control socket.    *)
Gone(p) ==
  /\ loop' = [loop EXCEPT ![p] = "gone"]
  /\ saw' = [saw EXCEPT ![p] = {}] /\ hand' = [hand EXCEPT ![p] = None]
  /\ held' = [held EXCEPT ![p] = {}]
  /\ backlog' = [backlog EXCEPT ![p] = {}]
  /\ queue' = [queue EXCEPT ![p] = IF ControlOpen(p)' THEN @ ELSE <<>>]

-----------------------------------------------------------------------------
(* Setting up: the control socket and the inbound listener, the fork of    *)
(* the inside loop, its namespace and listener, the fork of the payload.   *)

BridgeFails ==
  /\ loop["outside"] = "setup"
  /\ loop' = [loop EXCEPT !["outside"] = "gone"] /\ answer' = 125
  /\ UNCHANGED <<saw, hand, passVars, lifeVars, byteVars, status>>

BridgeForks ==
  /\ loop["outside"] = "setup"
  /\ loop' = [inside |-> "setup", outside |-> "poll"]
  /\ UNCHANGED <<saw, hand, passVars, lifeVars, byteVars, endVars>>

InsideFails ==
  /\ loop["inside"] = "setup"
  /\ UNCHANGED <<relay, fresh>>
  /\ Gone("inside") /\ status' = [status EXCEPT !["inside"] = Exited(125)]
  /\ UNCHANGED <<stray, byteVars, answer>>

InsideForks ==
  /\ loop["inside"] = "setup"
  /\ loop' = [loop EXCEPT !["inside"] = "poll"]
  /\ UNCHANGED <<saw, hand, passVars, lifeVars, byteVars, endVars>>

PayloadEnds(s) ==
  /\ Serving("inside") /\ status["payload"] = None
  /\ status' = [status EXCEPT !["payload"] = s]
  /\ UNCHANGED <<loopVars, passVars, lifeVars, byteVars, answer>>

-----------------------------------------------------------------------------
(* One turn of a loop: poll, the control socket, the listener, the reaping. *)

(* poll reports the control socket when a message waits or its other end   *)
(* has closed, and returns with nothing after 100 ms.                      *)
Ready(p) ==
  (IF queue[p] # <<>> \/ ~ControlOpen(Peer(p)) THEN {"control"} ELSE {})
    \cup (IF backlog[p] # {} THEN {"listener"} ELSE {})

Poll(p) ==
  /\ loop[p] = "poll"
  /\ saw' = [saw EXCEPT ![p] = Ready(p)]
  /\ loop' = [loop EXCEPT ![p] = "control"]
  /\ UNCHANGED <<hand, passVars, lifeVars, byteVars, endVars>>

(* Mutant: the listener goes before the control socket. *)
ReceiveUnlessAccepting(p) ==
  /\ loop[p] = "control"
  /\ LET got == saw[p] = {"control"} /\ queue[p] # <<>>
         c == Head(queue[p])
     IN IF got
          THEN /\ queue' = [queue EXCEPT ![p] = Tail(@)]
               /\ hand' = [hand EXCEPT ![p] = c]
               /\ held' = [held EXCEPT ![p] = @ \cup {c}]
               /\ loop' = [loop EXCEPT ![p] = "connect"]
          ELSE /\ loop' = [loop EXCEPT ![p] = "listen"]
               /\ UNCHANGED <<queue, hand, held>>
  /\ UNCHANGED <<saw, backlog, fresh, lifeVars, byteVars, endVars>>

(* receive_descriptor, when poll reported the socket. *)
Receive(p) ==
  /\ loop[p] = "control"
  /\ LET got == "control" \in saw[p] /\ queue[p] # <<>>
         c == Head(queue[p])
     IN IF got
          THEN /\ queue' = [queue EXCEPT ![p] = Tail(@)]
               /\ hand' = [hand EXCEPT ![p] = c]
               /\ held' = [held EXCEPT ![p] = @ \cup {c}]
               /\ loop' = [loop EXCEPT ![p] = "connect"]
          ELSE /\ loop' = [loop EXCEPT ![p] = "listen"]
               /\ UNCHANGED <<queue, hand, held>>
  /\ UNCHANGED <<saw, backlog, fresh, lifeVars, byteVars, endVars>>

(* Mutant: the parent keeps the two descriptors the relay was forked for. *)
SpawnRelayOpen(p, c) == held' = [held EXCEPT ![c] = held[p]]

(* spawn_relay: the child has all its parent had, the parent closes the    *)
(* two descriptors.                                                        *)
SpawnRelay(p, c) == held' = [held EXCEPT ![c] = held[p], ![p] = @ \ {c}]

(* The connection to the target: made, or given up after the attempts; the *)
(* fork that follows may fail too.                                         *)
Connect(p) ==
  /\ loop[p] = "connect"
  /\ LET c == hand[p]
     IN \/ c \in Targets /\ relay' = [relay EXCEPT ![c] = "forked"] /\ SpawnRelay(p, c)
        \/ held' = [held EXCEPT ![p] = @ \ {c}] /\ UNCHANGED relay
  /\ hand' = [hand EXCEPT ![p] = None]
  /\ loop' = [loop EXCEPT ![p] = "listen"]
  /\ UNCHANGED <<saw, queue, backlog, fresh, stray, byteVars, endVars>>

(* reap_relays ends a turn: the principal's end ends the loop. *)
Reaped(p) == IF status[Principal(p)] = None THEN "poll" ELSE "leave"

Accept(p) ==
  /\ loop[p] = "listen"
  /\ \/ /\ "listener" \in saw[p]
        /\ \E c \in backlog[p] :
             /\ backlog' = [backlog EXCEPT ![p] = @ \ {c}]
             /\ hand' = [hand EXCEPT ![p] = c]
             /\ held' = [held EXCEPT ![p] = @ \cup {c}]
             /\ loop' = [loop EXCEPT ![p] = "send"]
     \/ /\ "listener" \notin saw[p]
        /\ loop' = [loop EXCEPT ![p] = Reaped(p)]
        /\ UNCHANGED <<backlog, hand, held>>
  /\ UNCHANGED <<saw, queue, fresh, lifeVars, byteVars, endVars>>

Full(p) == Len(queue[p]) >= QueueCap
Blocked(p) == loop[p] = "send" /\ Full(Peer(p)) /\ ControlOpen(Peer(p))

(* send_descriptor, which waits for room; it fails when the other end has  *)
(* closed.  The connection's own descriptor closes either way.             *)
Send(p) ==
  /\ loop[p] = "send" /\ ~Blocked(p)
  /\ LET c == hand[p] IN
       /\ queue' = IF ControlOpen(Peer(p)) THEN [queue EXCEPT ![Peer(p)] = Append(@, c)] ELSE queue
       /\ held' = [held EXCEPT ![p] = @ \ {c}]
  /\ hand' = [hand EXCEPT ![p] = None]
  /\ loop' = [loop EXCEPT ![p] = Reaped(p)]
  /\ UNCHANGED <<saw, backlog, fresh, lifeVars, byteVars, endVars>>

(* A poll that fails ends the loop; the principal is then killed and       *)
(* waited for.                                                             *)
PollFails(p) ==
  /\ loop[p] = "poll"
  /\ loop' = [loop EXCEPT ![p] = "kill"]
  /\ UNCHANGED <<saw, hand, passVars, lifeVars, byteVars, endVars>>

KillPrincipal(p) ==
  /\ loop[p] = "kill" /\ status[Principal(p)] = None
  /\ status' = [status EXCEPT ![Principal(p)] = Signaled]
  /\ UNCHANGED relay
  /\ \/ p = "inside" /\ UNCHANGED <<loopVars, queue, backlog, held>>
     \/ p = "outside" /\ Gone("inside")
  /\ UNCHANGED <<fresh, stray, byteVars, answer>>

(* Mutant: the inside loop answers that it ended well. *)
LeaveWell(p) ==
  /\ loop[p] = "leave" \/ (loop[p] = "kill" /\ status[Principal(p)] # None)
  /\ UNCHANGED relay
  /\ Gone(p)
  /\ \/ p = "inside" /\ status' = [status EXCEPT !["inside"] = Exited(0)] /\ UNCHANGED answer
     \/ p = "outside" /\ answer' = Decode(status["inside"]) /\ UNCHANGED status
  /\ UNCHANGED <<fresh, stray, byteVars>>

(* The loop closes its sockets and answers the decoded status. *)
Leave(p) ==
  /\ loop[p] = "leave" \/ (loop[p] = "kill" /\ status[Principal(p)] # None)
  /\ UNCHANGED relay
  /\ Gone(p)
  /\ \/ /\ p = "inside"
        /\ status' = [status EXCEPT !["inside"] = Exited(Decode(status["payload"]))]
        /\ UNCHANGED answer
     \/ p = "outside" /\ answer' = Decode(status["inside"]) /\ UNCHANGED status
  /\ UNCHANGED <<fresh, stray, byteVars>>

-----------------------------------------------------------------------------
(* The life of a relay.                                                    *)

(* getppid, the first thing the child does. *)
AskParent(c) ==
  /\ relay[c] = "forked"
  /\ relay' = [relay EXCEPT ![c] = "asked"]
  /\ stray' = IF Alive(Parent(c)) THEN stray ELSE stray \cup {c}
  /\ UNCHANGED <<loopVars, passVars, byteVars, endVars>>

(* The queue of a loop that is gone goes with the last relay that had its  *)
(* control socket.                                                         *)
DropQueue(p) == queue' = [queue EXCEPT ![p] = IF ControlOpen(p)' THEN @ ELSE <<>>]

(* PR_SET_PDEATHSIG and the second getppid; then close_except. *)
ArmRelay(c) ==
  /\ relay[c] = "asked"
  /\ LET orphaned == ~Alive(Parent(c)) /\ c \notin stray IN
       /\ relay' = [relay EXCEPT ![c] = IF orphaned THEN "exited" ELSE "running"]
       /\ held' = [held EXCEPT ![c] = IF orphaned THEN {} ELSE @ \cap {c}]
  /\ UNCHANGED loop /\ DropQueue(Parent(c))
  /\ UNCHANGED <<saw, hand, backlog, fresh, stray, byteVars, endVars>>

EndRelay(c) ==
  /\ relay' = [relay EXCEPT ![c] = "exited"]
  /\ held' = [held EXCEPT ![c] = {}]
  /\ UNCHANGED <<loopVars, queue, backlog, fresh, stray, byteVars, endVars>>

(* SIGTERM at the death of the parent. *)
KillRelay(c) ==
  /\ relay[c] = "running" /\ ~Alive(Parent(c)) /\ c \notin stray
  /\ EndRelay(c)

(* A socket in error, or both directions over. *)
LeaveRelay(c) ==
  /\ relay[c] = "running"
  /\ c \in reset \/ \A s \in Sides : Finished(dir[c][s])
  /\ EndRelay(c)

(* One turn of relay: poll, then move_direction for each direction.  A     *)
(* direction reads or writes, never both: output is asked for only with    *)
(* bytes in the buffer.  Any socket with bytes to take may have no room.   *)
Turn(c) ==
  LET readable == {s \in Sides : /\ WantsInput(dir[c][s])
                                 /\ arrived[c][s] # <<>> \/ s \in ended[c]}
      wanting == {s \in Sides : WantsOutput(dir[c][s])}
      taken(s) == SubSeq(arrived[c][s], 1,
                         IF Len(arrived[c][s]) < Buffer THEN Len(arrived[c][s]) ELSE Buffer)
  IN /\ relay[c] = "running" /\ c \notin reset
     /\ \E writes \in SUBSET wanting :
        \E n \in [writes -> 1..Buffer] :
          /\ readable \cup writes # {}
          /\ \A s \in writes : n[s] <= Length(dir[c][s])
          /\ LET moved(s) == IF s \in readable THEN Received(dir[c][s], taken(s))
                             ELSE IF s \in writes THEN Sent(dir[c][s], n[s])
                             ELSE dir[c][s]
                 next(s) == IF Ends(moved(s)) THEN [moved(s) EXCEPT !.shut = TRUE] ELSE moved(s)
             IN dir' = [dir EXCEPT ![c] = [s \in Sides |-> next(s)]]
          /\ arrived' = [arrived EXCEPT ![c] = [s \in Sides |->
               IF s \in readable THEN SubSeq(@[s], Len(taken(s)) + 1, Len(@[s])) ELSE @[s]]]
          /\ given' = [given EXCEPT ![c] = [s \in Sides |->
               IF Other(s) \in writes
                 THEN @[s] \o SubSeq(Pending(dir[c][Other(s)]), 1, n[Other(s)]) ELSE @[s]]]
  /\ UNCHANGED <<loopVars, passVars, lifeVars, sent, ended, reset, endVars>>

-----------------------------------------------------------------------------
(* The peers: a client of a listener, and the target once it is connected. *)

Waiting(c) == \E p \in Loops : c \in backlog[p] \/ c = hand[p] \/ c \in ToSet(queue[p])
Connected(c, s) == relay[c] # "none" \/ (s = "client" /\ Waiting(c))

ClientOpens(c) ==
  /\ c \in fresh
  /\ \E p \in Loops : /\ c \in Listens(p) /\ Serving(p)
                      /\ backlog' = [backlog EXCEPT ![p] = @ \cup {c}]
  /\ fresh' = fresh \ {c}
  /\ UNCHANGED <<loopVars, queue, held, lifeVars, byteVars, endVars>>

PeerSends(c, s) ==
  /\ Connected(c, s) /\ c \in Talkers /\ s \notin ended[c] /\ c \notin reset
  /\ sent[c][s] < MaxSent[s]
  /\ sent' = [sent EXCEPT ![c][s] = @ + 1]
  /\ arrived' = [arrived EXCEPT ![c][s] = Append(@, sent[c][s] + 1)]
  /\ UNCHANGED <<loopVars, passVars, lifeVars, dir, ended, reset, given, endVars>>

PeerEnds(c, s) ==
  /\ Connected(c, s) /\ c \in Talkers /\ s \notin ended[c] /\ c \notin reset
  /\ ended' = [ended EXCEPT ![c] = @ \cup {s}]
  /\ UNCHANGED <<loopVars, passVars, lifeVars, dir, sent, arrived, reset, given, endVars>>

PeerResets(c) ==
  /\ relay[c] = "running" /\ c \in Talkers /\ c \notin reset
  /\ reset' = reset \cup {c}
  /\ UNCHANGED <<loopVars, passVars, lifeVars, dir, sent, arrived, ended, given, endVars>>

-----------------------------------------------------------------------------
LoopStep(p) ==
  \/ Poll(p) \/ Receive(p) \/ Connect(p) \/ Accept(p) \/ Send(p)
  \/ KillPrincipal(p) \/ Leave(p)
RelayStep(c) == AskParent(c) \/ ArmRelay(c) \/ KillRelay(c) \/ LeaveRelay(c) \/ Turn(c)
PeerStep(c) == ClientOpens(c) \/ PeerResets(c) \/ \E s \in Sides : PeerSends(c, s) \/ PeerEnds(c, s)
Setup == BridgeFails \/ BridgeForks \/ InsideFails \/ InsideForks
PayloadStep == PayloadEnds(Signaled) \/ \E n \in Codes : PayloadEnds(Exited(n))

Next ==
  \/ Setup \/ PayloadStep
  \/ \E p \in Loops : LoopStep(p) \/ PollFails(p)
  \/ \E c \in Conns : RelayStep(c) \/ PeerStep(c)

Spec == Init /\ [][Next]_vars

(* The loops are processes the kernel schedules, and so is a forked relay: *)
(* nothing it does before close_except waits for anybody.  No peer has to  *)
(* send or to end, no running relay to move and the payload need not end.  *)
Fairness ==
  /\ WF_vars(Setup)
  /\ \A p \in Loops : WF_vars(LoopStep(p))
  /\ \A c \in Conns : WF_vars(AskParent(c) \/ ArmRelay(c))

FairSpec == Spec /\ Fairness

-----------------------------------------------------------------------------
(* What a peer sent is, at any moment and whatever the order of partial    *)
(* reads and writes, what the other peer was given, what the relay holds   *)
(* and what waits at its socket: nothing is lost, repeated or reordered    *)
(* by move_direction.                                                      *)
StreamsIntact ==
  \A c \in Conns, s \in Sides :
    given[c][Other(s)] \o Pending(dir[c][s]) \o arrived[c][s] = [i \in 1..sent[c][s] |-> i]

(* A relay tells a peer that the stream is over only when the other peer   *)
(* ended it and every byte of it was given; and it leaves of itself, with  *)
(* no socket in error, only after it told both (move_direction, relay).    *)
EndsAreHonest ==
  \A c \in Conns :
    /\ \A s \in Sides :
         dir[c][s].shut => s \in ended[c] /\ Len(given[c][Other(s)]) = sent[c][s]
    /\ (\A s \in Sides : Finished(dir[c][s])) => \A s \in Sides : dir[c][s].shut

(* Once a relay runs, no loop and no other relay has a descriptor of its   *)
(* connection, and once it is over nobody has: the peers see the end of    *)
(* the stream.  (close in spawn_relay and after sendmsg, close_except.)    *)
Holders(c) == {h \in Loops \cup Conns : c \in held[h]}
RelayIsTheLastHolder ==
  \A c \in Conns :
    /\ relay[c] = "running" => Holders(c) = {c} /\ held[c] = {c}
    /\ relay[c] = "exited" => Holders(c) = {}
    /\ Cardinality(Holders(c) \ {c}) <= 1

(* Both loops write to one pair of sockets and both writes wait for room:  *)
(* they never wait for each other, because each loop takes a message       *)
(* before it writes one (run_inside, run_outside).                         *)
NotBothBlocked == ~(Blocked("inside") /\ Blocked("outside"))

(* What the bridge answers is the payload's code, or 128 and the signal,   *)
(* or 125 when it could not be set up; only a loop that had to kill what   *)
(* it waited for answers otherwise (decode_status, run_inside).            *)
StatusIsThePayloads ==
  answer # None =>
    \/ answer = 125 /\ status["payload"] = None
    \/ status["payload"] # None /\ answer = Decode(status["payload"])
    \/ answer = Decode(Signaled) /\ status["inside"] = Signaled

(* The payload's end ends the bridge, whatever waits at its sockets: a     *)
(* loop is never stuck in sendmsg with nobody left to read, also when a    *)
(* relay the other loop forked outlives it and has its control socket open *)
(* until close_except.                                                     *)
PayloadEndsBridge == status["payload"] # None ~> answer # None
=============================================================================
