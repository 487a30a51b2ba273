------------------------------- MODULE Gather -------------------------------
(***************************************************************************)
(* What `_vis_host.par` promises, whoever runs the thunks: a gather of a   *)
(* caller is open from the call to its answer; at most Quota of its thunks *)
(* run at once; none starts once the gather is stopped; it answers only    *)
(* when none runs, and unless it was stopped only when each one has run;   *)
(* and the answer is the first interrupt, or the host's, or the first      *)
(* failure by position, or all the values.                                 *)
(***************************************************************************)
EXTENDS Integers, FiniteSets

CONSTANTS Callers, Count, Quota, None

Positions == 1..Count

VARIABLES
  open,        \* callers with an open gather
  status,      \* each thunk of each gather
  stopped,     \* the gather starts nothing more
  interrupted, \* the host stopped it
  answer       \* the last answer of each caller

gatherVars == <<open, status, stopped, interrupted, answer>>

Fresh == [i \in Positions |-> "waiting"]
With(c, s) == {i \in Positions : status[c][i] = s}

Init ==
  /\ open = {}
  /\ status = [c \in Callers |-> Fresh]
  /\ stopped = [c \in Callers |-> FALSE]
  /\ interrupted = [c \in Callers |-> FALSE]
  /\ answer = [c \in Callers |-> None]

Open(c) ==
  /\ c \notin open
  /\ open' = open \cup {c}
  /\ answer' = [answer EXCEPT ![c] = None]
  /\ UNCHANGED <<status, stopped, interrupted>>

Start(c, i) ==
  /\ c \in open /\ ~stopped[c]
  /\ status[c][i] = "waiting"
  /\ Cardinality(With(c, "running")) < Quota
  /\ status' = [status EXCEPT ![c][i] = "running"]
  /\ UNCHANGED <<open, stopped, interrupted, answer>>

End(c, i, res) ==
  /\ status[c][i] = "running"
  /\ status' = [status EXCEPT ![c][i] = res]
  /\ stopped' = [stopped EXCEPT ![c] = @ \/ res = "stop"]
  /\ UNCHANGED <<open, interrupted, answer>>

Interrupt(c) ==
  /\ c \in open
  /\ stopped' = [stopped EXCEPT ![c] = TRUE]
  /\ interrupted' = [interrupted EXCEPT ![c] = TRUE]
  /\ UNCHANGED <<open, status, answer>>

FirstOf(S) == CHOOSE i \in S : \A j \in S : i <= j

Outcome(c) ==
  IF With(c, "stop") # {} THEN <<"raise", FirstOf(With(c, "stop"))>>
  ELSE IF interrupted[c] THEN <<"interrupt">>
  ELSE IF With(c, "error") # {} THEN <<"raise", FirstOf(With(c, "error"))>>
  ELSE <<"values">>

Close(c) ==
  /\ c \in open
  /\ With(c, "running") = {}
  /\ stopped[c] \/ With(c, "waiting") = {}
  /\ open' = open \ {c}
  /\ answer' = [answer EXCEPT ![c] = Outcome(c)]
  /\ status' = [status EXCEPT ![c] = Fresh]
  /\ stopped' = [stopped EXCEPT ![c] = FALSE]
  /\ interrupted' = [interrupted EXCEPT ![c] = FALSE]

Next ==
  \E c \in Callers :
    \/ Open(c) \/ Interrupt(c) \/ Close(c)
    \/ \E i \in Positions : Start(c, i) \/ \E res \in {"value", "error", "stop"} : End(c, i, res)

Spec == Init /\ [][Next]_gatherVars
=============================================================================
