----------------------------- MODULE MCWinJail -----------------------------
(* WinJail for TLC: a console that is read, a console of one workspace     *)
(* while the other workspace launches, a console two threads use, a piped  *)
(* process, a console and a piped process of one workspace, and the        *)
(* creation of two workspaces.                                             *)
EXTENDS WinJail, TLC

CONSTANTS x1, x2, p1, p2, p3, p4, t1, t2

TwoContexts == {x1, x2}
SixPlans == {[sealed |-> {x1}, new |-> {}, spawns |-> {p1}, threads |-> {t1}],
             [sealed |-> {x1, x2}, new |-> {}, spawns |-> {p3, p4}, threads |-> {}],
             [sealed |-> {x1}, new |-> {}, spawns |-> {p3}, threads |-> {t1, t2}],
             [sealed |-> {x1}, new |-> {}, spawns |-> {p2}, threads |-> {t1}],
             [sealed |-> {x1}, new |-> {}, spawns |-> {p2, p3}, threads |-> {}],
             [sealed |-> {}, new |-> {x1, x2}, spawns |-> {}, threads |-> {}]}
FourProcs == {p1, p2, p3, p4}
Homes == p1 :> x1 @@ p2 :> x1 @@ p3 :> x1 @@ p4 :> x2
TwoKinds == p1 :> {"pty"} @@ p2 :> {"in", "out"} @@ p3 :> {"pty"} @@ p4 :> {"in", "out"}
Bytes == p1 :> 2 @@ p2 :> 1 @@ p3 :> 0 @@ p4 :> 0
TwoThreads == {t1, t2}
=============================================================================
