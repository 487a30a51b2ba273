----------------------------- MODULE MCParPool -----------------------------
(* ParPool for TLC: the threads are model values.                          *)
EXTENDS ParPoolInv, TLC

CONSTANTS c1, c2, w1, w2

OneCaller == {c1}
TwoCallers == {c1, c2}
OneWorker == {w1}
TwoWorkers == {w1, w2}

OnlyValues == {"value"}

SymWorkers == Permutations(Workers)
=============================================================================
