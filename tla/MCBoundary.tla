----------------------------- MODULE MCBoundary -----------------------------
(* Boundary for TLC: threads and keys are model values.                    *)
EXTENDS Boundary, TLC

CONSTANTS t1, t2, k1, k2

TwoThreads == {t1, t2}
TwoKeys == {k1, k2}

SymCalls == Permutations(TwoThreads) \cup Permutations(TwoKeys)
=============================================================================
