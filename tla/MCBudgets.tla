----------------------------- MODULE MCBudgets -----------------------------
(* Budgets for TLC: a host thread with nested calls, two workers, two guest   *)
(* threads and a cap of three or none, so that the cap meets the pool.        *)
EXTENDS Budgets, TLC

CONSTANTS h1, w1, w2, g1, g2, b1, b2

OneHost == {h1}
TwoWorkers == {w1, w2}
TwoGuests == {g1, g2}
TwoBudgets == {b1, b2}
SomeCaps == {-1, 3}
Sym == Permutations(TwoWorkers) \cup Permutations(TwoGuests)
=============================================================================
