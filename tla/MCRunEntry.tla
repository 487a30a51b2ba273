----------------------------- MODULE MCRunEntry -----------------------------
(* RunEntry for TLC: threads and sessions are model values.                *)
EXTENDS RunEntry, TLC

CONSTANTS t1, t2, s1

TwoThreads == {t1, t2}
OneSession == {s1}
AllKinds == {"run", "exec"}
OnlyRuns == {"run"}

SymRuns == Permutations(TwoThreads)
=============================================================================
