----------------------------- MODULE MCLogRing -----------------------------
(* LogRing for TLC: threads and drainers are model values.                 *)
EXTENDS LogRing, TLC

CONSTANTS w1, w2, d1, d2

TwoWriters == {w1, w2}
TwoDrainers == {d1, d2}
SomeLevels == {Off, Warn, Debug}
=============================================================================
