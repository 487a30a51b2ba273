------------------------------- MODULE MCJail -------------------------------
(* Jail for TLC: a terminal and a piped process in one host without pipe2,  *)
(* which has every failure of one with it and one more.                     *)
EXTENDS Jail

CONSTANTS p1, p2, c1, c2

TwoProcs == {p1, p2}
OneConsole == {p1}
TwoClosers == {c1, c2}
=============================================================================
