------------------------------ MODULE MCBridge ------------------------------
(* Bridge for TLC: the connections are model values.  One load is a         *)
(* connection whose peers talk; the other has connections both ways, on     *)
(* control sockets that hold one message, with targets that answer on both  *)
(* sides: each loop forks relays while the other one passes descriptors.    *)
EXTENDS Bridge, TLC

CONSTANTS o1, o2, o3, i1, i2, i3

ThreeOut == {o1, o2, o3}
ThreeIn == {i1, i2, i3}
OneTalks == {o1}
SomeAnswer == {o1, i1, i3}
ThreeLoads == {{o1}, {o2, o3, i1, i2}, {i1, i2, i3}}
FewBytes == [s \in Sides |-> IF s = "client" THEN 2 ELSE 1]
=============================================================================
