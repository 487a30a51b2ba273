----------------------------- MODULE MCSandbox -----------------------------
(* Sandbox for TLC.  A behaviour follows one plan, so that each part is    *)
(* exercised in depth and the parts that interact are together.            *)
EXTENDS Sandbox, TLC

CONSTANTS h1, h2, t1, t2, a1, a2

TwoHosts == {h1, h2}
TwoThreads == {t1, t2}
TwoArtifacts == {a1, a2}

Abs(parts) == [absolute |-> TRUE, parts |-> parts]
Name(n) == [is |-> "name", name |-> n]

(* /work and /data exist, /work/link leads to /data, /etc is outside. *)
SomeReal ==
  [p \in {<<>>, <<"work">>, <<"data">>, <<"etc">>, <<"work", "link">>} |->
     IF p = <<"work", "link">> THEN <<"data">> ELSE p]
WorkDir == <<"work">>
Cache == Abs(<<"cache">>)
Installation == <<Abs(<<"py">>)>>
DeviceNames == <<Abs(<<"null">>)>>

(* Reading and writing swapped between two policies, and the lift. *)
SomeRequests ==
  { [read |-> <<Abs(<<"work">>)>>, write |-> <<Abs(<<"data">>)>>],
    [read |-> <<Abs(<<"data">>)>>, write |-> <<Abs(<<"work">>), Abs(<<"work", "link">>)>>],
    [read |-> <<>>, write |-> <<>>] }

Ev(kind, mode, flags, args) == [kind |-> kind, mode |-> mode, flags |-> flags, args |-> args]
SomeEvents ==
  { Ev("network", "", "", <<>>), Ev("process", "", "", <<>>), Ev("native", "", "", <<>>), Ev("other", "", "", <<>>),
    Ev("open", "r", "", <<Name([absolute |-> FALSE, parts |-> <<"link", "new">>])>>),
    Ev("open", "", "w", <<Name(Abs(<<"work", "new">>))>>),
    Ev("read", "", "", <<Name(Abs(<<"etc">>))>>),
    Ev("write", "", "", <<[is |-> "other"], Name(Abs(<<"work", "a">>)), Name(Abs(<<"data", "b">>))>>),
    Ev("write", "", "", <<[is |-> "bad"]>>) }

SomePaths == {<<"f">>, <<"g">>, <<"d", "f">>, <<"d">>}
SomeData == {<<3>>}
TwoDevices == [p \in SomePaths |-> IF p = <<"g">> THEN 2 ELSE 1]
SomeDisk == [p \in SomePaths |-> IF p = <<"f">> THEN [kind |-> "file", data |-> <<1, 2>>, mode |-> "run"] ELSE NoEntry]

Plan(events, confines, ops, stacks, tampers) ==
  [events |-> events, confines |-> confines, ops |-> ops, stacks |-> stacks, tampers |-> tampers]
FourPlans == {Plan(1, 3, 0, 0, 0), Plan(2, 1, 0, 0, 0), Plan(0, 0, 4, 0, 0), Plan(0, 1, 0, 4, 1)}
=============================================================================
