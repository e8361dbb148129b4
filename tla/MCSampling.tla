------------------------------- MODULE MCSampling -------------------------------
(***************************************************************************)
(* Values of the constants of Sampling for the model checker.              *)
(***************************************************************************)
EXTENDS Sampling

Addr(kind, addr) == [kind |-> kind, addr |-> addr]
Target(name, parts) == [equals |-> TRUE, name |-> name, parts |-> parts]

V4 == Addr("v4", "1.2.3.4")
V6 == Addr("v6", "2402::1")
Blank == Addr("empty", "")

Good(ts) == [targets |-> ts, intervalMs |-> 2, durationMs |-> 0,
             sport |-> "probe", root |-> TRUE, routes |-> Families]

(* Every --target that can be built from three of these parts.             *)
MCParts == {V4, V6, Blank, Addr("v4", "5.6.7.8"), Addr("bad", "x")}
MCTargets ==
  {Target("hk", parts) : parts \in UNION {[1 .. n -> MCParts] : n \in 1 .. 3}}
    \cup {Target("", <<V4>>), [Target("hk", <<V4>>) EXCEPT !.equals = FALSE]}

MCCommandLines ==
  LET parsing == {[Good(<<t>>) EXCEPT !.durationMs = 1] : t \in MCTargets}
      two     == {[Good(<<Target("hk", <<V6, V4>>), Target("sg", <<V4>>),
                         Target("sg", <<V4>>)>>) EXCEPT !.durationMs = 1]}
      timing  == {[Good(<<Target("hk", <<V4>>)>>) EXCEPT !.intervalMs = i,
                                                         !.durationMs = d] :
                    i \in {-1, 0, 2, 3}, d \in {0, 4}}
      refused == {[Good(<<Target("hk", <<V4>>)>>) EXCEPT !.root = FALSE],
                  [Good(<<Target("hk", <<V4>>)>>) EXCEPT !.sport = "other"],
                  [Good(<<Target("hk", <<V6, V4>>)>>) EXCEPT !.routes = {"v4"}]}
  IN  parsing \cup two \cup timing \cup refused

=============================================================================
