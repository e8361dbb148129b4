--------------------------------- MODULE MCXdpPath ---------------------------------
(***************************************************************************)
(* Frames for the model checker: SYN-ACKs on both families, and frames     *)
(* that differ from one in a field or two the program looks at.            *)
(***************************************************************************)
EXTENDS XdpPath

Sa4 == [type |-> "v4", ihl |-> 5, exts |-> << >>, upper |-> "tcp", len |-> 40,
        fragment |-> "no", dport |-> "probe", flags |-> "SA", from |-> "leaf",
        ack |-> 1]
Sa6 == [Sa4 EXCEPT !.type = "v6", !.ihl = 0, !.len = 60]

Ext(kind, n) == [kind |-> kind, hdrlen |-> n]
Chain(exts)  == [Sa6 EXCEPT !.exts = exts, !.len = UpperAt([Sa6 EXCEPT !.exts = exts]) + 20]
Hops(n)      == Chain([i \in 1 .. n |-> Ext("hopopts", 0)])

MCProbes == {[ver |-> v, from |-> "leaf", ack |-> 1] : v \in {"v4", "v6"}}

MCVersion4 ==
  {Sa4, [Sa4 EXCEPT !.type = "other"], [Sa4 EXCEPT !.upper = "other"],
   [Sa4 EXCEPT !.dport = "other"], [Sa4 EXCEPT !.len = 39],
   [Sa4 EXCEPT !.ihl = 4], [Sa4 EXCEPT !.ihl = 6],
   [Sa4 EXCEPT !.ihl = 6, !.len = 44], [Sa4 EXCEPT !.from = "other"],
   [Sa4 EXCEPT !.ack = 2], [Sa4 EXCEPT !.fragment = "first"],
   [Sa4 EXCEPT !.flags = "RA"]}

MCVersion6 ==
  {Sa6, [Sa6 EXCEPT !.upper = "other"], [Sa6 EXCEPT !.len = 59],
   [Sa6 EXCEPT !.dport = "other"],
   Chain(<<Ext("routing", 2), Ext("dstopts", 31)>>), Chain(<<Ext("dstopts", 32)>>),
   [Chain(<<Ext("routing", 1)>>) EXCEPT !.len = 75],
   [Chain(<<Ext("routing", 1)>>) EXCEPT !.upper = "other"],
   [Chain(<<Ext("fragment", 0)>>) EXCEPT !.fragment = "later"],
   Chain(<<Ext("other", 0)>>), Hops(8), Hops(9)}

MCFrames == MCVersion4 \cup MCVersion6

(* A later fragment has payload where its TCP header is looked for.        *)
MCFragments == {Sa4, [Sa4 EXCEPT !.fragment = "later"]}

=============================================================================
