----------------------------- MODULE MCImportSamples -----------------------------
(***************************************************************************)
(* Values of the constants of ImportSamples for the model checker.         *)
(***************************************************************************)
EXTENDS ImportSamples

Sample(k)   == [kind |-> "sample", key |-> k]
Other(kind) == [kind |-> kind, key |-> "none"]

MCFiles == {"early", "late", "torn", "full", "empty", "notes"}

MCName == [f \in MCFiles |-> IF f = "notes" THEN "mismatch" ELSE "sample"]

(* Two files share keys in opposite order; one takes more than one chunk;   *)
(* one has a bad round trip time, one a value PostgreSQL refuses.          *)
MCLines == [f \in MCFiles |->
  CASE f = "early" -> <<Sample("a"), Other("badjson"), Sample("c")>>
    [] f = "late"  -> <<Sample("c"), Sample("a"), Sample("a")>>
    [] f = "torn"  -> <<Sample("d"), Other("badrtt")>>
    [] f = "full"  -> <<Sample("d"), [kind |-> "refused", key |-> "e"]>>
    [] f = "empty" -> <<Other("blank")>>
    [] f = "notes" -> <<Sample("f")>>]

Tree(s)  == [kind |-> "tree", files |-> s]
Given(s) == [kind |-> "files", files |-> s]

MCCalls ==
  {[args |-> <<Tree(<<"notes", "early">>), Given(<<"late", "early">>)>>, dry |-> FALSE],
   [args |-> <<Given(<<"late", "early">>)>>, dry |-> FALSE],
   [args |-> <<Given(<<"torn", "notes", "full", "empty", "late">>)>>, dry |-> FALSE],
   [args |-> <<Tree(<<"notes">>)>>, dry |-> FALSE],
   [args |-> <<Given(<<"late", "torn">>)>>, dry |-> TRUE]}

=============================================================================
