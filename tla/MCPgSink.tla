--------------------------------- MODULE MCPgSink ---------------------------------
(***************************************************************************)
(* Values of the constants of PgSink for the model checker.                *)
(***************************************************************************)
EXTENDS PgSink

(* Two pages in a batch, so that it can be cut in the middle; a row that   *)
(* is in a page twice, and two that are in two batches in another order.   *)
MCBatches ==
  << << <<"r1", "r1">>, <<"r2">> >>, << <<"r2", "r3">>, <<"r1">> >>, << <<"r4">> >> >>
MCTwo     == << << <<"r1">>, <<"r2">> >>, << <<"r3">> >> >>

=============================================================================
