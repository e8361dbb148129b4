------------------------------ MODULE SinkInterface ------------------------------
(***************************************************************************)
(* What sink.flush(rows) keeps to: the rows are stored all at once or not  *)
(* at all, and added to the sink's total only when they are stored.  The   *)
(* daemon cannot tell from a normal return whether the rows were stored    *)
(* and counted or dropped; and a call that drops its rows, or raises, may  *)
(* have stored them all the same, when only the answer of the commit was   *)
(* lost.                                                                   *)
(***************************************************************************)
EXTENDS FiniteSets

CONSTANTS
  Callers,   (* threads that call flush                                     *)
  Rows       (* the rows they may pass                                      *)

VARIABLES
  stored,    (* rows in the table                                           *)
  busy,      (* callers inside flush                                        *)
  request,   (* the rows of each caller's latest call                       *)
  result     (* how that call ended: "none" (not yet), "counted" or         *)
             (* "dropped" (it returned), or "raised"                        *)

sinkVars == <<stored, busy, request, result>>

Init ==
  /\ stored = {}
  /\ busy = {}
  /\ request = [t \in Callers |-> {}]
  /\ result = [t \in Callers |-> "none"]

Begin(t) ==
  /\ t \notin busy
  /\ busy' = busy \cup {t}
  /\ \E rows \in SUBSET Rows : request' = [request EXCEPT ![t] = rows]
  /\ result' = [result EXCEPT ![t] = "none"]
  /\ UNCHANGED stored

Store(t) ==
  /\ t \in busy
  /\ stored' = stored \cup request[t]
  /\ UNCHANGED <<busy, request, result>>

Return(t) ==
  /\ t \in busy
  /\ busy' = busy \ {t}
  /\ \E r \in {"counted", "dropped", "raised"} :
       /\ r = "counted" => request[t] \subseteq stored
       /\ result' = [result EXCEPT ![t] = r]
  /\ UNCHANGED <<stored, request>>

Next == \E t \in Callers : Begin(t) \/ Store(t) \/ Return(t)

Spec == Init /\ [][Next]_sinkVars
=============================================================================
