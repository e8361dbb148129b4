------------------------------- MODULE ProbeLedger -------------------------------
(***************************************************************************)
(* What the daemon does with probes, without threads, maps and buffers: a  *)
(* probe is fired, decided once, as answered or as lost, and then handed   *)
(* to the sink, which stores what it is handed or loses it.  Nothing is    *)
(* taken back.  A probe that comes to share its key with another is        *)
(* struck off, and nothing is promised of it.                              *)
(***************************************************************************)
EXTENDS Naturals

VARIABLES
  fired,     (* how many probes have been fired; they are 0 .. fired - 1    *)
  answered,  (* the probes that count as answered                           *)
  lost,      (* the probes that count as lost                               *)
  handed,    (* the probes whose rows were given to the sink                *)
  stored,    (* the probes in the table                                     *)
  struck     (* the probes that share a key                                 *)

ledgerVars == <<fired, answered, lost, handed, stored, struck>>

Decided == answered \cup lost
Open    == (0 .. fired - 1) \ (Decided \cup struck)

Init ==
  /\ fired = 0
  /\ answered = {} /\ lost = {}
  /\ handed = {} /\ stored = {}
  /\ struck = {}

(* The new probe may take the key of an earlier one.                       *)
Fire ==
  /\ fired' = fired + 1
  /\ \E S \in SUBSET (0 .. fired) :
       /\ struck' = struck \cup S
       /\ answered' = answered \ S /\ lost' = lost \ S
       /\ handed' = handed \ S /\ stored' = stored \ S

Answer ==
  /\ \E i \in Open : answered' = answered \cup {i}
  /\ UNCHANGED <<fired, lost, handed, stored, struck>>

Lose ==
  /\ \E S \in SUBSET Open : lost' = lost \cup S
  /\ UNCHANGED <<fired, answered, handed, stored, struck>>

(* A batch of decided probes: all of it is stored, or none.                *)
Hand ==
  /\ \E S \in SUBSET Decided :
       /\ handed' = handed \cup S
       /\ stored' \in {stored, stored \cup S}
  /\ UNCHANGED <<fired, answered, lost, struck>>

Next == Fire \/ Lose \/ Answer \/ Hand

Spec == Init /\ [][Next]_ledgerVars
=============================================================================
