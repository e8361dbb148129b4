------------------------------ MODULE RunForeverProofs ------------------------------
(***************************************************************************)
(* Proofs about the launcher, for any number of starts.                    *)
(***************************************************************************)
EXTENDS RunForever, TLAPS

Phases == {"new", "boot", "bare", "serving", "leaving", "dead"}

(* What a call of the script has established when it has come to a label:  *)
(* after pkill the daemons that are left are leaving, after pkill -9 there *)
(* is none.                                                                *)
Cleared ==
  /\ pc \in {"start_xdp", "start_pg", "stop_check"} =>
       \A d \in Daemons : Alive(d) => daemon[d] = "leaving"
  /\ pc = "stop_xdp" => ~IsAlive
  /\ pc # "idle" => said = "nothing"
  /\ pc \in {"start", "start_xdp", "start_pg"} => launched < MaxStarts

LauncherInv == TypeOK /\ Cleared /\ OnlyLatestStays /\ StopLeavesNothing

-----------------------------------------------------------------------------
(* A daemon's own step leaves the other daemons alone, starts none, and    *)
(* ends in one of the phases of a launched daemon.                         *)
LEMMA DaemonStepFacts ==
  ASSUME TypeOK, NEW d \in Daemons, DaemonStep(d)
  PROVE  /\ daemon' \in [Daemons -> Phases]
         /\ \A e \in Daemons \ {d} : daemon'[e] = daemon[e]
         /\ Alive(d)
         /\ daemon'[d] \in Phases \ {"new"}
         /\ daemon[d] = "leaving" => daemon'[d] = "dead"
         /\ xdp' \in {xdp, d, None}
         /\ UNCHANGED <<launched, pidFile, pc, said, stuck, overlap>>
BY DEF DaemonStep, AttachXdp, InstallHandlers, LeaveLoop, Teardown, Crash,
       Become, TypeOK, Alive, Phases

(* The signals leave every daemon in a phase, and dead or new ones as they *)
(* are; SIGTERM leaves no daemon but the leaving, SIGKILL none.            *)
LEMMA SignalFacts ==
  ASSUME TypeOK
  PROVE  /\ Pkill => /\ daemon' \in [Daemons -> Phases]
                     /\ \A d \in Daemons : daemon'[d] \in {"new", "leaving", "dead"}
                     /\ \A d \in Daemons : daemon'[d] = "new" <=> daemon[d] = "new"
                     /\ \A d \in Daemons : daemon[d] = "dead" => daemon'[d] = "dead"
         /\ PkillHard => /\ daemon' \in [Daemons -> Phases]
                         /\ \A d \in Daemons : daemon'[d] \in {"new", "dead"}
                         /\ \A d \in Daemons : daemon'[d] = "new" <=> daemon[d] = "new"
                         /\ \A d \in Daemons : daemon[d] = "dead" => daemon'[d] = "dead"
                     /\ \A d \in Daemons : daemon[d] = "dead" => daemon'[d] = "dead"
<1>1. \A d \in Daemons : daemon[d] \in Phases
  BY DEF TypeOK, Phases
<1>2. \A d \in Daemons :
        /\ Termed(d) \in {"new", "leaving", "dead"}
        /\ Termed(d) = "new" <=> daemon[d] = "new"
        /\ daemon[d] = "dead" => Termed(d) = "dead"
  BY <1>1 DEF Termed, Phases
<1>3. \A d \in Daemons :
        /\ Killed(d) \in {"new", "dead"}
        /\ Killed(d) = "new" <=> daemon[d] = "new"
        /\ daemon[d] = "dead" => Killed(d) = "dead"
  BY <1>1 DEF Killed, Alive, Phases
<1>. QED
  BY <1>2, <1>3 DEF Pkill, PkillHard, Phases

(* Before the first call of the script nothing runs.                       *)
LEMMA InitLauncherInv == Init => LauncherInv
<1> SUFFICES ASSUME Init PROVE LauncherInv
  OBVIOUS
<1>1. \A d \in Daemons : daemon[d] = "new" /\ d > 0
  BY DEF Init, Daemons
<1>2. launched = 0 /\ 0 \in 0 .. MaxStarts
  BY LauncherAssumption DEF Init
<1>3. TypeOK
  BY <1>1, <1>2 DEF Init, TypeOK
<1>. QED
  BY <1>1, <1>3 DEF Init, LauncherInv, Cleared, OnlyLatestStays,
                    StopLeavesNothing, Alive

(* A step of a daemon keeps the invariant.                                 *)
LEMMA DaemonKeepsInv ==
  ASSUME LauncherInv, NEW d \in Daemons, DaemonStep(d)
  PROVE  LauncherInv'
<1> USE DEF LauncherInv
<1>0. /\ daemon' \in [Daemons -> Phases]
      /\ \A e \in Daemons \ {d} : daemon'[e] = daemon[e]
      /\ Alive(d)
      /\ daemon'[d] \in Phases \ {"new"}
      /\ daemon[d] = "leaving" => daemon'[d] = "dead"
      /\ xdp' \in {xdp, d, None}
      /\ UNCHANGED <<launched, pidFile, pc, said, stuck, overlap>>
  BY DaemonStepFacts
<1>1. TypeOK'
  BY <1>0 DEF TypeOK, Alive, Phases
<1>2. \A e \in Daemons : Alive(e)' => Alive(e)
  BY <1>0 DEF Alive
<1>3. \A e \in Daemons : daemon[e] = "leaving" /\ Alive(e)' => daemon'[e] = "leaving"
  BY <1>0 DEF Alive
<1>4. Cleared'
  BY <1>0, <1>2, <1>3 DEF Cleared, IsAlive
<1>5. OnlyLatestStays'
  BY <1>0, <1>2, <1>3 DEF OnlyLatestStays
<1>6. StopLeavesNothing'
  BY <1>0, <1>2 DEF StopLeavesNothing, IsAlive
<1>. QED
  BY <1>1, <1>4, <1>5, <1>6

(* A step of start keeps the invariant.                                    *)
LEMMA StartKeepsInv ==
  ASSUME LauncherInv,
         Start \/ StartKills \/ StartDetaches \/ StartFindsNoPg \/ Launch
           \/ StartChecks
  PROVE  LauncherInv'
<1> USE DEF LauncherInv, At, Goto, End
<1>1. CASE Start
  BY <1>1 DEF Start, TypeOK, Cleared, OnlyLatestStays, StopLeavesNothing, Alive,
              IsAlive
<1>2. CASE StartKills
  <2>1. CASE IsAlive
    <3>1. Pkill
      BY <1>2, <2>1 DEF StartKills
    <3>2. /\ daemon' \in [Daemons -> Phases]
          /\ \A d \in Daemons : daemon'[d] \in {"new", "leaving", "dead"}
          /\ \A d \in Daemons : daemon'[d] = "new" <=> daemon[d] = "new"
      BY <3>1, SignalFacts
    <3>3. /\ UNCHANGED <<launched, xdp, pidFile, said, stuck, overlap>> /\ pc' = "start_xdp"
          /\ said = "nothing" /\ launched < MaxStarts
      BY <1>2 DEF StartKills, Cleared
    <3>. QED
      BY <3>2, <3>3 DEF TypeOK, Cleared, OnlyLatestStays, StopLeavesNothing,
                        Alive, Phases
  <2>2. CASE ~IsAlive
    BY <1>2, <2>2 DEF StartKills, TypeOK, Cleared, OnlyLatestStays,
                      StopLeavesNothing, Alive, IsAlive
  <2>. QED
    BY <2>1, <2>2
<1>3. CASE StartDetaches
  BY <1>3 DEF StartDetaches, Detach, TypeOK, Cleared, OnlyLatestStays,
              StopLeavesNothing, Alive, IsAlive
<1>4. CASE StartFindsNoPg
  BY <1>4 DEF StartFindsNoPg, TypeOK, Cleared, OnlyLatestStays,
              StopLeavesNothing, Alive, IsAlive
<1>5. CASE Launch
  <2>1. /\ launched' = launched + 1 /\ launched' \in Daemons
        /\ pidFile' = launched' /\ pc' = "start_check" /\ said' = "nothing"
        /\ xdp' = xdp /\ stuck' = stuck /\ overlap' = overlap
    BY <1>5, LauncherAssumption DEF Launch, NewPid, TypeOK, Cleared, Daemons
  <2>2. /\ daemon' \in [Daemons -> Phases]
        /\ daemon'[launched'] = "boot"
        /\ \A d \in Daemons \ {launched'} : daemon'[d] = daemon[d]
    BY <1>5, <2>1 DEF Launch, TypeOK, Phases
  <2>3. \A d \in Daemons \ {launched'} : Alive(d) => daemon[d] = "leaving"
    BY <1>5 DEF Launch, Cleared
  <2>4. \A d \in Daemons : daemon'[d] = "new" <=> d > launched'
    BY <2>1, <2>2, LauncherAssumption DEF TypeOK, Daemons
  <2>5. TypeOK'
    BY <2>1, <2>2, <2>4 DEF TypeOK, Phases, Daemons
  <2>6. OnlyLatestStays'
    BY <2>2, <2>3 DEF OnlyLatestStays, Alive
  <2>. QED
    BY <2>1, <2>5, <2>6 DEF Cleared, StopLeavesNothing
<1>6. CASE StartChecks
  BY <1>6 DEF StartChecks, TypeOK, Cleared, OnlyLatestStays,
              StopLeavesNothing, Alive, IsAlive
<1>. QED
  BY <1>1, <1>2, <1>3, <1>4, <1>5, <1>6

(* A step of stop keeps the invariant.                                     *)
LEMMA StopKeepsInv ==
  ASSUME LauncherInv, Stop \/ StopTerms \/ StopKills \/ StopDetaches
  PROVE  LauncherInv'
<1> USE DEF LauncherInv, At, Goto, End
<1>1. CASE Stop
  BY <1>1 DEF Stop, TypeOK, Cleared, OnlyLatestStays, StopLeavesNothing, Alive,
              IsAlive
<1>2. CASE StopTerms
  <2>1. CASE IsAlive
    <3>1. Pkill
      BY <1>2, <2>1 DEF StopTerms
    <3>2. /\ daemon' \in [Daemons -> Phases]
          /\ \A d \in Daemons : daemon'[d] \in {"new", "leaving", "dead"}
          /\ \A d \in Daemons : daemon'[d] = "new" <=> daemon[d] = "new"
      BY <3>1, SignalFacts
    <3>3. /\ UNCHANGED <<launched, xdp, pidFile, said, stuck, overlap>> /\ pc' = "stop_check"
          /\ said = "nothing"
      BY <1>2, <2>1 DEF StopTerms, Cleared
    <3>. QED
      BY <3>2, <3>3 DEF TypeOK, Cleared, OnlyLatestStays, StopLeavesNothing,
                        Alive, Phases
  <2>2. CASE ~IsAlive
    BY <1>2, <2>2 DEF StopTerms, TypeOK, Cleared, OnlyLatestStays,
                      StopLeavesNothing, Alive, IsAlive
  <2>. QED
    BY <2>1, <2>2
<1>3. CASE StopKills
  <2>1. CASE IsAlive
    <3>1. PkillHard
      BY <1>3, <2>1 DEF StopKills
    <3>2. /\ daemon' \in [Daemons -> Phases]
          /\ \A d \in Daemons : daemon'[d] \in {"new", "dead"}
          /\ \A d \in Daemons : daemon'[d] = "new" <=> daemon[d] = "new"
      BY <3>1, SignalFacts
    <3>3. /\ UNCHANGED <<launched, xdp, pidFile, said, stuck, overlap>> /\ pc' = "stop_xdp"
          /\ said = "nothing"
      BY <1>3 DEF StopKills, Cleared
    <3>. QED
      BY <3>2, <3>3 DEF TypeOK, Cleared, OnlyLatestStays, StopLeavesNothing,
                        Alive, IsAlive, Phases
  <2>2. CASE ~IsAlive
    BY <1>3, <2>2 DEF StopKills, TypeOK, Cleared, OnlyLatestStays,
                      StopLeavesNothing, Alive, IsAlive
  <2>. QED
    BY <2>1, <2>2
<1>4. CASE StopDetaches
  BY <1>4 DEF StopDetaches, Detach, TypeOK, Cleared, OnlyLatestStays,
              StopLeavesNothing, Alive, IsAlive, None
<1>. QED
  BY <1>1, <1>2, <1>3, <1>4

(* LauncherInv is inductive.                                               *)
LEMMA NextLauncherInv == LauncherInv /\ [Next]_vars => LauncherInv'
<1> SUFFICES ASSUME LauncherInv, [Next]_vars PROVE LauncherInv'
  OBVIOUS
<1>1. CASE Start \/ Stop \/ Script
  BY <1>1, StartKeepsInv, StopKeepsInv DEF Script
<1>2. ASSUME NEW d \in Daemons, DaemonStep(d) PROVE LauncherInv'
  BY <1>2, DaemonKeepsInv
<1>3. CASE UNCHANGED vars
  BY <1>3 DEF vars, LauncherInv, TypeOK, Cleared, OnlyLatestStays,
              StopLeavesNothing, Alive, IsAlive
<1>. QED
  BY <1>1, <1>2, <1>3 DEF Next, Over

-----------------------------------------------------------------------------
(* Whatever the daemons were doing, a stop that has ended leaves no        *)
(* daemon, and no XDP program but one its own detaching failed to take     *)
(* away.  Start may have been called over a running daemon or not.         *)
THEOREM StopCleansUp == Spec => []StopLeavesNothing
<1>1. LauncherInv => StopLeavesNothing
  BY DEF LauncherInv
<1>. QED
  BY InitLauncherInv, NextLauncherInv, <1>1, PTL DEF Spec

(* At no time do two daemons stay: in every state, every daemon that is    *)
(* not on its way out is the latest one launched.                          *)
THEOREM LatestOnly == Spec => []OnlyLatestStays
<1>1. LauncherInv => OnlyLatestStays
  BY DEF LauncherInv
<1>. QED
  BY InitLauncherInv, NextLauncherInv, <1>1, PTL DEF Spec

-----------------------------------------------------------------------------
(* After a start with no daemon running.                                   *)

(* There is then never more than one daemon, and the program it attached   *)
(* stays: only the script's own detaching and the daemon's touch it.       *)
OneDaemon ==
  /\ \A d \in Daemons : Alive(d) => d = launched
  /\ pc \in {"start", "start_xdp", "start_pg"} => ~IsAlive
  /\ \A d \in Daemons : daemon[d] \in {"bare", "serving"} => xdp = d

OneUnlessOverlap == ~overlap => OneDaemon

(* A start with no daemon alive establishes OneDaemon.                     *)
LEMMA StartGivesOneDaemon == ASSUME Start, ~overlap' PROVE OneDaemon'
BY DEF Start, OneDaemon, Alive, IsAlive, Goto

(* Every other step keeps it.                                              *)
LEMMA NextOneDaemon ==
  ASSUME LauncherInv, OneDaemon, [Next]_vars, ~Start
  PROVE  OneDaemon'
<1> USE DEF At, Goto, End
<1>2. CASE StartKills
  BY <1>2 DEF StartKills, OneDaemon, Alive, IsAlive
<1>3. CASE StartDetaches
  BY <1>3 DEF StartDetaches, Detach, OneDaemon, Alive, IsAlive
<1>4. CASE StartFindsNoPg \/ StartChecks \/ Stop
  BY <1>4 DEF StartFindsNoPg, StartChecks, Stop, OneDaemon, Alive, IsAlive
<1>5. CASE Launch
  <2>1. /\ launched' = launched + 1 /\ pc' = "start_check" /\ xdp' = xdp
        /\ daemon' = [daemon EXCEPT ![launched'] = "boot"]
    BY <1>5 DEF Launch
  <2>2. \A d \in Daemons : ~Alive(d)
    BY <1>5 DEF Launch, OneDaemon, IsAlive
  <2>3. \A d \in Daemons :
          daemon'[d] = IF d = launched' THEN "boot" ELSE daemon[d]
    BY <2>1 DEF LauncherInv, TypeOK
  <2>. QED
    BY <2>1, <2>2, <2>3 DEF OneDaemon, Alive
<1>6. CASE StopTerms \/ StopKills
  <2>1. \A d \in Daemons :
          /\ daemon'[d] \in {"new", "leaving", "dead"} \/ daemon'[d] = daemon[d]
          /\ Alive(d)' => Alive(d)
    <3>1. UNCHANGED daemon \/ Pkill \/ PkillHard
      BY <1>6 DEF StopTerms, StopKills
    <3>. QED
      BY <3>1, SignalFacts DEF LauncherInv, Alive
  <2>2. UNCHANGED <<launched, xdp>> /\ pc' \in {"stop_check", "stop_xdp"}
    BY <1>6 DEF StopTerms, StopKills
  <2>. QED
    BY <2>1, <2>2 DEF OneDaemon, Alive
<1>7. CASE StopDetaches
  BY <1>7 DEF StopDetaches, Detach, OneDaemon, LauncherInv, Cleared, Alive, IsAlive
<1>8. ASSUME NEW d \in Daemons, DaemonStep(d) PROVE OneDaemon'
  <2>1. /\ \A e \in Daemons \ {d} : daemon'[e] = daemon[e]
        /\ Alive(d)
        /\ UNCHANGED <<launched, pidFile, pc, said>>
    BY <1>8, DaemonStepFacts DEF LauncherInv
  <2>2. \A e \in Daemons \ {d} : ~Alive(e) /\ ~Alive(e)'
    BY <2>1 DEF OneDaemon, Alive
  <2>3. pc \notin {"start", "start_xdp", "start_pg"}
    BY <2>1 DEF OneDaemon, IsAlive
  <2>4. daemon'[d] \in {"bare", "serving"} => xdp' = d
    BY <1>8 DEF DaemonStep, AttachXdp, InstallHandlers, LeaveLoop, Teardown,
                Crash, Become, OneDaemon, LauncherInv, TypeOK
  <2>. QED
    BY <2>1, <2>2, <2>3, <2>4 DEF OneDaemon, Alive
<1>9. CASE UNCHANGED vars
  BY <1>9 DEF vars, OneDaemon, Alive, IsAlive
<1>. QED
  BY <1>2, <1>3, <1>4, <1>5, <1>6, <1>7, <1>8, <1>9 DEF Next, Script, Over

(* Only a start makes a new statement about the overlap.                   *)
LEMMA OverlapStays == ASSUME [Next]_vars, ~Start PROVE UNCHANGED overlap
BY DEF Next, Script, StartKills, StartDetaches, StartFindsNoPg, Launch,
       StartChecks, Stop, StopTerms, StopKills, StopDetaches, DaemonStep, Over,
       vars

(* Unless the latest start was made over a running daemon, the daemon in   *)
(* its loop has its own program on the interface, through crashes at any   *)
(* point and whatever the ones before left behind.                         *)
THEOREM ServesWithItsProgram == Spec => []ServingHasItsProgram
<1>1. Init => OneUnlessOverlap
  BY DEF Init, OneUnlessOverlap, OneDaemon, Alive, IsAlive
<1>2. LauncherInv /\ OneUnlessOverlap /\ [Next]_vars => OneUnlessOverlap'
  <2> SUFFICES ASSUME LauncherInv, OneUnlessOverlap, [Next]_vars, ~overlap'
               PROVE  OneDaemon'
    BY DEF OneUnlessOverlap
  <2>1. CASE Start
    BY <2>1, StartGivesOneDaemon
  <2>2. CASE ~Start
    BY <2>2, OverlapStays, NextOneDaemon DEF OneUnlessOverlap
  <2>. QED
    BY <2>1, <2>2
<1>3. OneUnlessOverlap => ServingHasItsProgram
  BY DEF OneUnlessOverlap, OneDaemon, ServingHasItsProgram
<1>. QED
  BY InitLauncherInv, NextLauncherInv, <1>1, <1>2, <1>3, PTL DEF Spec

=============================================================================
