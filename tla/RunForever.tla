--------------------------------- MODULE RunForever ---------------------------------
(***************************************************************************)
(* hub_probe/run_forever.sh: the launcher's start and stop, the daemon     *)
(* processes they launch and signal, and the interface's one slot for an   *)
(* XDP program.  One call of the script runs at a time.                    *)
(*                                                                         *)
(* A daemon attaches its program (bpf_setup) before it installs its signal *)
(* handlers, and detaches whatever program is on the interface last of all *)
(* (bpf_teardown).  The sleeps of the script are no promise about how far  *)
(* the daemons have come when they end.                                    *)
(***************************************************************************)
EXTENDS Naturals

CONSTANTS
  MaxStarts  (* bound of the model: daemons launched                        *)

ASSUME LauncherAssumption == MaxStarts \in Nat \ {0}

Daemons == 1 .. MaxStarts
None == 0

VARIABLES
  daemon,    (* "new", "boot", "bare" (attached, no handlers), "serving",   *)
             (* "leaving" or "dead"                                         *)
  launched,  (* how many were                                               *)
  xdp,       (* whose program is on the interface                           *)
  pidFile,   (* PID_FILE                                                    *)
  pc,        (* where the script is                                         *)
  said,      (* how the latest call ended                                   *)
  stuck,     (* history: the script's latest detaching left a program there *)
  overlap    (* history: the latest start was called over a running daemon  *)

vars == <<daemon, launched, xdp, pidFile, pc, said, stuck, overlap>>

Alive(d) == daemon[d] \notin {"new", "dead"}
(* pgrep -f probe_daemon.py finds something.                               *)
IsAlive == \E d \in Daemons : Alive(d)

At(label) == pc = label
Goto(label) == pc' = label
End(message) == pc' = "idle" /\ said' = message

Init ==
  /\ daemon = [d \in Daemons |-> "new"]
  /\ launched = 0
  /\ xdp = None
  /\ pidFile = None
  /\ pc = "idle"
  /\ said = "nothing"
  /\ stuck = FALSE
  /\ overlap = FALSE

-----------------------------------------------------------------------------
(* The script.                                                             *)

(* Mutant: signals are ignored until the handlers are there.               *)
TermedLate(d) == IF daemon[d] = "serving" THEN "leaving" ELSE daemon[d]
(* SIGTERM: a daemon without handlers dies on the spot, one in its loop    *)
(* begins to leave, one that is leaving goes on.                           *)
Termed(d) ==
  CASE daemon[d] \in {"boot", "bare"} -> "dead"
    [] daemon[d] = "serving" -> "leaving"
    [] OTHER -> daemon[d]

(* Mutant: a daemon that is leaving is given the time it takes.            *)
KilledIfServing(d) == IF daemon[d] = "serving" THEN "dead" ELSE daemon[d]
(* SIGKILL.                                                                *)
Killed(d) == IF Alive(d) THEN "dead" ELSE daemon[d]

Pkill     == daemon' = [d \in Daemons |-> Termed(d)]
PkillHard == daemon' = [d \in Daemons |-> Killed(d)]

Start ==
  /\ At("idle")
  /\ launched < MaxStarts
  /\ overlap' = IsAlive
  /\ Goto("start")
  /\ said' = "nothing"
  /\ UNCHANGED <<daemon, launched, xdp, pidFile, stuck>>

StartKills ==
  /\ At("start")
  /\ IF IsAlive THEN Pkill ELSE UNCHANGED daemon
  /\ Goto("start_xdp")
  /\ UNCHANGED <<launched, xdp, pidFile, said, stuck, overlap>>

(* ip link set ... xdp off || true: it may fail, and a plain "xdp off"      *)
(* need not take away a program attached in generic mode.  A program that  *)
(* stays is noticed by nobody.                                             *)
Detach ==
  \/ xdp' = None /\ stuck' = FALSE
  \/ xdp # None /\ UNCHANGED xdp /\ stuck' = TRUE

(* After the sleep of one second.                                          *)
StartDetaches ==
  /\ At("start_xdp")
  /\ Detach
  /\ Goto("start_pg")
  /\ UNCHANGED <<daemon, launched, pidFile, said, overlap>>

StartFindsNoPg ==
  /\ At("start_pg")
  /\ End("failed")
  /\ UNCHANGED <<daemon, launched, xdp, pidFile, stuck, overlap>>

NewPid == launched + 1

Launch ==
  /\ At("start_pg")
  /\ launched' = launched + 1
  /\ daemon' = [daemon EXCEPT ![launched + 1] = "boot"]
  /\ pidFile' = NewPid
  /\ Goto("start_check")
  /\ UNCHANGED <<xdp, said, stuck, overlap>>

(* Mutant: the leftover program is looked for when the daemon is up.       *)
StartChecksDetaching ==
  /\ At("start_check")
  /\ Detach
  /\ End(IF Alive(launched) THEN "started" ELSE "failed")
  /\ UNCHANGED <<daemon, launched, pidFile, overlap>>
(* After the sleep of two seconds.                                         *)
StartChecks ==
  /\ At("start_check")
  /\ End(IF Alive(launched) THEN "started" ELSE "failed")
  /\ UNCHANGED <<daemon, launched, xdp, pidFile, stuck, overlap>>

Stop ==
  /\ At("idle")
  /\ said # "stopped"
  /\ Goto("stop")
  /\ said' = "nothing"
  /\ UNCHANGED <<daemon, launched, xdp, pidFile, stuck, overlap>>

StopTerms ==
  /\ At("stop")
  /\ IF IsAlive
     THEN Pkill /\ Goto("stop_check")
     ELSE UNCHANGED daemon /\ Goto("stop_xdp")
  /\ UNCHANGED <<launched, xdp, pidFile, said, stuck, overlap>>

(* After the sleep of one second.                                          *)
StopKills ==
  /\ At("stop_check")
  /\ IF IsAlive THEN PkillHard ELSE UNCHANGED daemon
  /\ Goto("stop_xdp")
  /\ UNCHANGED <<launched, xdp, pidFile, said, stuck, overlap>>

StopDetaches ==
  /\ At("stop_xdp")
  /\ pidFile' = None
  /\ Detach
  /\ End("stopped")
  /\ UNCHANGED <<daemon, launched, overlap>>

-----------------------------------------------------------------------------
(* A daemon.                                                               *)

Become(d, phase) == daemon' = [daemon EXCEPT ![d] = phase]

(* bpf_xdp_attach replaces a program that is there.                        *)
AttachXdp(d) ==
  /\ daemon[d] = "boot"
  /\ xdp' = d
  /\ Become(d, "bare")

InstallHandlers(d) ==
  /\ daemon[d] = "bare"
  /\ Become(d, "serving")
  /\ UNCHANGED xdp

(* run leaves its loop without a signal: the poll fails.                   *)
LeaveLoop(d) ==
  /\ daemon[d] = "serving"
  /\ Become(d, "leaving")
  /\ UNCHANGED xdp

(* The end of run's finally clause.  What bpf_xdp_detach answers is not     *)
(* looked at: the program may stay.                                        *)
Teardown(d) ==
  /\ daemon[d] = "leaving"
  /\ Become(d, "dead")
  /\ xdp' \in {None, xdp}

(* The setup fails (it runs before the try), or the process is ended from  *)
(* outside: a program that was attached stays on the interface.            *)
Crash(d) ==
  /\ Alive(d)
  /\ Become(d, "dead")
  /\ UNCHANGED xdp

DaemonStep(d) ==
  /\ AttachXdp(d) \/ InstallHandlers(d) \/ LeaveLoop(d) \/ Teardown(d) \/ Crash(d)
  /\ UNCHANGED <<launched, pidFile, pc, said, stuck, overlap>>

Script ==
  StartKills \/ StartDetaches \/ StartFindsNoPg \/ Launch \/ StartChecks
    \/ StopTerms \/ StopKills \/ StopDetaches

Over ==
  /\ At("idle") /\ said = "stopped" /\ launched = MaxStarts
  /\ UNCHANGED vars

Next ==
  \/ Start \/ Stop \/ Script
  \/ \E d \in Daemons : DaemonStep(d)
  \/ Over

Spec == Init /\ [][Next]_vars

-----------------------------------------------------------------------------
(* Daemons are numbered in the order of their launch, and PID_FILE is      *)
(* absent or names the latest of them.                                     *)
TypeOK ==
  /\ daemon \in [Daemons -> {"new", "boot", "bare", "serving", "leaving", "dead"}]
  /\ launched \in 0 .. MaxStarts
  /\ \A d \in Daemons : daemon[d] = "new" <=> d > launched
  /\ xdp \in Daemons \cup {None}
  /\ pidFile \in {launched, None}
  /\ pc \in {"idle", "start", "start_xdp", "start_pg", "start_check", "stop",
             "stop_check", "stop_xdp"}
  /\ said \in {"nothing", "started", "failed", "stopped"}
  /\ stuck \in BOOLEAN
  /\ overlap \in BOOLEAN

(* After stop no daemon is left, however far any had come, and none comes  *)
(* late to attach its program: there is one on the interface only when the *)
(* stop's own detaching did not take it away.                              *)
StopLeavesNothing == said = "stopped" => ~IsAlive /\ (xdp # None => stuck)

(* Whatever the order of starts, stops and failures, every daemon but the  *)
(* latest is on its way out: two never probe side by side for good.        *)
OnlyLatestStays ==
  \A d \in Daemons : Alive(d) /\ daemon[d] # "leaving" => d = launched

(* A daemon in its loop has its own program on the interface and is not    *)
(* deaf, whatever crashed or was stopped before it, unless it was started  *)
(* over a running daemon.                                                  *)
ServingHasItsProgram ==
  ~overlap => \A d \in Daemons : daemon[d] = "serving" => xdp = d

(* "kill any prior instance so we always end up with exactly one".         *)
EndsWithExactlyOne ==
  At("idle") /\ said = "started" =>
    \A c, d \in Daemons : Alive(c) /\ Alive(d) => c = d

=============================================================================
