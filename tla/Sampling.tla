-------------------------------- MODULE Sampling --------------------------------
(***************************************************************************)
(* When and what hub_probe/probe_daemon.py probes: the checks of main, the *)
(* parsing of --target, its expansion into pairs, and the periodic timer   *)
(* of _sender_loop.  ProbeDaemon leaves the timer open (a round may start  *)
(* at any time) and takes the pairs as given.                              *)
(*                                                                         *)
(* The clock is time.monotonic() in milliseconds.  It may move at every    *)
(* point of the loop: bursts take any time and wake-ups come late.         *)
(***************************************************************************)
EXTENDS Integers, Sequences, FiniteSets, SequencesExt

CONSTANTS
  CommandLines,  (* what the daemon may be called with                      *)
  None,          (* no address of a family                                  *)
  MaxClock       (* bound of the model: rounds start before it              *)

Families == {"v4", "v6"}

(* One --target: whether it holds a "=", what precedes it, and its parts   *)
(* after it, as ipaddress.ip_address classifies them.                      *)
Part == [kind : Families \cup {"bad", "empty"}, addr : STRING]
TargetSpec == [equals : BOOLEAN, name : STRING, parts : Seq(Part)]
(* routes: the families the host has an uplink for.                        *)
CommandLine ==
  [targets : Seq(TargetSpec), intervalMs : Int, durationMs : Int,
   sport : {"probe", "other"}, root : BOOLEAN, routes : SUBSET Families]

Pair == [name : STRING, family : Families, dst : STRING,
         proto : {"tcp_synack", "icmp"}]

ASSUME SamplingAssumption ==
  /\ CommandLines \subseteq CommandLine
  /\ None \notin STRING \cup Nat
  /\ MaxClock \in Nat

VARIABLES
  args,      (* the command line                                            *)
  at,        (* "args", "refused", "loop", "burst", "wait" or "done"        *)
  pairs,     (* self.pairs                                                  *)
  clock,     (* since the sender began                                      *)
  nextTick,  (* next_tick                                                   *)
  end,       (* end, or None                                                *)
  stop,      (* stop_flag, and the _wake event set with it                  *)
  idx,       (* the position of _tick in pairs                              *)
  starts,    (* history: when each round started                            *)
  tried,     (* history: probes tried, by position in pairs                 *)
  missed     (* history: a round has ended after the next deadline          *)

vars == <<args, at, pairs, clock, nextTick, end, stop, idx, starts, tried,
          missed>>

-----------------------------------------------------------------------------
(* parse_target and the expansion in __init__.                             *)

(* Mutant: a later address of a family replaces the first.                 *)
AddPartOver(acc, part) ==
  IF part.kind = "bad" THEN [acc EXCEPT !.ok = FALSE]
  ELSE IF part.kind = "empty" THEN acc
  ELSE [acc EXCEPT ![part.kind] = part.addr]
AddPart(acc, part) ==
  IF part.kind = "empty" THEN acc
  ELSE IF part.kind = "bad" \/ acc[part.kind] # None
       THEN [acc EXCEPT !.ok = FALSE]
  ELSE [acc EXCEPT ![part.kind] = part.addr]

Addresses(spec) ==
  FoldLeft(LAMBDA acc, part : IF acc.ok THEN AddPart(acc, part) ELSE acc,
           [ok |-> TRUE, v4 |-> None, v6 |-> None], spec.parts)

Parses(spec) ==
  /\ spec.equals
  /\ spec.name # ""
  /\ LET a == Addresses(spec) IN a.ok /\ (a.v4 # None \/ a.v6 # None)

PairsOf(spec) ==
  LET both(f) ==
        LET a == Addresses(spec)[f]
            pair(p) == [name |-> spec.name, family |-> f, dst |-> a, proto |-> p]
        IN  IF a = None THEN << >> ELSE <<pair("tcp_synack"), pair("icmp")>>
  IN  both("v4") \o both("v6")

Pairs(specs) == FlattenSeq([i \in DOMAIN specs |-> PairsOf(specs[i])])

-----------------------------------------------------------------------------
Init ==
  /\ args \in CommandLines
  /\ at = "args"
  /\ pairs = << >>
  /\ clock = 0
  /\ nextTick = 0
  /\ end = None
  /\ stop = FALSE
  /\ idx = 1
  /\ starts = << >>
  /\ tried = << >>
  /\ missed = FALSE

Accepted ==
  /\ args.targets # << >>   (* required=True *)
  /\ \A i \in DOMAIN args.targets : Parses(args.targets[i])
  /\ args.root
  /\ args.sport = "probe"
  /\ \A pair \in Range(Pairs(args.targets)) : pair.family \in args.routes

(* argparse, main, or local_ip_for in __init__ ends the process.           *)
Refuse ==
  /\ at = "args"
  /\ ~Accepted
  /\ at' = "refused"
  /\ UNCHANGED <<args, pairs, clock, nextTick, end, stop, idx, starts, tried,
                 missed>>

(* __init__, and the sender's first statements.                            *)
Begin ==
  /\ at = "args"
  /\ Accepted
  /\ pairs' = Pairs(args.targets)
  /\ tried' = [i \in DOMAIN pairs' |-> 0]
  /\ end' = IF args.durationMs > 0 THEN clock + args.durationMs ELSE None
  /\ nextTick' = clock
  /\ at' = "loop"
  /\ UNCHANGED <<args, clock, stop, idx, starts, missed>>

(* Mutant: the guard against a period of zero is dropped.                  *)
IntervalUnguarded == args.intervalMs
Interval == IF args.intervalMs <= 0 THEN 1 ELSE args.intervalMs

(* Mutant: a duration tested only after a round has missed its deadline.   *)
TimeIsUpWhenMissed == end # None /\ missed /\ clock >= end
TimeIsUp == end # None /\ clock >= end

(* The top of the loop.                                                    *)
LoopEnds ==
  /\ at = "loop"
  /\ stop \/ TimeIsUp
  /\ stop' = TRUE
  /\ at' = "done"
  /\ UNCHANGED <<args, pairs, clock, nextTick, end, idx, starts, tried,
                 missed>>

RoundStarts ==
  /\ at = "loop"
  /\ ~stop /\ ~TimeIsUp
  /\ clock < MaxClock
  /\ at' = "burst"
  /\ idx' = 1
  /\ starts' = Append(starts, clock)
  /\ UNCHANGED <<args, pairs, clock, nextTick, end, stop, tried, missed>>

(* Mutant: an exception leaves _tick.                                      *)
AfterErrorLeave == Len(pairs) + 1
(* _fire_one swallows what a send raises, and the round goes on.           *)
AfterError == idx + 1

Fire ==
  /\ at = "burst"
  /\ idx <= Len(pairs) /\ ~stop
  /\ tried' = [tried EXCEPT ![idx] = @ + 1]
  /\ idx' \in {idx + 1, AfterError}
  /\ UNCHANGED <<args, at, pairs, clock, nextTick, end, stop, starts,
                 missed>>

(* Mutants: the deadline is counted from now; a missed one is kept.        *)
DeadlineFromNow == clock + Interval
DeadlineKept    == nextTick + Interval
(* next_tick += interval, or now + interval when that has passed.          *)
Deadline ==
  IF nextTick + Interval < clock THEN clock + Interval ELSE nextTick + Interval

(* _tick returns and the wait for the next deadline begins.                *)
RoundEnds ==
  /\ at = "burst"
  /\ idx > Len(pairs) \/ stop
  /\ nextTick' = Deadline
  /\ missed' = (missed \/ nextTick + Interval < clock)
  /\ at' = "wait"
  /\ UNCHANGED <<args, pairs, clock, end, stop, idx, starts, tried>>

WaitTimesOut ==
  /\ at = "wait"
  /\ clock >= nextTick
  /\ at' = "loop"
  /\ UNCHANGED <<args, pairs, clock, nextTick, end, stop, idx, starts, tried,
                 missed>>

WaitIsWoken ==
  /\ at = "wait"
  /\ stop
  /\ at' = "done"
  /\ UNCHANGED <<args, pairs, clock, nextTick, end, stop, idx, starts, tried,
                 missed>>

Sender == Refuse \/ Begin \/ LoopEnds \/ RoundStarts \/ Fire \/ RoundEnds
            \/ WaitTimesOut \/ WaitIsWoken

-----------------------------------------------------------------------------
(* A signal or an error of the poll asks for the shutdown.                 *)
Shutdown ==
  /\ at \in {"loop", "burst", "wait"}
  /\ ~stop
  /\ stop' = TRUE
  /\ UNCHANGED <<args, at, pairs, clock, nextTick, end, idx, starts, tried,
                 missed>>

Tick ==
  /\ at \in {"loop", "burst", "wait"}
  /\ clock < MaxClock \/ (at = "wait" /\ clock < nextTick)
  /\ clock' = clock + 1
  /\ UNCHANGED <<args, at, pairs, nextTick, end, stop, idx, starts, tried,
                 missed>>

Over == at \in {"refused", "done"} /\ UNCHANGED vars

Next == Sender \/ Shutdown \/ Tick \/ Over

Spec == Init /\ [][Next]_vars

(* The sender is scheduled and time passes.                                *)
FairSpec == Spec /\ WF_vars(Sender) /\ WF_vars(Tick)

-----------------------------------------------------------------------------
(* The position of _tick stays within the pairs, and the clock's readings  *)
(* are never negative.                                                     *)
TypeOK ==
  /\ args \in CommandLines
  /\ at \in {"args", "refused", "loop", "burst", "wait", "done"}
  /\ pairs \in Seq(Pair)
  /\ clock \in Nat /\ nextTick \in Nat
  /\ end \in Nat \cup {None}
  /\ stop \in BOOLEAN /\ missed \in BOOLEAN
  /\ idx \in 1 .. Len(pairs) + 1
  /\ starts \in Seq(Nat)
  /\ tried \in Seq(Nat) /\ Len(tried) = Len(pairs)

(* What --target means, independently of parse_target.                     *)
Naming(spec, f) == {i \in DOMAIN spec.parts : spec.parts[i].kind = f}
WellFormed(spec) ==
  /\ spec.equals /\ spec.name # ""
  /\ Naming(spec, "bad") = {}
  /\ \A f \in Families : Cardinality(Naming(spec, f)) <= 1
  /\ \E f \in Families : Naming(spec, f) # {}

AskedBy(spec) ==
  {[name |-> spec.name, family |-> spec.parts[i].kind,
    dst |-> spec.parts[i].addr, proto |-> p] :
      i \in Naming(spec, "v4") \cup Naming(spec, "v6"),
      p \in {"tcp_synack", "icmp"}}

(* A daemon that starts was given well-formed targets only, and its pairs  *)
(* are the addresses asked for, each as often as it was named and each     *)
(* with TCP and then ICMP; one that refuses to start has a reason.         *)
ProbesWhatWasAsked ==
  LET specs == args.targets
  IN  CASE at = "args" -> TRUE
        [] at = "refused" ->
             \/ specs = << >> \/ ~args.root \/ args.sport = "other"
             \/ \E t \in DOMAIN specs :
                  \/ ~WellFormed(specs[t])
                  \/ \E f \in Families \ args.routes : Naming(specs[t], f) # {}
        [] OTHER ->
             /\ \A t \in DOMAIN specs : WellFormed(specs[t])
             /\ \A pair \in Range(pairs) \cup
                            UNION {AskedBy(specs[t]) : t \in DOMAIN specs} :
                  Cardinality({i \in DOMAIN pairs : pairs[i] = pair}) =
                    Cardinality({t \in DOMAIN specs : pair \in AskedBy(specs[t])})
             /\ \A i \in DOMAIN pairs : pairs[i].proto = "tcp_synack" =>
                  i + 1 \in DOMAIN pairs
                    /\ pairs[i + 1] = [pairs[i] EXCEPT !.proto = "icmp"]

(* "Re-anchor so we don't spiral into back-to-back firing": however long   *)
(* bursts take and however late the thread wakes, no three rounds start    *)
(* within less than one interval.                                          *)
Period == IF args.intervalMs > 1 THEN args.intervalMs ELSE 1
NoBackToBack ==
  \A k \in 1 .. Len(starts) - 2 : starts[k + 2] - starts[k] >= Period

(* "No drift", as far as it goes: until a round ends after the next        *)
(* deadline, the deadlines stay on the grid that began with the sender.    *)
(* What bursts and late wake-ups take within an interval does not add up;  *)
(* a long burst, or a wake-up late by an interval without any burst to     *)
(* speak of, moves the grid.  No round ever starts before its place on the *)
(* first one.                                                              *)
RoundsOver == Len(starts) - (IF at = "burst" THEN 1 ELSE 0)
NoDriftUnlessMissed ==
  at \notin {"args", "refused"} =>
    /\ ~missed => nextTick = RoundsOver * Period
    /\ \A k \in DOMAIN starts : starts[k] >= (k - 1) * Period

(* "Each pair gets exactly one sample per interval": a target whose sends  *)
(* fail takes nothing from the others, and none is tried twice.            *)
EachPairOncePerRound ==
  at \in {"loop", "wait"} /\ ~stop =>
    \A i \in DOMAIN pairs : tried[i] = Len(starts)

(* A daemon with a --duration-s stops by itself.                           *)
DurationEnds == (args.durationMs > 0) ~> (at \in {"refused", "done"})

=============================================================================
