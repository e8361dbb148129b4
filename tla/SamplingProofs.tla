----------------------------- MODULE SamplingProofs -----------------------------
(***************************************************************************)
(* For every command line.  The timer of _sender_loop, whatever the length *)
(* of the bursts: rounds do not follow one another back to back, and the   *)
(* deadlines keep their grid until one is missed.  What parse_target and   *)
(* the expansion in __init__ make of any list of targets, and that each    *)
(* pair is tried once in every round.                                      *)
(***************************************************************************)
EXTENDS Sampling, FoldLemmas

Typed ==
  /\ args \in CommandLines
  /\ at \in {"args", "refused", "loop", "burst", "wait", "done"}
  /\ clock \in Nat /\ nextTick \in Nat
  /\ starts \in Seq(Nat)
  /\ missed \in BOOLEAN

Fresh ==
  at \in {"args", "refused"} =>
    starts = << >> /\ clock = 0 /\ nextTick = 0 /\ ~missed

(* Every round started in the past and not before its place on the grid,   *)
(* and the deadline is not before its place either.                        *)
OnGrid ==
  /\ \A k \in 1 .. Len(starts) : starts[k] <= clock /\ starts[k] >= (k - 1) * Period
  /\ nextTick >= RoundsOver * Period
  /\ ~missed => nextTick = RoundsOver * Period

(* The deadline that let the last round start lies between the starts of   *)
(* the last two rounds.  After the round, the next deadline is not before  *)
(* the last start, and a whole interval after the one before it.           *)
Between ==
  LET n == Len(starts)
  IN  /\ at = "burst" =>
           /\ n >= 1 /\ nextTick <= starts[n]
           /\ n >= 2 => nextTick >= starts[n - 1]
      /\ at \in {"loop", "wait", "done"} =>
           /\ n >= 1 => nextTick >= starts[n]
           /\ n >= 2 => nextTick >= starts[n - 1] + Period
      /\ at = "loop" => clock >= nextTick

TimerInv == Typed /\ Fresh /\ OnGrid /\ Between /\ NoBackToBack

-----------------------------------------------------------------------------
(* The guard of the constructor makes the interval positive.               *)
LEMMA IntervalIsPeriod ==
  ASSUME args \in CommandLines PROVE Interval = Period /\ Period \in Nat \ {0}
<1>1. args.intervalMs \in Int
  BY SamplingAssumption DEF CommandLine
<1> QED
  BY <1>1 DEF Interval, Period

(* The places of successive rounds are one interval apart.                 *)
LEMMA NextPlace ==
  ASSUME NEW n \in Nat, NEW P \in Nat
  PROVE  (n + 1) * P = n * P + P /\ n * P \in Nat
OBVIOUS

(* Before the sender begins, nothing has started and nothing is due.       *)
LEMMA TimerInit == Init => TimerInv
<1> SUFFICES ASSUME Init PROVE TimerInv
  OBVIOUS
<1>1. Period \in Nat
  BY IntervalIsPeriod DEF Init
<1>2. Len(starts) = 0 /\ RoundsOver = 0 /\ 0 * Period = 0
  BY <1>1 DEF Init, RoundsOver
<1>3. OnGrid /\ NoBackToBack
  BY <1>2 DEF Init, OnGrid, NoBackToBack
<1>4. Typed
  <2>1. starts \in Seq(Nat) /\ clock \in Nat /\ nextTick \in Nat
    BY DEF Init
  <2>2. missed \in BOOLEAN
    BY DEF Init
  <2> QED
    BY <2>1, <2>2 DEF Init, Typed
<1>5. Fresh /\ Between
  BY <1>2 DEF Init, Fresh, Between
<1> QED
  BY <1>3, <1>4, <1>5 DEF TimerInv

(* A round starts when its deadline has passed: two starts lie around every*)
(* deadline, and three are an interval apart.                              *)
LEMMA RoundStartsKeeps == ASSUME TimerInv, RoundStarts PROVE TimerInv'
<1> DEFINE n == Len(starts)
<1>1. /\ clock \in Nat /\ nextTick \in Nat /\ n \in Nat /\ starts \in Seq(Nat)
      /\ at = "loop" /\ at' = "burst"
      /\ UNCHANGED <<args, clock, nextTick, missed>>
  BY DEF TimerInv, Typed, RoundStarts
<1>2. Period \in Nat \ {0} /\ Period' = Period
  BY <1>1, IntervalIsPeriod DEF TimerInv, Typed, Period
<1>3. /\ starts' \in Seq(Nat) /\ Len(starts') = n + 1
      /\ \A k \in 1 .. n : starts'[k] = starts[k]
      /\ starts'[n + 1] = clock
  BY <1>1 DEF RoundStarts
<1>4. RoundsOver = n /\ RoundsOver' = n
  BY <1>1, <1>3 DEF RoundsOver
<1>5. clock >= nextTick /\ nextTick >= n * Period
  BY <1>1, <1>4 DEF TimerInv, Between, OnGrid
<1>6. Typed' /\ Fresh'
  BY <1>1, <1>3 DEF TimerInv, Typed, Fresh
<1>7. OnGrid'
  <2>1. ASSUME NEW k \in 1 .. n + 1
        PROVE  starts'[k] <= clock /\ starts'[k] >= (k - 1) * Period
    <3>1. CASE k = n + 1
      BY <1>1, <1>2, <1>3, <1>5, <3>1, NextPlace
    <3>2. CASE k \in 1 .. n
      BY <1>3, <3>2 DEF TimerInv, OnGrid
    <3> QED
      BY <1>1, <3>1, <3>2
  <2> QED
    BY <1>1, <1>2, <1>3, <1>4, <2>1 DEF TimerInv, OnGrid
<1>8. Between'
  <2>1. n >= 1 => nextTick >= starts[n]
    BY <1>1 DEF TimerInv, Between
  <2>2. /\ Len(starts') >= 1 /\ nextTick' <= starts'[Len(starts')]
        /\ Len(starts') >= 2 => nextTick' >= starts'[Len(starts') - 1]
    <3>1. n >= 1 => n \in 1 .. n
      BY <1>1
    <3>2. Len(starts') - 1 = n
      BY <1>1, <1>3
    <3>3. n >= 1 => starts'[Len(starts') - 1] = starts[n]
      BY <1>3, <3>1, <3>2
    <3>4. starts'[Len(starts')] = clock /\ nextTick' = nextTick
      BY <1>1, <1>3
    <3> QED
      BY <1>1, <1>3, <1>5, <2>1, <3>3, <3>4
  <2> QED
    BY <1>1, <2>2 DEF Between
<1>9. NoBackToBack'
  <2> SUFFICES ASSUME NEW k \in 1 .. n - 1 PROVE starts'[k + 2] - starts'[k] >= Period
    BY <1>1, <1>2, <1>3 DEF NoBackToBack
  <2>1. CASE k = n - 1
    <3>1. nextTick >= starts[k] + Period
      BY <1>1, <2>1 DEF TimerInv, Between
    <3>2. k \in 1 .. n /\ k + 2 = n + 1
      BY <1>1, <2>1
    <3>3. starts[k] \in Nat /\ starts'[k + 2] = clock /\ starts'[k] = starts[k]
      <4>1. starts[k] \in Nat
        BY <1>1, <3>2
      <4> QED
        BY <1>3, <3>2, <4>1
    <3> QED
      BY <1>1, <1>2, <1>5, <3>1, <3>3
  <2>2. CASE k \in 1 .. n - 2
    <3>1. starts'[k + 2] = starts[k + 2] /\ starts'[k] = starts[k]
      BY <1>1, <1>3, <2>2
    <3> QED
      BY <1>1, <2>2, <3>1 DEF TimerInv, NoBackToBack
  <2> QED
    BY <1>1, <2>1, <2>2
<1> QED
  BY <1>6, <1>7, <1>8, <1>9 DEF TimerInv

(* The next deadline is a place on the grid, or, after a missed one, a     *)
(* whole interval from now.                                                *)
LEMMA RoundEndsKeeps == ASSUME TimerInv, RoundEnds PROVE TimerInv'
<1> DEFINE n == Len(starts)
<1>1. /\ clock \in Nat /\ nextTick \in Nat /\ n \in Nat /\ starts \in Seq(Nat)
      /\ at = "burst" /\ at' = "wait"
      /\ UNCHANGED <<args, clock, starts>>
  BY DEF TimerInv, Typed, RoundEnds
<1>2. Period \in Nat \ {0} /\ Period' = Period /\ Interval = Period
  BY <1>1, IntervalIsPeriod DEF TimerInv, Typed, Period
<1>3. /\ n >= 1 /\ nextTick <= starts[n]
      /\ n >= 2 => nextTick >= starts[n - 1]
  BY <1>1 DEF TimerInv, Between
<1>4. \A k \in 1 .. n : starts[k] \in Nat /\ starts[k] <= clock
  BY <1>1 DEF TimerInv, OnGrid
<1>5. RoundsOver = n - 1 /\ RoundsOver' = n
  BY <1>1 DEF RoundsOver
<1>6. n * Period = (n - 1) * Period + Period /\ (n - 1) * Period \in Nat
  <2>1. n - 1 \in Nat /\ (n - 1) + 1 = n
    BY <1>1, <1>3
  <2> QED
    BY <1>2, <2>1, NextPlace
<1>7. /\ nextTick' \in Nat
      /\ nextTick' >= clock /\ nextTick' >= nextTick + Period
      /\ missed' \in BOOLEAN
      /\ ~missed' => ~missed /\ nextTick' = nextTick + Period
  <2>1. nextTick' = IF nextTick + Period < clock THEN clock + Period
                                                ELSE nextTick + Period
    BY <1>2 DEF RoundEnds, Deadline
  <2>2. missed' = (missed \/ nextTick + Period < clock)
    BY <1>2 DEF RoundEnds
  <2>3. missed' \in BOOLEAN /\ (~missed' => ~missed /\ ~(nextTick + Period < clock))
    BY <2>2
  <2> QED
    BY <1>1, <1>2, <2>1, <2>3
<1>8. Typed' /\ Fresh'
  BY <1>1, <1>7 DEF TimerInv, Typed, Fresh
<1>9. nextTick >= (n - 1) * Period /\ (~missed => nextTick = (n - 1) * Period)
  BY <1>5 DEF TimerInv, OnGrid
<1>10. nextTick' >= n * Period /\ (~missed' => nextTick' = n * Period)
  <2> DEFINE g == (n - 1) * Period
             h == n * Period
  <2>1. h = g + Period /\ g \in Nat /\ nextTick >= g /\ (~missed => nextTick = g)
    BY <1>6, <1>9
  <2> HIDE DEF g, h
  <2>2. nextTick' >= h /\ (~missed' => nextTick' = h)
    BY <1>1, <1>2, <1>7, <2>1
  <2> QED
    BY <2>2 DEF h
<1>11. OnGrid'
  BY <1>1, <1>2, <1>5, <1>10 DEF TimerInv, OnGrid
<1>12. Between'
  BY <1>1, <1>2, <1>3, <1>4, <1>7 DEF Between
<1>13. NoBackToBack'
  BY <1>1, <1>2 DEF TimerInv, NoBackToBack
<1> QED
  BY <1>8, <1>11, <1>12, <1>13 DEF TimerInv

(* The other steps start no round and move no deadline; Begin starts the   *)
(* grid at the clock's reading.                                            *)
LEMMA OthersKeep ==
  ASSUME TimerInv, UNCHANGED <<args, starts, missed>>, nextTick' = nextTick,
         clock' \in Nat, clock' >= clock,
         \/ at' = at
         \/ at = "args" /\ at' \in {"refused", "loop"}
         \/ at \in {"loop", "wait"} /\ at' = "done"
         \/ at = "wait" /\ at' = "loop" /\ clock' >= nextTick,
         at' \in {"args", "refused"} => clock' = clock
  PROVE  TimerInv'
<1>1. Period' = Period
  BY DEF Period
<1>2. /\ clock \in Nat /\ nextTick \in Nat /\ starts \in Seq(Nat)
      /\ at \in {"args", "refused", "loop", "burst", "wait", "done"}
  BY DEF TimerInv, Typed
<1>3. RoundsOver' = RoundsOver
  BY <1>2 DEF RoundsOver
<1>4. Typed' /\ Fresh'
  BY DEF TimerInv, Typed, Fresh
<1>5. OnGrid'
  BY <1>1, <1>2, <1>3 DEF TimerInv, OnGrid
<1>6. Between'
  <2>1. at = "args" => Len(starts) = 0 /\ clock = 0 /\ nextTick = 0
    BY DEF TimerInv, Fresh
  <2> QED
    BY <1>1, <1>2, <2>1 DEF TimerInv, Between
<1>7. NoBackToBack'
  BY <1>1 DEF TimerInv, NoBackToBack
<1> QED
  BY <1>4, <1>5, <1>6, <1>7 DEF TimerInv

(* Every step keeps the invariant.                                         *)
LEMMA TimerStep == TimerInv /\ [Next]_vars => TimerInv'
<1> SUFFICES ASSUME TimerInv, [Next]_vars PROVE TimerInv'
  OBVIOUS
<1> USE DEF TimerInv, Typed
<1>1. CASE Begin
  <2>1. nextTick' = nextTick
    BY <1>1 DEF Begin, Fresh
  <2> QED
    BY <1>1, <2>1, OthersKeep DEF Begin
<1>2. CASE Refuse \/ LoopEnds \/ WaitIsWoken
  BY <1>2, OthersKeep DEF Refuse, LoopEnds, WaitIsWoken
<1>3. CASE RoundStarts \/ RoundEnds
  BY <1>3, RoundStartsKeeps, RoundEndsKeeps
<1>4. CASE Fire \/ WaitTimesOut
  BY <1>4, OthersKeep DEF Fire, WaitTimesOut
<1>5. CASE Shutdown \/ Tick
  BY <1>5, OthersKeep DEF Shutdown, Tick
<1>6. CASE Over \/ UNCHANGED vars
  BY <1>6, OthersKeep DEF Over, vars
<1> QED
  BY <1>1, <1>2, <1>3, <1>4, <1>5, <1>6 DEF Next, Sender

(* So it always holds.                                                     *)
LEMMA TimerAlways == Spec => []TimerInv
BY TimerInit, TimerStep, PTL DEF Spec

(* However long the bursts take and however late the sender wakes, no      *)
(* three rounds start within less than one interval (_sender_loop          *)
(* re-anchors a deadline that has passed).                                 *)
THEOREM RoundsAreApart == Spec => []NoBackToBack
<1>1. TimerInv => NoBackToBack
  BY DEF TimerInv
<1> QED
  BY <1>1, TimerAlways, PTL

(* Until a round ends after the next deadline (its burst was too long, or  *)
(* it began that late) the deadline after n rounds is n intervals after    *)
(* the first: what is lost within an interval does not add up.  No round   *)
(* ever starts before its place.                                           *)
THEOREM DeadlinesKeepTheGrid == Spec => []NoDriftUnlessMissed
<1>1. TimerInv => NoDriftUnlessMissed
  <2>1. ASSUME TimerInv PROVE DOMAIN starts = 1 .. Len(starts)
    BY <2>1 DEF TimerInv, Typed
  <2> QED
    BY <2>1 DEF TimerInv, OnGrid, NoDriftUnlessMissed
<1> QED
  BY <1>1, TimerAlways, PTL

-----------------------------------------------------------------------------
(* What parse_target has after some of the parts of a --target.            *)
Acc == [ok : BOOLEAN, v4 : STRING \cup {None}, v6 : STRING \cup {None}]
NoneYet == [ok |-> TRUE, v4 |-> None, v6 |-> None]
WithPart(acc, part) == IF acc.ok THEN AddPart(acc, part) ELSE acc

(* One more part, by its kind.                                             *)
LEMMA WithPartIs ==
  ASSUME NEW acc \in Acc, NEW part \in Part
  PROVE  /\ WithPart(acc, part) \in Acc
         /\ ~acc.ok => WithPart(acc, part) = acc
         /\ acc.ok /\ part.kind = "empty" => WithPart(acc, part) = acc
         /\ acc.ok /\ part.kind = "bad" => ~WithPart(acc, part).ok
         /\ acc.ok /\ part.kind = "v4" =>
              /\ WithPart(acc, part).ok <=> acc.v4 = None
              /\ acc.v4 = None =>
                   WithPart(acc, part) = [ok |-> TRUE, v4 |-> part.addr, v6 |-> acc.v6]
         /\ acc.ok /\ part.kind = "v6" =>
              /\ WithPart(acc, part).ok <=> acc.v6 = None
              /\ acc.v6 = None =>
                   WithPart(acc, part) = [ok |-> TRUE, v4 |-> acc.v4, v6 |-> part.addr]
<1>1. part.kind \in {"v4", "v6", "bad", "empty"} /\ part.addr \in STRING
  BY DEF Part, Families
<1>2. acc = [ok |-> acc.ok, v4 |-> acc.v4, v6 |-> acc.v6] /\ acc.ok \in BOOLEAN
  BY DEF Acc
<1>3. CASE ~acc.ok
  BY <1>3 DEF WithPart
<1>4. CASE acc.ok /\ part.kind = "empty"
  BY <1>4 DEF WithPart, AddPart
<1>5. CASE acc.ok /\ part.kind = "bad"
  BY <1>5 DEF WithPart, AddPart, Acc
<1>6. CASE acc.ok /\ part.kind = "v4"
  BY <1>1, <1>2, <1>6 DEF WithPart, AddPart, Acc
<1>7. CASE acc.ok /\ part.kind = "v6"
  BY <1>1, <1>2, <1>7 DEF WithPart, AddPart, Acc
<1> QED
  BY <1>1, <1>3, <1>4, <1>5, <1>6, <1>7

(* Addresses goes over the parts one by one.                               *)
LEMMA AddressesSteps ==
  ASSUME NEW spec \in TargetSpec
  PROVE  \E h \in [0 .. Len(spec.parts) -> Acc] :
           /\ h[0] = NoneYet
           /\ \A k \in 1 .. Len(spec.parts) : h[k] = WithPart(h[k - 1], spec.parts[k])
           /\ Addresses(spec) = h[Len(spec.parts)]
<1> DEFINE parts == spec.parts
           n == Len(parts)
           H == [x \in (1 .. n) \X Acc |-> WithPart(x[2], parts[x[1]])]
           iter == CHOOSE f : f = [s \in SUBSET (DOMAIN parts) |->
                     IF s = {} THEN NoneYet
                     ELSE IF f[s \ {Max(s)}].ok
                          THEN AddPart(f[s \ {Max(s)}], parts[Max(s)])
                          ELSE f[s \ {Max(s)}]]
<1>1. n \in Nat /\ DOMAIN parts = 1 .. n /\ \A i \in 1 .. n : parts[i] \in Part
  BY DEF TargetSpec
<1>2. NoneYet \in Acc
  BY DEF NoneYet, Acc
<1>3. H \in [(1 .. n) \X Acc -> Acc]
  <2>1. \A x \in (1 .. n) \X Acc : WithPart(x[2], parts[x[1]]) \in Acc
    BY <1>1, WithPartIs
  <2> QED
    BY <2>1
<1>4. \A k \in 1 .. n : \A v \in Acc : H[<<k, v>>] = WithPart(v, parts[k])
  OBVIOUS
<1> HIDE DEF H
<1>5. PICK g \in [SUBSET (1 .. n) -> Acc] : IsLeftFold(g, n, NoneYet, H)
  BY <1>1, <1>2, <1>3, FoldLeftExists
<1>6. ASSUME NEW s \in SUBSET (1 .. n), s # {}
      PROVE  Max(s) \in 1 .. n /\ s \ {Max(s)} \in SUBSET (1 .. n)
  BY <1>1, <1>6, MaxOfPrefix
<1>7. g = [s \in SUBSET (DOMAIN parts) |->
             IF s = {} THEN NoneYet
             ELSE IF g[s \ {Max(s)}].ok
                  THEN AddPart(g[s \ {Max(s)}], parts[Max(s)])
                  ELSE g[s \ {Max(s)}]]
  <2>1. ASSUME NEW s \in SUBSET (1 .. n)
        PROVE  g[s] = IF s = {} THEN NoneYet
                      ELSE IF g[s \ {Max(s)}].ok
                           THEN AddPart(g[s \ {Max(s)}], parts[Max(s)])
                           ELSE g[s \ {Max(s)}]
    BY <1>4, <1>5, <1>6 DEF IsLeftFold, WithPart
  <2> QED
    BY <1>1, <2>1
<1>8. iter = [s \in SUBSET (DOMAIN parts) |->
                IF s = {} THEN NoneYet
                ELSE IF iter[s \ {Max(s)}].ok
                     THEN AddPart(iter[s \ {Max(s)}], parts[Max(s)])
                     ELSE iter[s \ {Max(s)}]]
  BY <1>7
<1>9. Addresses(spec) = iter[DOMAIN parts]
  BY Zenon DEF Addresses, FoldLeft, MapThenFoldSet, NoneYet
<1> HIDE DEF iter
<1>10. LeftFoldsIn(iter, n, Acc, NoneYet, H)
  <2>1. iter[{}] = NoneYet
    BY <1>8
  <2>2. ASSUME NEW s \in SUBSET (1 .. n), s # {}, iter[s \ {Max(s)}] \in Acc
        PROVE  iter[s] = H[<<Max(s), iter[s \ {Max(s)}]>>]
    <3>1. iter[s] = WithPart(iter[s \ {Max(s)}], parts[Max(s)])
      BY <1>1, <1>8, <2>2 DEF WithPart
    <3>2. Max(s) \in 1 .. n
      BY <1>6, <2>2
    <3> QED
      BY <1>4, <2>2, <3>1, <3>2
  <2> QED
    BY <2>1, <2>2 DEF LeftFoldsIn
<1>11. StepsTo(iter[1 .. n], n, Acc, NoneYet, H)
  <2> HIDE DEF n
  <2>1. n \in Nat
    BY <1>1
  <2> QED
    BY <2>1, <1>2, <1>3, <1>10, FoldLeftValues
<1>12. PICK h \in [0 .. n -> Acc] : Steps(h, n, NoneYet, H) /\ iter[1 .. n] = h[n]
  BY <1>11 DEF StepsTo
<1>13. ASSUME NEW k \in 1 .. n PROVE h[k] = WithPart(h[k - 1], parts[k])
  <2>1. k - 1 \in 0 .. n /\ h[k] = H[<<k, h[k - 1]>>]
    BY <1>1, <1>12 DEF Steps
  <2> QED
    BY <1>4, <2>1
<1>14. h[0] = NoneYet /\ Addresses(spec) = h[n]
  BY <1>1, <1>9, <1>12 DEF Steps
<1> QED
  BY <1>13, <1>14

(* What the first k parts of a --target make of it: an error, or the       *)
(* address of each family named by one of them.                            *)
ReadSoFar(spec, k, acc) ==
  LET named(f) == {i \in 1 .. k : spec.parts[i].kind = f}
  IN  /\ acc.ok <=> /\ named("bad") = {}
                    /\ \A f \in Families : \A i, j \in named(f) : i = j
      /\ acc.ok => \A f \in Families :
           /\ acc[f] = None <=> named(f) = {}
           /\ \A i \in named(f) : acc[f] = spec.parts[i].addr

(* One part more of a target keeps the meaning of what was read so far.    *)
LEMMA ReadOneMore ==
  ASSUME NEW spec \in TargetSpec, NEW k \in 1 .. Len(spec.parts), NEW acc \in Acc,
         ReadSoFar(spec, k - 1, acc)
  PROVE  ReadSoFar(spec, k, WithPart(acc, spec.parts[k]))
<1> DEFINE part == spec.parts[k]
           next == WithPart(acc, part)
           before(f) == {i \in 1 .. k - 1 : spec.parts[i].kind = f}
           named(f)  == {i \in 1 .. k : spec.parts[i].kind = f}
<1>1. /\ part \in Part /\ part.kind \in {"v4", "v6", "bad", "empty"}
      /\ part.addr \in STRING /\ part.addr # None
      /\ Len(spec.parts) \in Nat
  <2>1. spec.parts \in Seq(Part)
    BY DEF TargetSpec
  <2>2. part \in Part /\ Len(spec.parts) \in Nat
    BY <2>1
  <2>3. part.kind \in {"v4", "v6", "bad", "empty"} /\ part.addr \in STRING
    BY <2>2 DEF Part, Families
  <2> QED
    BY <2>2, <2>3, SamplingAssumption
<1>2. \A f : named(f) = before(f) \cup (IF part.kind = f THEN {k} ELSE {})
  BY <1>1
<1>3. \A f : k \notin before(f)
  BY <1>1
<1>4. /\ acc.ok <=> /\ before("bad") = {}
                    /\ \A f \in Families : \A i, j \in before(f) : i = j
      /\ acc.ok => \A f \in Families :
           /\ acc[f] = None <=> before(f) = {}
           /\ \A i \in before(f) : acc[f] = spec.parts[i].addr
  BY DEF ReadSoFar
<1>5. Families = {"v4", "v6"}
  BY DEF Families
<1> SUFFICES
      /\ next.ok <=> /\ named("bad") = {}
                     /\ \A f \in Families : \A i, j \in named(f) : i = j
      /\ next.ok => \A f \in Families :
           /\ next[f] = None <=> named(f) = {}
           /\ \A i \in named(f) : next[f] = spec.parts[i].addr
  BY DEF ReadSoFar
<1> HIDE DEF before, named
<1>6. CASE ~acc.ok
  <2>1. next = acc
    BY <1>1, <1>6, WithPartIs
  <2> HIDE DEF next, part
  <2> QED
    BY <1>2, <1>4, <1>6, <2>1
<1>7. CASE acc.ok /\ part.kind = "empty"
  <2>1. next = acc /\ \A f \in Families \cup {"bad"} : named(f) = before(f)
    BY <1>1, <1>2, <1>5, <1>7, WithPartIs
  <2> HIDE DEF next, part
  <2> QED
    BY <1>4, <1>7, <2>1
<1>8. CASE acc.ok /\ part.kind = "bad"
  <2>1. ~next.ok
    BY <1>1, <1>8, WithPartIs
  <2>2. k \in named("bad")
    BY <1>2, <1>8
  <2> HIDE DEF next
  <2> QED
    BY <2>1, <2>2
<1>9. ASSUME NEW f \in Families, NEW g \in Families, f # g, acc.ok, part.kind = f,
             next.ok <=> acc[f] = None,
             acc[f] = None => next.ok /\ next[f] = part.addr /\ next[g] = acc[g]
      PROVE  /\ next.ok <=> /\ named("bad") = {}
                            /\ \A e \in Families : \A i, j \in named(e) : i = j
             /\ next.ok => \A e \in Families :
                  /\ next[e] = None <=> named(e) = {}
                  /\ \A i \in named(e) : next[e] = spec.parts[i].addr
  <2>1. /\ named("bad") = before("bad") /\ named(f) = before(f) \cup {k}
        /\ named(g) = before(g) /\ \A e \in Families : e \in {f, g}
    BY <1>1, <1>2, <1>5, <1>9
  <2> HIDE DEF next
  <2>2. CASE acc[f] = None
    BY <1>1, <1>3, <1>4, <1>9, <2>1, <2>2
  <2>3. CASE acc[f] # None
    <3>1. PICK i \in before(f) : TRUE
      BY <1>4, <1>9, <2>3
    <3>2. i # k /\ i \in named(f) /\ k \in named(f)
      BY <1>3, <2>1, <3>1
    <3> QED
      BY <1>9, <2>3, <3>2
  <2> QED
    BY <2>2, <2>3
<1>10. CASE acc.ok /\ part.kind = "v4"
  <2>1. /\ next.ok <=> acc["v4"] = None
        /\ acc["v4"] = None =>
             next.ok /\ next["v4"] = part.addr /\ next["v6"] = acc["v6"]
    BY <1>1, <1>10, WithPartIs
  <2> HIDE DEF next, part
  <2> QED
    BY <1>5, <1>9, <1>10, <2>1
<1>11. CASE acc.ok /\ part.kind = "v6"
  <2>1. /\ next.ok <=> acc["v6"] = None
        /\ acc["v6"] = None =>
             next.ok /\ next["v6"] = part.addr /\ next["v4"] = acc["v4"]
    BY <1>1, <1>11, WithPartIs
  <2> HIDE DEF next, part
  <2> QED
    BY <1>5, <1>9, <1>11, <2>1
<1> HIDE DEF next
<1> QED
  BY <1>1, <1>6, <1>7, <1>8, <1>10, <1>11

(* What Addresses makes of a whole --target.                               *)
LEMMA AddressesMean ==
  ASSUME NEW spec \in TargetSpec
  PROVE  /\ Addresses(spec) \in Acc
         /\ Addresses(spec).ok <=>
              /\ Naming(spec, "bad") = {}
              /\ \A f \in Families : \A i, j \in Naming(spec, f) : i = j
         /\ Addresses(spec).ok => \A f \in Families :
              /\ Addresses(spec)[f] = None <=> Naming(spec, f) = {}
              /\ \A i \in Naming(spec, f) : Addresses(spec)[f] = spec.parts[i].addr
<1> DEFINE n == Len(spec.parts)
<1>1. n \in Nat /\ DOMAIN spec.parts = 1 .. n
  BY DEF TargetSpec
<1>2. PICK h \in [0 .. n -> Acc] :
           /\ h[0] = NoneYet
           /\ \A k \in 1 .. n : h[k] = WithPart(h[k - 1], spec.parts[k])
           /\ Addresses(spec) = h[n]
  BY AddressesSteps
<1> DEFINE T == {k \in 0 .. n : ReadSoFar(spec, k, h[k])}
<1>3. 0 \in T
  BY <1>1, <1>2 DEF ReadSoFar, NoneYet, Families
<1>4. ASSUME NEW k \in 0 .. n - 1, k \in T PROVE k + 1 \in T
  <2>1. k + 1 \in 1 .. n /\ (k + 1) - 1 = k /\ h[k] \in Acc
    BY <1>1
  <2>2. h[k + 1] = WithPart(h[k], spec.parts[k + 1])
    BY <1>2, <2>1
  <2>3. ReadSoFar(spec, k + 1, WithPart(h[k], spec.parts[k + 1]))
    BY <1>4, <2>1, ReadOneMore
  <2> QED
    BY <1>1, <2>1, <2>2, <2>3
<1>5. n \in T
  <2> HIDE DEF T, n
  <2>1. \A k \in 0 .. n : k \in T
    BY <1>1, <1>3, <1>4, UpTo
  <2> QED
    BY <1>1, <2>1
<1>6. ReadSoFar(spec, n, Addresses(spec)) /\ Addresses(spec) \in Acc
  BY <1>1, <1>2, <1>5
<1> DEFINE a == Addresses(spec)
           named(f) == {i \in 1 .. n : spec.parts[i].kind = f}
<1>7. \A f : Naming(spec, f) = named(f)
  BY <1>1 DEF Naming
<1>8. /\ a.ok <=> /\ named("bad") = {}
                  /\ \A f \in Families : \A i, j \in named(f) : i = j
      /\ a.ok => \A f \in Families :
           /\ a[f] = None <=> named(f) = {}
           /\ \A i \in named(f) : a[f] = spec.parts[i].addr
  BY <1>6 DEF ReadSoFar
<1> HIDE DEF n, a, named
<1>9. /\ a.ok <=> /\ Naming(spec, "bad") = {}
                  /\ \A f \in Families : \A i, j \in Naming(spec, f) : i = j
      /\ a.ok => \A f \in Families :
           /\ a[f] = None <=> Naming(spec, f) = {}
           /\ \A i \in Naming(spec, f) : a[f] = spec.parts[i].addr
  BY <1>7, <1>8
<1> QED
  BY <1>6, <1>9 DEF a

-----------------------------------------------------------------------------
(* A --target parses when it means something.                              *)
LEMMA ParsesIff ==
  ASSUME NEW spec \in TargetSpec PROVE Parses(spec) <=> WellFormed(spec)
<1> DEFINE a == Addresses(spec)
<1>1. ASSUME NEW f \in Families
      PROVE  Cardinality(Naming(spec, f)) <= 1 <=> \A i, j \in Naming(spec, f) : i = j
  <2> DEFINE S == Naming(spec, f)
  <2>1. IsFiniteSet(S)
    <3>1. PICK n \in Nat : DOMAIN spec.parts = 1 .. n
      BY DEF TargetSpec
    <3>2. IsFiniteSet(DOMAIN spec.parts)
      <4>1. IsFiniteSet(1 .. n)
        BY FS_Interval
      <4> QED
        BY <3>1, <4>1
    <3>3. S \in SUBSET (DOMAIN spec.parts)
      BY DEF Naming
    <3> HIDE DEF S
    <3> QED
      BY <3>2, <3>3, FS_Subset
  <2> HIDE DEF S
  <2>2. Cardinality(S) \in Nat /\ (Cardinality(S) = 0 <=> S = {})
        /\ (Cardinality(S) = 1 <=> \E x : S = {x})
    BY <2>1, FS_CardinalityType, FS_EmptySet, FS_Singleton
  <2>3. (\A i, j \in S : i = j) <=> (S = {} \/ \E x : S = {x})
    OBVIOUS
  <2>4. Cardinality(S) <= 1 <=> \A i, j \in S : i = j
    BY <2>2, <2>3
  <2> QED
    BY <2>4 DEF S
<1>2. /\ a.ok <=> /\ Naming(spec, "bad") = {}
                  /\ \A f \in Families : \A i, j \in Naming(spec, f) : i = j
      /\ a.ok => \A f \in Families : a[f] = None <=> Naming(spec, f) = {}
  BY AddressesMean
<1>3. Families = {"v4", "v6"}
  BY DEF Families
<1>4. Parses(spec) <=> /\ spec.equals /\ spec.name # "" /\ a.ok
                       /\ a["v4"] # None \/ a["v6"] # None
  BY DEF Parses
<1> HIDE DEF a
<1> QED
  BY <1>1, <1>2, <1>3, <1>4 DEF WellFormed

(* The two probes of an address.                                           *)
Both(name, f, a) ==
  IF a = None THEN << >>
  ELSE <<[name |-> name, family |-> f, dst |-> a, proto |-> "tcp_synack"],
         [name |-> name, family |-> f, dst |-> a, proto |-> "icmp"]>>

(* The pairs of a target are those of its IPv4 address and then of its     *)
(* IPv6 address.                                                           *)
LEMMA PairsOfIs ==
  ASSUME NEW spec
  PROVE  PairsOf(spec) = Both(spec.name, "v4", Addresses(spec)["v4"])
                           \o Both(spec.name, "v6", Addresses(spec)["v6"])
BY Zenon DEF PairsOf, Both

(* They are pairs.                                                         *)
LEMMA PairsOfType ==
  ASSUME NEW spec \in TargetSpec PROVE PairsOf(spec) \in Seq(Pair)
<1>1. ASSUME NEW f \in Families PROVE Both(spec.name, f, Addresses(spec)[f]) \in Seq(Pair)
  <2>1. Addresses(spec)[f] \in STRING \cup {None} /\ spec.name \in STRING
    BY AddressesMean DEF Acc, Families, TargetSpec
  <2>2. ASSUME NEW a \in STRING, NEW p \in {"tcp_synack", "icmp"}
        PROVE  [name |-> spec.name, family |-> f, dst |-> a, proto |-> p] \in Pair
    BY <2>1 DEF Pair
  <2> HIDE DEF Pair
  <2>3. ASSUME NEW x \in Pair, NEW y \in Pair PROVE <<x, y>> \in Seq(Pair)
    OBVIOUS
  <2>4. << >> \in Seq(Pair)
    OBVIOUS
  <2> QED
    BY <2>1, <2>2, <2>3, <2>4 DEF Both
<1>2. "v4" \in Families /\ "v6" \in Families
  BY DEF Families
<1> DEFINE q == Both(spec.name, "v4", Addresses(spec)["v4"])
           r == Both(spec.name, "v6", Addresses(spec)["v6"])
<1>3. q \in Seq(Pair) /\ r \in Seq(Pair)
  BY <1>1, <1>2
<1>4. PairsOf(spec) = q \o r
  BY PairsOfIs
<1> HIDE DEF q, r
<1> QED
  BY <1>3, <1>4

(* So are those of all targets together.                                   *)
LEMMA PairsType ==
  ASSUME NEW specs \in Seq(TargetSpec) PROVE Pairs(specs) \in Seq(Pair)
<1>1. [i \in DOMAIN specs |-> PairsOf(specs[i])] \in Seq(Seq(Pair))
  <2>1. DOMAIN specs = 1 .. Len(specs) /\ Len(specs) \in Nat
    OBVIOUS
  <2>2. \A i \in 1 .. Len(specs) : PairsOf(specs[i]) \in Seq(Pair)
    BY PairsOfType
  <2> DEFINE S == Seq(Pair)
             n == Len(specs)
             f == [i \in 1 .. n |-> PairsOf(specs[i])]
  <2>3. f \in [1 .. n -> S]
    BY <2>2
  <2> HIDE DEF f, S, n
  <2>4. f \in Seq(S)
    BY <2>1, <2>3 DEF n
  <2> QED
    BY <2>1, <2>4 DEF f, S, n
<1> QED
  BY <1>1, FlattenType DEF Pairs

(* Each TCP probe of a sequence of pairs is followed by its ICMP probe.    *)
TcpThenIcmp(q) ==
  \A i \in DOMAIN q : q[i].proto = "tcp_synack" =>
    i + 1 \in DOMAIN q /\ q[i + 1] = [q[i] EXCEPT !.proto = "icmp"]

(* Putting two such sequences together keeps each probe next to its        *)
(* partner.                                                                *)
LEMMA ThenConcat ==
  ASSUME NEW q \in Seq(Pair), NEW r \in Seq(Pair), TcpThenIcmp(q), TcpThenIcmp(r)
  PROVE  TcpThenIcmp(q \o r)
<1> DEFINE m == Len(q)
           n == Len(r)
           s == q \o r
<1>1. /\ m \in Nat /\ n \in Nat /\ DOMAIN q = 1 .. m /\ DOMAIN r = 1 .. n
      /\ DOMAIN s = 1 .. m + n
      /\ \A i \in 1 .. m : s[i] = q[i]
      /\ \A i \in 1 .. n : s[m + i] = r[i]
  OBVIOUS
<1> SUFFICES ASSUME NEW i \in 1 .. m + n, s[i].proto = "tcp_synack"
             PROVE  i + 1 \in 1 .. m + n /\ s[i + 1] = [s[i] EXCEPT !.proto = "icmp"]
  BY <1>1 DEF TcpThenIcmp
<1> HIDE DEF m, n, s
<1>2. CASE i \in 1 .. m
  <2>1. q[i].proto = "tcp_synack" /\ s[i] = q[i]
    BY <1>1, <1>2
  <2>2. i + 1 \in 1 .. m /\ q[i + 1] = [q[i] EXCEPT !.proto = "icmp"]
    BY <1>1, <1>2, <2>1 DEF TcpThenIcmp
  <2> QED
    BY <1>1, <2>1, <2>2
<1>3. CASE i \notin 1 .. m
  <2>1. PICK j \in 1 .. n : i = m + j
    <3>1. i - m \in 1 .. n /\ i = m + (i - m)
      BY <1>1, <1>3
    <3> QED
      BY <3>1
  <2>2. s[i] = r[j]
    BY <1>1, <2>1
  <2>3. j + 1 \in 1 .. n /\ r[j + 1] = [r[j] EXCEPT !.proto = "icmp"]
    BY <1>1, <2>1, <2>2 DEF TcpThenIcmp
  <2>4. m + (j + 1) = i + 1 /\ i + 1 \in 1 .. m + n
    <3>1. m \in Nat /\ n \in Nat
      BY <1>1
    <3>2. j + 1 <= n /\ i = m + j /\ j \in 1 .. n
      BY <2>1, <2>3
    <3> HIDE DEF TcpThenIcmp
    <3> QED
      BY <3>1, <3>2
  <2> QED
    BY <1>1, <2>2, <2>3, <2>4
<1> QED
  BY <1>2, <1>3

(* How often x occurs in q; concatenation adds up.                         *)
Occurrences(q, x) == Cardinality({i \in DOMAIN q : q[i] = x})

(* The occurrences in a concatenation are those in both parts.             *)
LEMMA OccurrencesAdd ==
  ASSUME NEW S, NEW q \in Seq(S), NEW r \in Seq(S), NEW x
  PROVE  /\ Occurrences(q, x) \in Nat
         /\ Occurrences(q \o r, x) = Occurrences(q, x) + Occurrences(r, x)
<1> DEFINE m == Len(q)
           n == Len(r)
           s == q \o r
           Q == {i \in 1 .. m : q[i] = x}
           R == {i \in 1 .. n : r[i] = x}
           R2 == {i \in m + 1 .. m + n : s[i] = x}
           f == [i \in R |-> m + i]
<1>1. /\ m \in Nat /\ n \in Nat /\ DOMAIN q = 1 .. m /\ DOMAIN r = 1 .. n
      /\ DOMAIN s = 1 .. m + n
      /\ \A i \in 1 .. m : s[i] = q[i]
      /\ \A i \in 1 .. n : s[m + i] = r[i]
  OBVIOUS
<1>2. IsFiniteSet(Q) /\ IsFiniteSet(R)
  <2>1. IsFiniteSet(1 .. m) /\ IsFiniteSet(1 .. n)
    BY <1>1, FS_Interval
  <2>2. Q \in SUBSET (1 .. m) /\ R \in SUBSET (1 .. n)
    OBVIOUS
  <2> HIDE DEF Q, R
  <2> QED
    BY <2>1, <2>2, FS_Subset
<1>3. {i \in DOMAIN s : s[i] = x} = Q \cup R2 /\ Q \cap R2 = {}
  BY <1>1
<1>4. ExistsBijection(R, R2)
  <2>1. f \in Injection(R, R2)
    BY <1>1 DEF Injection, IsInjective
  <2>2. ASSUME NEW i \in R2 PROVE \E j \in R : f[j] = i
    <3>1. i - m \in 1 .. n /\ m + (i - m) = i
      BY <1>1
    <3>2. i - m \in R /\ f[i - m] = i
      BY <1>1, <3>1
    <3> QED
      BY <3>2
  <2> HIDE DEF f
  <2>3. f \in Surjection(R, R2)
    BY <2>1, <2>2 DEF Surjection, Injection
  <2> QED
    BY <2>1, <2>3 DEF ExistsBijection, Bijection
<1>5. IsFiniteSet(R2) /\ Cardinality(R2) = Cardinality(R)
  <2> HIDE DEF R, R2
  <2> QED
    BY <1>2, <1>4, FS_Bijection
<1> HIDE DEF Q, R, R2
<1>6. Cardinality(Q \cup R2) = Cardinality(Q) + Cardinality(R2)
  <2>1. Cardinality(Q \cap R2) = 0
    BY <1>3, FS_EmptySet
  <2>2. Cardinality(Q) \in Nat /\ Cardinality(R2) \in Nat
    BY <1>2, <1>5, FS_CardinalityType
  <2> QED
    <3>1. Cardinality(Q \cup R2) =
            Cardinality(Q) + Cardinality(R2) - Cardinality(Q \cap R2)
      BY <1>2, <1>5, FS_Union
    <3> QED
      BY <2>1, <2>2, <3>1
<1>7. Cardinality(Q) \in Nat
  BY <1>2, FS_CardinalityType
<1> QED
  BY <1>1, <1>3, <1>5, <1>6, <1>7 DEF Occurrences, Q, R

(* The probes of one address.                                              *)
Probes(name, f, a) ==
  IF a = None THEN {}
  ELSE {[name |-> name, family |-> f, dst |-> a, proto |-> p] :
          p \in {"tcp_synack", "icmp"}}

(* The two probes of an address are there once each, TCP first, and        *)
(* nothing else is.                                                        *)
LEMMA BothMean ==
  ASSUME NEW name \in STRING, NEW f \in Families, NEW a \in STRING \cup {None}, NEW x
  PROVE  /\ Both(name, f, a) \in Seq(Pair)
         /\ TcpThenIcmp(Both(name, f, a))
         /\ Occurrences(Both(name, f, a), x) = IF x \in Probes(name, f, a) THEN 1 ELSE 0
<1> DEFINE q == Both(name, f, a)
           tcp  == [name |-> name, family |-> f, dst |-> a, proto |-> "tcp_synack"]
           icmp == [name |-> name, family |-> f, dst |-> a, proto |-> "icmp"]
           here == {i \in DOMAIN q : q[i] = x}
<1>1. CASE a = None
  <2>1. q = << >> /\ Probes(name, f, a) = {}
    BY <1>1 DEF Both, Probes
  <2>2. here = {} /\ q \in Seq(Pair) /\ TcpThenIcmp(q)
    BY <2>1 DEF TcpThenIcmp
  <2> QED
    BY <2>1, <2>2, FS_EmptySet DEF Occurrences
<1>2. CASE a # None
  <2>1. q = <<tcp, icmp>> /\ Probes(name, f, a) = {tcp, icmp}
    BY <1>2 DEF Both, Probes
  <2>2. /\ tcp \in Pair /\ icmp \in Pair /\ tcp # icmp
        /\ icmp = [tcp EXCEPT !.proto = "icmp"]
        /\ tcp.proto = "tcp_synack" /\ icmp.proto = "icmp"
    BY <1>2 DEF Pair
  <2> HIDE DEF tcp, icmp, q
  <2>3. q \in Seq(Pair) /\ DOMAIN q = {1, 2} /\ q[1] = tcp /\ q[2] = icmp
    BY <2>1, <2>2
  <2>4. TcpThenIcmp(q)
    <3>1. q[1].proto = "tcp_synack" /\ q[2].proto = "icmp"
      BY <2>2, <2>3
    <3>2. q[1 + 1] = [q[1] EXCEPT !.proto = "icmp"] /\ 1 + 1 \in DOMAIN q
      BY <2>2, <2>3
    <3>3. \A i \in DOMAIN q : q[i].proto = "tcp_synack" => i = 1
      BY <2>3, <3>1
    <3> HIDE DEF here
    <3> QED
      BY <3>2, <3>3 DEF TcpThenIcmp
  <2>5. /\ x = tcp => here = {1}
        /\ x = icmp => here = {2}
        /\ x \notin {tcp, icmp} => here = {}
    BY <2>2, <2>3
  <2>6. Cardinality(here) = IF x \in {tcp, icmp} THEN 1 ELSE 0
    <3> HIDE DEF here
    <3>1. Cardinality({1}) = 1 /\ Cardinality({2}) = 1 /\ Cardinality({}) = 0
      BY FS_Singleton, FS_EmptySet
    <3> QED
      BY <2>5, <3>1
  <2> QED
    BY <2>1, <2>3, <2>4, <2>6 DEF Occurrences, q
<1> QED
  BY <1>1, <1>2

(* What a well-formed --target is expanded into.                           *)
LEMMA PairsOfMean ==
  ASSUME NEW spec \in TargetSpec, WellFormed(spec), NEW x
  PROVE  /\ TcpThenIcmp(PairsOf(spec))
         /\ Occurrences(PairsOf(spec), x) = IF x \in AskedBy(spec) THEN 1 ELSE 0
<1> DEFINE a(f) == Addresses(spec)[f]
           q == Both(spec.name, "v4", a("v4"))
           r == Both(spec.name, "v6", a("v6"))
<1>1. /\ Families = {"v4", "v6"} /\ spec.name \in STRING
      /\ \A f \in Families : a(f) \in STRING \cup {None}
  BY AddressesMean DEF Acc, Families, TargetSpec
<1>2. /\ Addresses(spec).ok
      /\ \A f \in Families :
           /\ a(f) = None <=> Naming(spec, f) = {}
           /\ \A i \in Naming(spec, f) : a(f) = spec.parts[i].addr
  BY AddressesMean, ParsesIff DEF Parses
<1>3. ASSUME NEW f \in Families
      PROVE  Probes(spec.name, f, a(f)) =
               {[name |-> spec.name, family |-> spec.parts[i].kind,
                 dst |-> spec.parts[i].addr, proto |-> p] :
                   i \in Naming(spec, f), p \in {"tcp_synack", "icmp"}}
  <2>1. \A i \in Naming(spec, f) : spec.parts[i].kind = f /\ spec.parts[i].addr = a(f)
    BY <1>2 DEF Naming
  <2>2. a(f) = None <=> Naming(spec, f) = {}
    BY <1>2
  <2> HIDE DEF a
  <2> QED
    BY <2>1, <2>2 DEF Probes
<1>4. AskedBy(spec) = Probes(spec.name, "v4", a("v4")) \cup Probes(spec.name, "v6", a("v6"))
  <2> HIDE DEF a
  <2> QED
    BY <1>1, <1>3 DEF AskedBy
<1>5. Probes(spec.name, "v4", a("v4")) \cap Probes(spec.name, "v6", a("v6")) = {}
  BY DEF Probes
<1> HIDE DEF a
<1>6. /\ q \in Seq(Pair) /\ TcpThenIcmp(q)
      /\ Occurrences(q, x) = IF x \in Probes(spec.name, "v4", a("v4")) THEN 1 ELSE 0
      /\ r \in Seq(Pair) /\ TcpThenIcmp(r)
      /\ Occurrences(r, x) = IF x \in Probes(spec.name, "v6", a("v6")) THEN 1 ELSE 0
  BY <1>1, BothMean
<1>7. PairsOf(spec) = q \o r
  BY PairsOfIs DEF a
<1> HIDE DEF q, r
<1>8. TcpThenIcmp(q \o r) /\ Occurrences(q \o r, x) = Occurrences(q, x) + Occurrences(r, x)
  <2>1. TcpThenIcmp(q \o r)
    BY <1>6, ThenConcat
  <2>2. Occurrences(q \o r, x) = Occurrences(q, x) + Occurrences(r, x)
    <3>1. q \in Seq(Pair) /\ r \in Seq(Pair)
      BY <1>6
    <3> QED
      BY <3>1, OccurrencesAdd
  <2> QED
    BY <2>1, <2>2
<1> QED
  BY <1>4, <1>5, <1>6, <1>7, <1>8

(* What all the targets are expanded into.                                 *)
LEMMA PairsMean ==
  ASSUME NEW specs \in Seq(TargetSpec), \A t \in DOMAIN specs : WellFormed(specs[t]), NEW x
  PROVE  /\ TcpThenIcmp(Pairs(specs))
         /\ Occurrences(Pairs(specs), x) =
              Cardinality({t \in DOMAIN specs : x \in AskedBy(specs[t])})
<1> DEFINE n == Len(specs)
           seqs == [i \in DOMAIN specs |-> PairsOf(specs[i])]
           asked(k) == {t \in 1 .. k : x \in AskedBy(specs[t])}
<1>1. /\ n \in Nat /\ DOMAIN specs = 1 .. n
      /\ \A t \in 1 .. n : specs[t] \in TargetSpec /\ WellFormed(specs[t])
  OBVIOUS
<1>2. /\ seqs \in Seq(Seq(Pair)) /\ Len(seqs) = n
      /\ \A t \in 1 .. n : seqs[t] = PairsOf(specs[t])
  <2> DEFINE S == Seq(Pair)
  <2>1. \A t \in 1 .. n : PairsOf(specs[t]) \in S
    BY <1>1, PairsOfType
  <2>2. seqs = [i \in 1 .. n |-> PairsOf(specs[i])]
    BY <1>1
  <2> HIDE DEF n, S
  <2>3. [i \in 1 .. n |-> PairsOf(specs[i])] \in Seq(S)
        /\ Len([i \in 1 .. n |-> PairsOf(specs[i])]) = n
    BY <1>1, <2>1
  <2> QED
    BY <1>1, <2>2, <2>3 DEF S
<1> HIDE DEF seqs
<1>3. PICK h \in [0 .. n -> Seq(Pair)] :
        /\ h[0] = << >>
        /\ \A k \in 1 .. n : h[k] = h[k - 1] \o seqs[k]
        /\ FlattenSeq(seqs) = h[n]
  <2>1. \E h \in [0 .. Len(seqs) -> Seq(Pair)] :
           /\ h[0] = << >>
           /\ \A k \in 1 .. Len(seqs) : h[k] = h[k - 1] \o seqs[k]
           /\ FlattenSeq(seqs) = h[Len(seqs)]
    BY <1>2, FlattenValues
  <2>2. Len(seqs) = n
    BY <1>2
  <2> HIDE DEF n
  <2> QED
    BY <2>1, <2>2
<1> DEFINE T == {k \in 0 .. n : /\ TcpThenIcmp(h[k])
                                /\ Occurrences(h[k], x) = Cardinality(asked(k))}
<1>4. 0 \in T
  <2>1. DOMAIN h[0] = {} /\ asked(0) = {}
    BY <1>3
  <2>2. {i \in DOMAIN h[0] : h[0][i] = x} = {}
    BY <2>1
  <2>3. Occurrences(h[0], x) = 0
    BY <2>2, FS_EmptySet DEF Occurrences
  <2>4. Cardinality(asked(0)) = 0
    BY <2>1, FS_EmptySet
  <2> QED
    BY <1>1, <2>1, <2>3, <2>4 DEF TcpThenIcmp
<1>5. ASSUME NEW k \in 0 .. n - 1, k \in T PROVE k + 1 \in T
  <2>1. k + 1 \in 1 .. n /\ (k + 1) - 1 = k /\ h[k] \in Seq(Pair) /\ k \in Nat
    BY <1>1
  <2> DEFINE r == PairsOf(specs[k + 1])
  <2>2. /\ r \in Seq(Pair) /\ TcpThenIcmp(r)
        /\ Occurrences(r, x) = IF x \in AskedBy(specs[k + 1]) THEN 1 ELSE 0
    BY <1>1, <2>1, PairsOfType, PairsOfMean
  <2>3. h[k + 1] = h[k] \o r
    BY <1>2, <1>3, <2>1
  <2> HIDE DEF r
  <2>4. /\ TcpThenIcmp(h[k + 1])
        /\ Occurrences(h[k + 1], x) = Occurrences(h[k], x) + Occurrences(r, x)
        /\ Occurrences(h[k], x) \in Nat
    BY <1>5, <2>1, <2>2, <2>3, ThenConcat, OccurrencesAdd
  <2>5. /\ asked(k + 1) = asked(k) \cup (IF x \in AskedBy(specs[k + 1]) THEN {k + 1} ELSE {})
        /\ k + 1 \notin asked(k)
    BY <2>1
  <2>6. IsFiniteSet(asked(k))
    <3>1. IsFiniteSet(1 .. k)
      BY <2>1, FS_Interval
    <3> QED
      BY <3>1, FS_Subset
  <2> HIDE DEF asked
  <2>7. Cardinality(asked(k + 1)) =
          Cardinality(asked(k)) + (IF x \in AskedBy(specs[k + 1]) THEN 1 ELSE 0)
    <3>1. Cardinality(asked(k) \cup {k + 1}) = Cardinality(asked(k)) + 1
      BY <2>5, <2>6, FS_AddElement
    <3>2. Cardinality(asked(k)) \in Nat
      BY <2>6, FS_CardinalityType
    <3>3. CASE x \in AskedBy(specs[k + 1])
      BY <2>5, <3>1, <3>3
    <3>4. CASE x \notin AskedBy(specs[k + 1])
      <4>1. asked(k + 1) = asked(k)
        BY <2>5, <3>4
      <4> QED
        BY <3>2, <3>4, <4>1
    <3> QED
      BY <3>3, <3>4
  <2>8. Occurrences(h[k], x) = Cardinality(asked(k))
    BY <1>5
  <2> QED
    BY <1>1, <2>1, <2>2, <2>4, <2>7, <2>8
<1>6. n \in T
  <2> HIDE DEF T, n
  <2>1. \A k \in 0 .. n : k \in T
    BY <1>1, <1>4, <1>5, UpTo
  <2> QED
    BY <1>1, <2>1
<1>7. Pairs(specs) = h[n]
  BY <1>3 DEF Pairs, seqs
<1>8. asked(n) = {t \in DOMAIN specs : x \in AskedBy(specs[t])}
  BY <1>1
<1> QED
  BY <1>6, <1>7, <1>8

(* So a pair is probed only when it was asked for.                         *)
LEMMA OnlyAsked ==
  ASSUME NEW specs \in Seq(TargetSpec), \A t \in DOMAIN specs : WellFormed(specs[t]),
         NEW x \in Range(Pairs(specs))
  PROVE  \E t \in DOMAIN specs : Naming(specs[t], x.family) # {}
<1> DEFINE q == Pairs(specs)
           here == {i \in DOMAIN q : q[i] = x}
           asked == {t \in DOMAIN specs : x \in AskedBy(specs[t])}
<1>1. Cardinality(here) = Cardinality(asked)
  BY PairsMean DEF Occurrences
<1>2. q \in Seq(Pair)
  BY PairsType
<1>3. PICK i \in DOMAIN q : q[i] = x
  BY DEF Range
<1>4. here # {} /\ IsFiniteSet(here)
  <2>1. PICK n \in Nat : DOMAIN q = 1 .. n
    BY <1>2
  <2>2. IsFiniteSet(1 .. n)
    BY FS_Interval
  <2>3. here \in SUBSET (1 .. n)
    BY <2>1
  <2>4. here # {}
    BY <1>3
  <2> HIDE DEF here
  <2> QED
    BY <2>2, <2>3, <2>4, FS_Subset
<1>5. asked # {}
  <2> HIDE DEF here, asked
  <2> QED
    BY <1>1, <1>4, FS_EmptySet
<1>6. PICK t \in DOMAIN specs : x \in AskedBy(specs[t])
  BY <1>5
<1>7. PICK j \in Naming(specs[t], "v4") \cup Naming(specs[t], "v6") :
        x.family = specs[t].parts[j].kind
  BY <1>6 DEF AskedBy
<1> QED
  BY <1>7 DEF Naming

-----------------------------------------------------------------------------
(* The pairs are the expansion of an accepted command line.                *)
Expanded ==
  /\ at = "refused" => ~Accepted
  /\ at \notin {"args", "refused"} => Accepted /\ pairs = Pairs(args.targets)

(* The tallies of a round are filled in the order of the pairs: those      *)
(* before idx count the round under way, the others do not yet.            *)
Filled ==
  /\ at \in {"loop", "wait"} /\ ~stop => \A i \in 1 .. Len(pairs) : tried[i] = Len(starts)
  /\ at = "burst" /\ ~stop =>
       /\ Len(starts) >= 1
       /\ \A i \in 1 .. Len(pairs) :
            tried[i] = IF i < idx THEN Len(starts) ELSE Len(starts) - 1

NothingYet == at \in {"args", "refused"} => pairs = << >> /\ idx = 1

Sampled == TypeOK /\ NothingYet /\ Expanded /\ Filled

(* What a step that leaves the expansion alone has to keep.                *)
Tallies ==
  /\ end \in Nat \cup {None}
  /\ stop \in BOOLEAN
  /\ idx \in 1 .. Len(pairs) + 1
  /\ tried \in Seq(Nat) /\ Len(tried) = Len(pairs)

(* The type invariant is the types of the timer, those of the round, and   *)
(* the pairs.                                                              *)
LEMMA TypeParts ==
  /\ TypeOK <=> Typed /\ Tallies /\ pairs \in Seq(Pair)
  /\ TypeOK' <=> Typed' /\ Tallies' /\ pairs' \in Seq(Pair)
BY DEF TypeOK, Typed, Tallies

(* Before the arguments are read there is nothing to probe.                *)
LEMMA SampledInit == Init => Sampled
<1> SUFFICES ASSUME Init PROVE Sampled
  OBVIOUS
<1>1. /\ pairs = << >> /\ tried = << >> /\ idx = 1 /\ at = "args"
      /\ Len(pairs) = 0 /\ pairs \in Seq(Pair)
  BY DEF Init
<1>2. Typed
  BY TimerInit DEF TimerInv
<1>3. Tallies
  <2>1. tried \in Seq(Nat) /\ Len(tried) = 0
    BY <1>1
  <2>2. stop \in BOOLEAN /\ end \in Nat \cup {None}
    BY DEF Init
  <2>3. idx \in 1 .. Len(pairs) + 1
    BY <1>1
  <2> QED
    BY <1>1, <2>1, <2>2, <2>3 DEF Tallies
<1> QED
  BY <1>1, <1>2, <1>3, TypeParts DEF Sampled, NothingYet, Expanded, Filled

(* The daemon starts with the expansion of its targets and empty tallies.  *)
LEMMA BeginSamples == ASSUME TimerInv, Sampled, Begin PROVE Sampled'
<1>1. args \in CommandLine /\ args.targets \in Seq(TargetSpec) /\ args.durationMs \in Int
  BY SamplingAssumption DEF TimerInv, Typed, CommandLine
<1>2. /\ at = "args" /\ at' = "loop" /\ Accepted /\ Accepted'
      /\ pairs' = Pairs(args.targets) /\ args' = args
      /\ tried' = [i \in DOMAIN pairs' |-> 0]
      /\ idx' = idx /\ starts' = starts /\ stop' = stop /\ clock' = clock
  BY DEF Begin, Accepted
<1>3. pairs' \in Seq(Pair)
  BY <1>1, <1>2, PairsType
<1>4. idx = 1 /\ Len(starts) = 0 /\ clock \in Nat
  BY <1>2 DEF Sampled, NothingYet, TimerInv, Fresh, Typed
<1>5. /\ Len(pairs') \in Nat /\ tried' \in Seq(Nat) /\ Len(tried') = Len(pairs')
      /\ \A i \in 1 .. Len(pairs') : tried'[i] = 0
  <2> DEFINE n == Len(pairs')
  <2>1. n \in Nat /\ DOMAIN pairs' = 1 .. n
    BY <1>3
  <2>2. tried' = [i \in 1 .. n |-> 0]
    BY <1>2, <2>1
  <2> HIDE DEF n
  <2>3. tried' \in Seq(Nat) /\ Len(tried') = n /\ \A i \in 1 .. n : tried'[i] = 0
    BY <2>1, <2>2
  <2> QED
    BY <2>1, <2>3 DEF n
<1>6. Tallies'
  <2>1. stop \in BOOLEAN
    BY DEF Sampled, TypeOK
  <2>2. end' \in Nat \cup {None}
    BY <1>1, <1>4 DEF Begin
  <2> QED
    BY <1>2, <1>4, <1>5, <2>1, <2>2 DEF Tallies
<1>7. Typed'
  BY TimerStep DEF Next, Sender, TimerInv
<1>8. NothingYet' /\ Expanded' /\ Filled'
  BY <1>2, <1>4, <1>5 DEF NothingYet, Expanded, Filled
<1> QED
  BY <1>3, <1>6, <1>7, <1>8, TypeParts DEF Sampled

(* One more probe is tried, whether or not its send succeeds.              *)
LEMMA FireSamples == ASSUME TimerInv, Sampled, Fire PROVE Sampled'
<1> DEFINE n == Len(pairs)
<1>1. /\ at = "burst" /\ at' = at /\ stop' = stop /\ ~stop /\ pairs' = pairs
      /\ starts' = starts /\ args' = args /\ end' = end
      /\ idx <= n /\ idx' = idx + 1 /\ tried' = [tried EXCEPT ![idx] = @ + 1]
  BY DEF Fire, AfterError
<1>2. Tallies /\ n \in Nat /\ Len(starts) \in Nat /\ pairs \in Seq(Pair)
  BY TypeParts DEF Sampled, TypeOK
<1>3. /\ Len(starts) >= 1
      /\ \A i \in 1 .. n : tried[i] = IF i < idx THEN Len(starts) ELSE Len(starts) - 1
  BY <1>1 DEF Sampled, Filled
<1>4. idx \in 1 .. n /\ DOMAIN tried = 1 .. n /\ tried \in Seq(Nat) /\ tried[idx] \in Nat
  BY <1>1, <1>2 DEF Tallies
<1>5. /\ tried' \in Seq(Nat) /\ Len(tried') = n
      /\ \A i \in 1 .. n : tried'[i] = IF i = idx THEN tried[i] + 1 ELSE tried[i]
  BY <1>1, <1>4
<1>6. Tallies'
  BY <1>1, <1>2, <1>4, <1>5 DEF Tallies
<1>7. Filled'
  <2>1. ASSUME NEW i \in 1 .. n
        PROVE  tried'[i] = IF i < idx' THEN Len(starts) ELSE Len(starts) - 1
    <3>1. tried'[i] = IF i = idx THEN tried[i] + 1 ELSE tried[i]
      BY <1>5
    <3>2. tried[i] = IF i < idx THEN Len(starts) ELSE Len(starts) - 1
      BY <1>3
    <3> QED
      BY <1>1, <1>2, <1>4, <3>1, <3>2
  <2> QED
    BY <1>1, <1>3, <2>1 DEF Filled
<1>8. Typed'
  BY TimerStep DEF Next, Sender, TimerInv
<1>9. NothingYet' /\ Expanded'
  BY <1>1 DEF Sampled, NothingYet, Expanded, Accepted
<1> QED
  BY <1>1, <1>2, <1>6, <1>7, <1>8, <1>9, TypeParts DEF Sampled

(* A round begins with the first pair and ends when none is left.          *)
LEMMA RoundSamples ==
  ASSUME TimerInv, Sampled, RoundStarts \/ RoundEnds PROVE Sampled'
<1>1. Tallies /\ Len(pairs) \in Nat /\ starts \in Seq(Nat) /\ pairs \in Seq(Pair)
  BY TypeParts DEF Sampled, TypeOK
<1>2. Typed'
  BY TimerStep DEF Next, Sender, TimerInv
<1>3. /\ UNCHANGED <<args, pairs, end, stop, tried>>
      /\ at \in {"loop", "burst"} /\ at' \in {"burst", "wait"}
  BY DEF RoundStarts, RoundEnds
<1>4. NothingYet' /\ Expanded' /\ Tallies'
  BY <1>1, <1>3 DEF Sampled, NothingYet, Expanded, Accepted, Tallies, RoundStarts, RoundEnds
<1>5. Filled'
  <2>1. CASE RoundStarts
    <3>1. Len(starts') = Len(starts) + 1 /\ Len(starts) \in Nat
      BY <1>1, <2>1 DEF RoundStarts
    <3>2. \A i \in 1 .. Len(pairs) : tried[i] = Len(starts)
      BY <2>1 DEF RoundStarts, Sampled, Filled
    <3> QED
      BY <2>1, <3>1, <3>2 DEF RoundStarts, Filled
  <2>2. CASE RoundEnds
    <3>1. ASSUME ~stop PROVE \A i \in 1 .. Len(pairs) : tried[i] = Len(starts)
      <4>1. \A i \in 1 .. Len(pairs) : i < idx
        BY <1>1, <2>2, <3>1 DEF RoundEnds, Tallies
      <4> QED
        BY <2>2, <3>1, <4>1 DEF RoundEnds, Sampled, Filled
    <3> QED
      BY <2>2, <3>1 DEF RoundEnds, Filled
  <2> QED
    BY <2>1, <2>2
<1> QED
  BY <1>1, <1>2, <1>3, <1>4, <1>5, TypeParts DEF Sampled

(* The other steps leave the pairs and their tallies alone.                *)
LEMMA OthersSample ==
  ASSUME TimerInv, Sampled,
         \/ Refuse \/ LoopEnds \/ WaitTimesOut \/ WaitIsWoken
         \/ Shutdown \/ Tick \/ Over \/ UNCHANGED vars
  PROVE  Sampled'
<1>1. Typed'
  BY TimerStep DEF Next, Sender, TimerInv
<1>2. /\ UNCHANGED <<args, pairs, end, idx, starts, tried>>
      /\ stop' \in BOOLEAN /\ (stop => stop')
      /\ \/ at' = at
         \/ at = "args" /\ at' = "refused" /\ ~Accepted
         \/ at = "wait" /\ at' = "loop"
         \/ at \in {"loop", "wait"} /\ at' = "done"
  BY DEF Refuse, LoopEnds, WaitTimesOut, WaitIsWoken, Shutdown, Tick, Over, vars,
         Sampled, TypeOK
<1>3. Tallies' /\ pairs' \in Seq(Pair)
  BY <1>2, TypeParts DEF Sampled, Tallies
<1>4. NothingYet' /\ Expanded'
  BY <1>2 DEF Sampled, NothingYet, Expanded, Accepted
<1>5. Filled'
  BY <1>2 DEF Sampled, Filled
<1> QED
  BY <1>1, <1>3, <1>4, <1>5, TypeParts DEF Sampled

(* Every step keeps what a round has tried so far in line with the pairs.  *)
LEMMA SampledStep == TimerInv /\ Sampled /\ [Next]_vars => Sampled'
BY BeginSamples, FireSamples, RoundSamples, OthersSample DEF Next, Sender

(* So it always holds.                                                     *)
LEMMA SampledAlways == Spec => []Sampled
BY TimerAlways, SampledInit, SampledStep, PTL DEF Spec

(* Every variable of the sender keeps to its type: the position of _tick   *)
(* stays within the pairs, and the pairs are probes.                       *)
THEOREM SamplingTypeCorrect == Spec => []TypeOK
<1>1. Sampled => TypeOK
  BY DEF Sampled
<1> QED
  BY <1>1, SampledAlways, PTL

(* Whichever sends fail, between the rounds every pair has been tried      *)
(* exactly once for each round (_tick, _fire_one).                         *)
THEOREM OneSamplePerRound == Spec => []EachPairOncePerRound
<1>1. Sampled => EachPairOncePerRound
  <2> SUFFICES ASSUME Sampled PROVE EachPairOncePerRound
    OBVIOUS
  <2>1. DOMAIN pairs = 1 .. Len(pairs)
    BY DEF Sampled, TypeOK
  <2> QED
    BY <2>1 DEF Sampled, Filled, EachPairOncePerRound
<1> QED
  BY <1>1, SampledAlways, PTL

(* A daemon that runs was given well-formed targets only and probes each   *)
(* address as often as it was named, with TCP and then ICMP; one that      *)
(* refuses has a reason (parse_target, main, __init__).                    *)
THEOREM TargetsAreProbed == Spec => []ProbesWhatWasAsked
<1>1. Sampled => ProbesWhatWasAsked
  <2> SUFFICES ASSUME Sampled PROVE ProbesWhatWasAsked
    OBVIOUS
  <2> DEFINE specs == args.targets
  <2>1. /\ specs \in Seq(TargetSpec) /\ args.root \in BOOLEAN
        /\ args.sport \in {"probe", "other"}
        /\ \A t \in DOMAIN specs : specs[t] \in TargetSpec
    BY SamplingAssumption DEF Sampled, TypeOK, CommandLine
  <2>2. \A t \in DOMAIN specs : Parses(specs[t]) <=> WellFormed(specs[t])
    BY <2>1, ParsesIff
  <2>3. CASE at = "args"
    BY <2>3 DEF ProbesWhatWasAsked
  <2>4. CASE at = "refused"
    <3>1. ~Accepted
      BY <2>4 DEF Sampled, Expanded
    <3>2. CASE \E t \in DOMAIN specs : ~WellFormed(specs[t])
      BY <2>4, <3>2 DEF ProbesWhatWasAsked
    <3>3. CASE specs = << >> \/ ~args.root \/ args.sport = "other"
      BY <2>4, <3>3 DEF ProbesWhatWasAsked
    <3>4. CASE /\ \A t \in DOMAIN specs : WellFormed(specs[t])
               /\ ~(specs = << >> \/ ~args.root \/ args.sport = "other")
      <4>1. PICK x \in Range(Pairs(specs)) : x.family \notin args.routes
        BY <2>1, <2>2, <3>1, <3>4 DEF Accepted
      <4>2. PICK t \in DOMAIN specs : Naming(specs[t], x.family) # {}
        BY <2>1, <3>4, OnlyAsked
      <4>3. x.family \in Families
        <5>1. Pairs(specs) \in Seq(Pair)
          BY <2>1, PairsType
        <5>2. x \in Pair
          BY <5>1 DEF Range
        <5> QED
          BY <5>2 DEF Pair
      <4> QED
        BY <2>4, <4>1, <4>2, <4>3 DEF ProbesWhatWasAsked
    <3> QED
      BY <3>2, <3>3, <3>4
  <2>5. CASE at \notin {"args", "refused"}
    <3>1. Accepted /\ pairs = Pairs(specs)
      BY <2>5 DEF Sampled, Expanded
    <3>2. \A t \in DOMAIN specs : WellFormed(specs[t])
      BY <2>2, <3>1 DEF Accepted
    <3>3. TcpThenIcmp(pairs) /\ \A x :
            Cardinality({i \in DOMAIN pairs : pairs[i] = x}) =
              Cardinality({t \in DOMAIN specs : x \in AskedBy(specs[t])})
      <4>1. ASSUME NEW x
            PROVE  TcpThenIcmp(pairs) /\ Occurrences(pairs, x) =
                     Cardinality({t \in DOMAIN specs : x \in AskedBy(specs[t])})
        BY <2>1, <3>1, <3>2, PairsMean
      <4> QED
        BY <4>1 DEF Occurrences
    <3> QED
      BY <2>5, <3>2, <3>3 DEF ProbesWhatWasAsked, TcpThenIcmp
  <2> QED
    BY <2>3, <2>4, <2>5
<1> QED
  BY <1>1, SampledAlways, PTL

=============================================================================
