------------------------------- MODULE XdpPathProofs -------------------------------
(***************************************************************************)
(* Proofs about the way of a reply, for any frames, any ring and any       *)
(* number of arrivals: every frame taken off the network has its event and *)
(* at most one row, replies to the probes are taken whenever the ring has  *)
(* room, and other traffic is left to the host.                            *)
(***************************************************************************)
EXTENDS XdpPath, FoldLemmas

Events == {EventOf(f) : f \in Frames}

Typed ==
  /\ dropped \in Seq(Frames)
  /\ ring \in Seq(Events)
  /\ handled \in Seq(Events)
  /\ rows \in Seq(Probes)
  /\ matched \subseteq Probes

(* The frames dropped first are those the callback was given, the rest are *)
(* in the ring, each at its place.                                         *)
InOrder ==
  /\ Len(dropped) = Len(handled) + Len(ring)
  /\ \A i \in 1 .. Len(handled) : handled[i] = EventOf(dropped[i])
  /\ \A i \in 1 .. Len(ring) : ring[i] = EventOf(dropped[Len(handled) + i])

(* A row is for a matched probe and for an event the callback was given.   *)
RowsAnswered ==
  \A i \in 1 .. Len(rows) :
    /\ rows[i] \in matched
    /\ \E j \in 1 .. Len(handled) : handled[j].key = rows[i]

XdpInv == Typed /\ InOrder /\ RowsAnswered /\ OneRowPerProbe

-----------------------------------------------------------------------------
(* Before the program is attached there is nothing.                        *)
LEMMA InitXdpInv == Init => XdpInv
BY DEF Init, XdpInv, Typed, InOrder, RowsAnswered, OneRowPerProbe

(* A frame that is caught goes to the end of both queues.                  *)
LEMMA CatchKeepsInv ==
  ASSUME XdpInv, NEW f \in Frames, Catch(f), UNCHANGED <<handled, matched, rows>>
  PROVE  XdpInv'
<1> USE DEF XdpInv
<1>1. EventOf(f) \in Events
  BY DEF Events
<1>2. ring' = Append(ring, EventOf(f)) /\ dropped' = Append(dropped, f)
  BY DEF Catch, Submit, HasRoom
<1>3. Typed'
  BY <1>1, <1>2 DEF Typed
<1>4. InOrder'
  <2>1. /\ Len(ring') = Len(ring) + 1 /\ Len(dropped') = Len(dropped) + 1
        /\ Len(ring) \in Nat /\ Len(dropped) \in Nat /\ Len(handled) \in Nat
    BY <1>1, <1>2 DEF Typed
  <2>2. /\ \A i \in 1 .. Len(dropped) : dropped'[i] = dropped[i]
        /\ dropped'[Len(dropped) + 1] = f
    BY <1>2 DEF Typed
  <2>3. /\ \A i \in 1 .. Len(ring) : ring'[i] = ring[i]
        /\ ring'[Len(ring) + 1] = EventOf(f)
    BY <1>1, <1>2 DEF Typed
  <2>4. \A i \in 1 .. Len(handled) : handled'[i] = EventOf(dropped'[i])
    BY <2>1, <2>2 DEF InOrder
  <2>5. ASSUME NEW i \in 1 .. Len(ring')
        PROVE  ring'[i] = EventOf(dropped'[Len(handled) + i])
    <3>1. CASE i \in 1 .. Len(ring)
      <4>1. Len(dropped) = Len(handled) + Len(ring)
        BY DEF InOrder
      <4>2. Len(handled) + i \in 1 .. Len(dropped)
        BY <2>1, <3>1, <4>1
      <4>3. dropped'[Len(handled) + i] = dropped[Len(handled) + i]
        BY <2>2, <4>2
      <4>4. ring[i] = EventOf(dropped[Len(handled) + i])
        BY <3>1 DEF InOrder
      <4>. QED
        BY <2>3, <3>1, <4>3, <4>4
    <3>2. CASE i = Len(ring) + 1
      BY <3>2, <2>1, <2>2, <2>3 DEF InOrder
    <3>. QED
      BY <2>1, <3>1, <3>2
  <2>. QED
    BY <2>1, <2>4, <2>5 DEF InOrder
<1>. QED
  BY <1>3, <1>4 DEF RowsAnswered, OneRowPerProbe

(* The callback takes the first event of the ring to the end of those      *)
(* handled, and adds a row only for a probe that had none.                 *)
LEMMA OnEventKeepsInv == ASSUME XdpInv, OnEvent PROVE XdpInv'
<1> USE DEF XdpInv
<1> DEFINE e == Head(ring)
<1>1. /\ ring # << >> /\ ring' = Tail(ring) /\ handled' = Append(handled, e)
      /\ dropped' = dropped
  BY DEF OnEvent
<1>2. e \in Events /\ e = ring[1]
  BY <1>1 DEF Typed
<1>3. /\ Len(ring) \in Nat /\ Len(ring) > 0 /\ Len(ring') = Len(ring) - 1
      /\ Len(handled) \in Nat /\ Len(handled') = Len(handled) + 1
      /\ \A i \in 1 .. Len(ring') : ring'[i] = ring[i + 1]
  BY <1>1, <1>2 DEF Typed
<1>4. /\ \A i \in 1 .. Len(handled) : handled'[i] = handled[i]
      /\ handled'[Len(handled) + 1] = e
  BY <1>1, <1>2 DEF Typed
<1>5. ring' \in Seq(Events) /\ handled' \in Seq(Events)
  BY <1>1, <1>2 DEF Typed
<1> HIDE DEF e
<1>6. InOrder'
  <2>1. ASSUME NEW i \in 1 .. Len(handled') PROVE handled'[i] = EventOf(dropped[i])
    <3>1. CASE i \in 1 .. Len(handled)
      BY <3>1, <1>4 DEF InOrder
    <3>2. CASE i = Len(handled) + 1
      BY <3>2, <1>2, <1>3, <1>4 DEF InOrder
    <3>. QED
      BY <1>3, <3>1, <3>2
  <2>2. ASSUME NEW i \in 1 .. Len(ring')
        PROVE  ring'[i] = EventOf(dropped[Len(handled') + i])
    <3>1. i + 1 \in 1 .. Len(ring) /\ Len(handled') + i = Len(handled) + (i + 1)
      BY <1>3
    <3>2. ring[i + 1] = EventOf(dropped[Len(handled) + (i + 1)])
      BY <3>1 DEF InOrder
    <3>. QED
      BY <1>3, <3>1, <3>2
  <2>3. Len(dropped') = Len(handled') + Len(ring')
    <3>1. Len(dropped) = Len(handled) + Len(ring)
      BY DEF InOrder
    <3>2. Len(dropped') = Len(dropped)
      BY <1>1
    <3>. QED
      BY <3>1, <3>2, <1>3
  <2>4. \A i \in 1 .. Len(handled') : handled'[i] = EventOf(dropped'[i])
    BY <1>1, <2>1
  <2>5. \A i \in 1 .. Len(ring') : ring'[i] = EventOf(dropped'[Len(handled') + i])
    BY <1>1, <2>2
  <2>. QED
    BY <2>3, <2>4, <2>5 DEF InOrder
<1>7. CASE UNCHANGED <<matched, rows>>
  BY <1>1, <1>3, <1>4, <1>5, <1>6, <1>7 DEF Typed, RowsAnswered, OneRowPerProbe
<1>8. CASE ~UNCHANGED <<matched, rows>>
  <2>1. PICK k \in KeysOf(e) :
          /\ Unanswered(k)
          /\ matched' = matched \cup {k}
          /\ rows' = Append(rows, k)
    BY <1>8 DEF OnEvent, e
  <2>2. k \in Probes /\ k = e.key /\ k \notin matched
    BY <2>1 DEF KeysOf, Unanswered
  <2>3. Typed'
    BY <1>1, <1>5, <2>1, <2>2 DEF Typed
  <2>4. /\ Len(rows) \in Nat /\ Len(rows') = Len(rows) + 1
        /\ \A i \in 1 .. Len(rows) : rows'[i] = rows[i]
        /\ rows'[Len(rows) + 1] = k
        /\ DOMAIN rows' = 1 .. Len(rows) + 1 /\ DOMAIN rows = 1 .. Len(rows)
    BY <2>1, <2>2 DEF Typed
  <2>5. \A i \in 1 .. Len(rows) : rows[i] # k
    BY <2>2 DEF RowsAnswered
  <2>6. OneRowPerProbe'
    BY <2>4, <2>5 DEF OneRowPerProbe
  <2>7. ASSUME NEW i \in 1 .. Len(rows')
        PROVE  /\ rows'[i] \in matched'
               /\ \E j \in 1 .. Len(handled') : handled'[j].key = rows'[i]
    <3>1. CASE i \in 1 .. Len(rows)
      <4>1. PICK j \in 1 .. Len(handled) : handled[j].key = rows[i]
        BY <3>1 DEF RowsAnswered
      <4>2. j \in 1 .. Len(handled') /\ handled'[j] = handled[j]
        BY <1>3, <1>4
      <4>. QED
        BY <3>1, <4>1, <4>2, <2>1, <2>4 DEF RowsAnswered
    <3>2. CASE i = Len(rows) + 1
      <4>1. Len(handled) + 1 \in 1 .. Len(handled')
        BY <1>3
      <4>. QED
        BY <3>2, <4>1, <1>4, <2>1, <2>2, <2>4
    <3>. QED
      BY <2>4, <3>1, <3>2
  <2>. QED
    BY <1>6, <2>3, <2>6, <2>7 DEF RowsAnswered
<1>. QED
  BY <1>7, <1>8

(* XdpInv is inductive.                                                    *)
LEMMA NextXdpInv == XdpInv /\ [Next]_vars => XdpInv'
<1> SUFFICES ASSUME XdpInv, [Next]_vars PROVE XdpInv'
  OBVIOUS
<1>1. ASSUME UNCHANGED <<ring, dropped, handled, matched, rows>> PROVE XdpInv'
  BY <1>1 DEF XdpInv, Typed, InOrder, RowsAnswered, OneRowPerProbe
<1>2. CASE Arrive
  <2>1. PICK f \in Frames : Catch(f) \/ Let(f)
    BY <1>2 DEF Arrive
  <2>2. UNCHANGED <<handled, matched, rows>>
    BY <1>2 DEF Arrive
  <2>3. CASE Catch(f)
    BY <2>2, <2>3, CatchKeepsInv
  <2>4. CASE Let(f)
    BY <2>2, <2>4, <1>1 DEF Let
  <2>. QED
    BY <2>1, <2>3, <2>4
<1>3. CASE OnEvent
  BY <1>3, OnEventKeepsInv
<1>4. CASE Attach \/ OpenRing \/ FreeRing \/ Detach
  BY <1>1, <1>4 DEF Attach, OpenRing, FreeRing, Detach, Move
<1>5. CASE Over \/ UNCHANGED vars
  BY <1>1, <1>5 DEF Over, vars
<1>. QED
  BY <1>2, <1>3, <1>4, <1>5 DEF Next

-----------------------------------------------------------------------------
(* For any ring size: what the program took from the stack is, in order of *)
(* arrival, what the callback was given followed by what the ring holds.   *)
THEOREM EveryDropHasItsEvent == Spec => []NoSilentDrop
<1>1. XdpInv => NoSilentDrop
  <2> SUFFICES ASSUME XdpInv PROVE NoSilentDrop
    OBVIOUS
  <2> DEFINE both == handled \o ring
  <2>1. /\ Len(handled) \in Nat /\ Len(ring) \in Nat
        /\ Len(dropped) = Len(handled) + Len(ring)
        /\ DOMAIN dropped = 1 .. Len(dropped)
    BY DEF XdpInv, Typed, InOrder
  <2>2. /\ both \in Seq(Events) /\ Len(both) = Len(handled) + Len(ring)
        /\ \A i \in 1 .. Len(both) :
             both[i] = IF i <= Len(handled) THEN handled[i] ELSE ring[i - Len(handled)]
    BY DEF XdpInv, Typed
  <2> HIDE DEF both
  <2>3. ASSUME NEW i \in 1 .. Len(dropped) PROVE both[i] = EventOf(dropped[i])
    <3>1. CASE i <= Len(handled)
      BY <3>1, <2>1, <2>2 DEF XdpInv, InOrder
    <3>2. CASE i > Len(handled)
      <4> DEFINE j == i - Len(handled)
      <4>1. j \in 1 .. Len(ring) /\ Len(handled) + j = i /\ ~(i <= Len(handled))
        BY <3>2, <2>1
      <4>2. both[i] = ring[j]
        BY <4>1, <2>1, <2>2
      <4> HIDE DEF j
      <4>3. ring[j] = EventOf(dropped[Len(handled) + j])
        BY <4>1 DEF XdpInv, InOrder
      <4>. QED
        BY <4>1, <4>2, <4>3
    <3>. QED
      BY <2>1, <3>1, <3>2
  <2>4. both = [i \in 1 .. Len(both) |-> both[i]]
    BY <2>2
  <2>5. both = [i \in DOMAIN dropped |-> EventOf(dropped[i])]
    BY <2>1, <2>2, <2>3, <2>4
  <2>. QED
    BY <2>5 DEF NoSilentDrop, both
<1>. QED
  BY InitXdpInv, NextXdpInv, <1>1, PTL DEF Spec

(* A probe gets at most one ok row, however often its reply is repeated.   *)
THEOREM RepeatsAddNoRow == Spec => []OneRowPerProbe
<1>1. XdpInv => OneRowPerProbe
  BY DEF XdpInv
<1>. QED
  BY InitXdpInv, NextXdpInv, <1>1, PTL DEF Spec

(* An ok row is for a frame the program caught, and the frame's key is the *)
(* probe's.                                                                *)
THEOREM OkRowsWereCaught == Spec => []OkWasCaught
<1>1. XdpInv => OkWasCaught
  <2> SUFFICES ASSUME XdpInv, NEW i \in DOMAIN rows
               PROVE  \E j \in DOMAIN dropped : EventOf(dropped[j]).key = rows[i]
    BY DEF OkWasCaught
  <2>1. i \in 1 .. Len(rows)
    BY DEF XdpInv, Typed
  <2>2. PICK j \in 1 .. Len(handled) : handled[j].key = rows[i]
    BY <2>1 DEF XdpInv, RowsAnswered
  <2>3. j \in DOMAIN dropped /\ handled[j] = EventOf(dropped[j])
    BY DEF XdpInv, Typed, InOrder
  <2>. QED
    BY <2>2, <2>3
<1>. QED
  BY InitXdpInv, NextXdpInv, <1>1, PTL DEF Spec

-----------------------------------------------------------------------------
(* The program adds up the extension headers from the end of the fixed     *)
(* header; their lengths add up to the same from zero.                     *)
LEMMA UpperAtIsSum ==
  ASSUME NEW f \in FrameType, f.type = "v6"
  PROVE  UpperAt(f) = 40 + FoldSeq(LAMBDA h, n : n + 8 * (h.hdrlen + 1), 0, f.exts)
<1> DEFINE exts == f.exts
           S == DOMAIN exts
           c == [s \in SUBSET S |-> CHOOSE x \in s : TRUE]
           H == [x \in S \X Nat |-> x[2] + Size(exts[x[1]])]
           at == CHOOSE g : g = [s \in SUBSET S |->
                   IF s = {} THEN Ipv6Header
                   ELSE LET x == CHOOSE x \in s : TRUE
                        IN  g[s \ {x}] + Size(exts[x])]
           sum == CHOOSE g : g = [s \in SUBSET S |->
                    IF s = {} THEN 0
                    ELSE LET x == CHOOSE x \in s : TRUE
                         IN  g[s \ {x}] + 8 * (exts[x].hdrlen + 1)]
<1>1. PICK n \in Nat : S = 1 .. n /\ \A i \in S : exts[i] \in Exthdrs
  BY DEF FrameType
<1>2. IsFiniteSet(S)
  <2>1. IsFiniteSet(1 .. n)
    BY FS_Interval
  <2> QED
    BY <1>1, <2>1
<1>3. \A i \in S : Size(exts[i]) \in Nat /\ Size(exts[i]) = 8 * (exts[i].hdrlen + 1)
  <2>1. ASSUME NEW h \in Exthdrs PROVE h.hdrlen \in Nat
    <3>1. h.hdrlen \in 0 .. 255
      BY DEF Exthdrs
    <3> QED
      BY <3>1
  <2>2. ASSUME NEW h \in Exthdrs PROVE Size(h) \in Nat /\ Size(h) = 8 * (h.hdrlen + 1)
    BY <2>1 DEF Size
  <2> HIDE DEF S
  <2> QED
    BY <1>1, <2>2
<1> HIDE DEF S
<1>4. Chooses(c, S)
  BY DEF Chooses
<1>5. H \in [S \X Nat -> Nat] /\ \A i \in S, k \in Nat : H[<<i, k>>] = k + Size(exts[i])
  BY <1>3
<1>6. /\ \A s \in SUBSET S : c[s] = CHOOSE x \in s : TRUE
      /\ \A s \in SUBSET S : s # {} => c[s] \in S /\ s \ {c[s]} \in SUBSET S
  OBVIOUS
<1> HIDE DEF c, H
<1>7. PICK g \in [SUBSET S -> Nat] : IsFold(g, S, 40, H, c)
  BY <1>2, <1>4, <1>5, FoldExists
<1>8. PICK h \in [SUBSET S -> Nat] : IsFold(h, S, 0, H, c)
  BY <1>2, <1>4, <1>5, FoldExists
<1>9. at = [s \in SUBSET S |->
              IF s = {} THEN Ipv6Header
              ELSE LET x == CHOOSE x \in s : TRUE IN at[s \ {x}] + Size(exts[x])]
  <2>1. g = [s \in SUBSET S |->
               IF s = {} THEN Ipv6Header
               ELSE LET x == CHOOSE x \in s : TRUE IN g[s \ {x}] + Size(exts[x])]
    <3>1. ASSUME NEW s \in SUBSET S
          PROVE  g[s] = IF s = {} THEN Ipv6Header
                        ELSE LET x == CHOOSE x \in s : TRUE IN g[s \ {x}] + Size(exts[x])
      <4>1. g[{}] = Ipv6Header
        BY <1>7 DEF IsFold, Ipv6Header
      <4>2. s # {} => g[s] = g[s \ {c[s]}] + Size(exts[c[s]])
        BY <1>5, <1>6, <1>7 DEF IsFold
      <4> QED
        BY <1>6, <4>1, <4>2
    <3> QED
      BY <3>1
  <2> QED
    BY <2>1
<1>10. sum = [s \in SUBSET S |->
                IF s = {} THEN 0
                ELSE LET x == CHOOSE x \in s : TRUE
                     IN  sum[s \ {x}] + 8 * (exts[x].hdrlen + 1)]
  <2>1. h = [s \in SUBSET S |->
               IF s = {} THEN 0
               ELSE LET x == CHOOSE x \in s : TRUE
                    IN  h[s \ {x}] + 8 * (exts[x].hdrlen + 1)]
    <3>1. ASSUME NEW s \in SUBSET S
          PROVE  h[s] = IF s = {} THEN 0
                        ELSE LET x == CHOOSE x \in s : TRUE
                             IN  h[s \ {x}] + 8 * (exts[x].hdrlen + 1)
      <4>1. h[{}] = 0
        BY <1>8 DEF IsFold
      <4>2. s # {} => h[s] = h[s \ {c[s]}] + Size(exts[c[s]])
        BY <1>5, <1>6, <1>8 DEF IsFold
      <4>3. s # {} => Size(exts[c[s]]) = 8 * (exts[c[s]].hdrlen + 1)
        BY <1>3, <1>6
      <4> QED
        BY <1>6, <4>1, <4>2, <4>3
    <3> QED
      BY <3>1
  <2> QED
    BY <2>1
<1>11. UpperAt(f) = at[S]
  BY Zenon DEF UpperAt, FoldSeq, FoldFunction, FoldFunctionOnSet, MapThenFoldSet, S
<1>12. FoldSeq(LAMBDA h2, n2 : n2 + 8 * (h2.hdrlen + 1), 0, f.exts) = sum[S]
  BY Zenon DEF FoldSeq, FoldFunction, FoldFunctionOnSet, MapThenFoldSet, S
<1> HIDE DEF at, sum
<1> DEFINE Good == {s \in SUBSET S : sum[s] \in Nat /\ at[s] = 40 + sum[s]}
<1>13. ASSUME NEW s \in SUBSET S, \A x \in s : s \ {x} \in Good PROVE s \in Good
  <2>1. CASE s = {}
    BY <1>9, <1>10, <2>1 DEF Ipv6Header
  <2>2. CASE s # {}
    <3>1. c[s] \in s /\ s \ {c[s]} \in Good /\ c[s] \in S
      BY <1>4, <1>13, <2>2 DEF Chooses
    <3>2. /\ at[s] = at[s \ {c[s]}] + Size(exts[c[s]])
          /\ sum[s] = sum[s \ {c[s]}] + Size(exts[c[s]])
      <4>1. at[s] = at[s \ {c[s]}] + Size(exts[c[s]])
        BY <1>6, <1>9, <2>2
      <4>2. sum[s] = sum[s \ {c[s]}] + 8 * (exts[c[s]].hdrlen + 1)
        BY <1>6, <1>10, <2>2
      <4> QED
        BY <1>3, <3>1, <4>1, <4>2
    <3> QED
      BY <1>3, <3>1, <3>2
  <2> QED
    BY <2>1, <2>2
<1>14. S \in Good
  <2> HIDE DEF Good
  <2>1. \A s \in SUBSET S : s \in Good
    BY <1>2, <1>13, EverySubset
  <2> QED
    BY <2>1
<1> QED
  BY <1>11, <1>12, <1>14

(* A later fragment of an IPv4 datagram; no such frame arrives.            *)
Ipv4Tail(f) == f.type = "v4" /\ f.fragment = "later"
NoIpv4Tails == \A f \in Frames : ~Ipv4Tail(f)

(* What the program matches is a reply, by the formats of IP; but for      *)
(* those fragments, whose offset it does not look at.                      *)
LEMMA MatchesAreReplies ==
  ASSUME NEW f \in Frames, Matches(f), ~Ipv4Tail(f) PROVE IsReply(f)
<1> DEFINE sum == FoldSeq(LAMBDA h, n : n + 8 * (h.hdrlen + 1), 0, f.exts)
<1>1. f \in FrameType /\ ReachesTcp(f) /\ Complete(f) /\ f.dport = "probe"
  BY XdpAssumption DEF Matches
<1>2. CASE f.type = "v4"
  <2>1. /\ f.upper = "tcp" /\ f.ihl * 4 >= Ipv4Header /\ f.fragment # "later"
        /\ f.exts = << >> /\ 4 * f.ihl + 20 <= f.len
    BY <1>1, <1>2, XdpAssumption
       DEF ReachesTcp, Ipv4Tail, Complete, UpperAt, TcpHeader
  <2>2. \A i \in DOMAIN f.exts : f.exts[i].kind # "other"
    BY <2>1
  <2>3. f.type \in {"v4", "v6"}
    BY <1>2
  <2> QED
    BY <1>1, <1>2, <2>1, <2>2, <2>3, Zenon DEF IsReply
<1>3. CASE f.type = "v6"
  <2>1. f.upper = "tcp" /\ \A i \in DOMAIN f.exts : Skips(f.exts[i])
    BY <1>1, <1>3 DEF ReachesTcp
  <2>2. \A i \in DOMAIN f.exts : f.exts[i].kind \in {"hopopts", "routing", "dstopts"}
    BY <2>1 DEF Skips
  <2>3. f.fragment # "later"
    BY <1>3, <2>2, XdpAssumption
  <2>4. UpperAt(f) = 40 + sum
    BY <1>1, <1>3, UpperAtIsSum
  <2>5. 40 + sum + 20 <= f.len
    BY <1>1, <2>4 DEF Complete, TcpHeader
  <2> QED
    BY <1>1, <1>3, <2>1, <2>2, <2>3, <2>5, Zenon DEF IsReply
<1> QED
  BY <1>1, <1>2, <1>3 DEF ReachesTcp

(* An ordinary reply is matched.                                           *)
LEMMA RepliesAreMatched ==
  ASSUME NEW f \in Frames, IsReply(f), Ordinary(f) PROVE Matches(f)
<1> DEFINE sum == FoldSeq(LAMBDA h, n : n + 8 * (h.hdrlen + 1), 0, f.exts)
<1>1. f \in FrameType /\ f.upper = "tcp" /\ f.dport = "probe" /\ f.type \in {"v4", "v6"}
  BY XdpAssumption DEF IsReply
<1>2. CASE f.type = "v4"
  <2>1. f.ihl * 4 >= Ipv4Header /\ 4 * f.ihl + 20 <= f.len
    BY <1>2 DEF IsReply
  <2>2. Complete(f)
    BY <1>2, <2>1 DEF Complete, UpperAt, TcpHeader
  <2> QED
    BY <1>1, <1>2, <2>1, <2>2 DEF Matches, ReachesTcp
<1>3. CASE f.type = "v6"
  <2>1. 40 + sum + 20 <= f.len
    BY <1>3, Zenon DEF IsReply
  <2>2. Complete(f)
    BY <1>1, <1>3, <2>1, UpperAtIsSum DEF Complete, TcpHeader
  <2>3. ASSUME NEW i \in DOMAIN f.exts PROVE Skips(f.exts[i])
    <3>1. f.exts[i] \in Exthdrs
      BY <1>1 DEF FrameType
    <3>2. f.exts[i].kind \in {"hopopts", "routing", "dstopts"}
      BY <3>1 DEF Exthdrs, IsReply, Ordinary
    <3> QED
      BY <3>2 DEF Skips, Ordinary, Size, LongestExthdr
  <2>4. Len(f.exts) <= MaxExthdrs
    BY DEF Ordinary
  <2> QED
    BY <1>1, <1>3, <2>2, <2>3, <2>4 DEF Matches, ReachesTcp
<1> QED
  BY <1>1, <1>2, <1>3

-----------------------------------------------------------------------------
(* What is dropped matched, and what the ring holds comes from that.       *)
CaughtInv ==
  /\ phase \in {"down", "attached", "running", "freed", "detached"}
  /\ passed \in Seq(Frames)
  /\ Len(ring) <= RingSlots
  /\ \A i \in 1 .. Len(dropped) : Matches(dropped[i])

(* The same before the program is attached, and after every step.          *)
LEMMA InitCaught == Init => CaughtInv
<1> SUFFICES ASSUME Init PROVE CaughtInv
  OBVIOUS
<1>1. Len(ring) = 0 /\ Len(dropped) = 0 /\ passed \in Seq(Frames) /\ phase = "down"
  BY DEF Init
<1> QED
  BY <1>1, XdpAssumption DEF CaughtInv

(* And every step keeps it: a frame is caught only if it matches and there *)
(* is room.                                                                *)
LEMMA NextCaught == XdpInv /\ CaughtInv /\ [Next]_vars => CaughtInv'
<1> SUFFICES ASSUME XdpInv, CaughtInv, [Next]_vars PROVE CaughtInv'
  OBVIOUS
<1>1. /\ dropped \in Seq(Frames) /\ ring \in Seq(Events) /\ passed \in Seq(Frames)
      /\ RingSlots \in Nat
  BY XdpAssumption DEF XdpInv, Typed, CaughtInv
<1>2. CASE Arrive
  <2>1. PICK f \in Frames : Catch(f) \/ Let(f)
    BY <1>2 DEF Arrive
  <2>2. phase' = phase
    BY <1>2 DEF Arrive
  <2>3. CASE Catch(f)
    <3>1. /\ ring' = Append(ring, EventOf(f)) /\ dropped' = Append(dropped, f)
          /\ Len(ring) < RingSlots /\ Matches(f) /\ passed' = passed
      BY <2>3 DEF Catch, Submit, HasRoom
    <3>2. Len(ring') <= RingSlots
      BY <1>1, <3>1
    <3>3. \A i \in 1 .. Len(dropped') : Matches(dropped'[i])
      <4>1. /\ Len(dropped') = Len(dropped) + 1 /\ Len(dropped) \in Nat
            /\ dropped'[Len(dropped) + 1] = f
            /\ \A i \in 1 .. Len(dropped) : dropped'[i] = dropped[i]
        BY <1>1, <3>1
      <4> QED
        BY <3>1, <4>1 DEF CaughtInv
    <3> QED
      BY <2>2, <3>1, <3>2, <3>3 DEF CaughtInv
  <2>4. CASE Let(f)
    <3>1. passed' \in Seq(Frames)
      BY <1>1, <2>4 DEF Let
    <3> QED
      BY <2>2, <2>4, <3>1 DEF Let, CaughtInv
  <2> QED
    BY <2>1, <2>3, <2>4
<1>3. CASE OnEvent
  <2>1. Len(ring') <= Len(ring) /\ Len(ring) \in Nat /\ Len(ring') \in Nat
    BY <1>1, <1>3 DEF OnEvent
  <2>2. UNCHANGED <<phase, dropped, passed>>
    BY <1>3 DEF OnEvent
  <2> QED
    BY <1>1, <2>1, <2>2 DEF CaughtInv
<1>4. CASE Attach \/ OpenRing \/ FreeRing \/ Detach \/ Over \/ UNCHANGED vars
  <2>1. /\ UNCHANGED <<ring, dropped, passed>>
        /\ phase' \in {phase, "attached", "running", "freed", "detached"}
    BY <1>4 DEF Attach, OpenRing, FreeRing, Detach, Move, Over, vars
  <2> QED
    BY <2>1 DEF CaughtInv
<1> QED
  BY <1>2, <1>3, <1>4 DEF Next

(* Both invariants always hold.                                            *)
LEMMA CaughtAlways == Spec => [](XdpInv /\ CaughtInv)
BY InitXdpInv, NextXdpInv, InitCaught, NextCaught, PTL DEF Spec

(* Every variable keeps to its type: an event has the key and the flags of *)
(* a TCP segment, and the ring never holds more than it has room for.      *)
THEOREM XdpTypeCorrect == Spec => []TypeOK
<1>1. XdpInv /\ CaughtInv => TypeOK
  <2> SUFFICES ASSUME XdpInv, CaughtInv PROVE TypeOK
    OBVIOUS
  <2> DEFINE E == [key : Keys, flags : {"SA", "RA"}]
  <2>1. ASSUME NEW i \in 1 .. Len(ring) PROVE ring[i] \in E
    <3> DEFINE f == dropped[Len(handled) + i]
    <3>1. /\ Len(handled) \in Nat /\ Len(ring) \in Nat /\ dropped \in Seq(Frames)
          /\ Len(dropped) = Len(handled) + Len(ring)
      BY DEF XdpInv, Typed, InOrder
    <3>2. Len(handled) + i \in 1 .. Len(dropped)
      BY <3>1
    <3>3. ring[i] = EventOf(f) /\ Matches(f) /\ f \in Frames
      BY <3>1, <3>2 DEF XdpInv, InOrder, CaughtInv
    <3> HIDE DEF f
    <3>4. f \in FrameType /\ f.type \in {"v4", "v6"}
      BY <3>3, XdpAssumption DEF Matches, ReachesTcp
    <3>5. f.from \in {"leaf", "other"} /\ f.ack \in Nat /\ f.flags \in {"SA", "RA"}
      BY <3>4 DEF FrameType
    <3> QED
      BY <3>3, <3>4, <3>5 DEF EventOf, Keys
  <2>2. ring \in Seq(E)
    <3>1. ring \in Seq(Events)
      BY DEF XdpInv, Typed
    <3> HIDE DEF E
    <3>2. ring = [i \in 1 .. Len(ring) |-> ring[i]] /\ Len(ring) \in Nat
      BY <3>1
    <3>3. [i \in 1 .. Len(ring) |-> ring[i]] \in Seq(E)
      BY <2>1, <3>2
    <3> QED
      BY <3>2, <3>3
  <2> QED
    BY <2>2 DEF TypeOK, XdpInv, Typed, CaughtInv
<1> QED
  BY <1>1, CaughtAlways, PTL

(* The hub's other traffic is left alone, whatever the headers and their   *)
(* chains, but for later fragments of IPv4 datagrams (probe_xdp).          *)
THEOREM OnlyTailsAreTaken ==
  Spec => [](\A i \in DOMAIN dropped : IsReply(dropped[i]) \/ Ipv4Tail(dropped[i]))
<1>1. XdpInv /\ CaughtInv =>
        \A i \in DOMAIN dropped : IsReply(dropped[i]) \/ Ipv4Tail(dropped[i])
  <2> SUFFICES ASSUME XdpInv, CaughtInv, NEW i \in DOMAIN dropped, ~Ipv4Tail(dropped[i])
               PROVE  IsReply(dropped[i])
    OBVIOUS
  <2>1. i \in 1 .. Len(dropped) /\ dropped[i] \in Frames
    BY DEF XdpInv, Typed
  <2>2. Matches(dropped[i])
    BY <2>1 DEF CaughtInv
  <2> QED
    BY <2>1, <2>2, MatchesAreReplies
<1> QED
  BY <1>1, CaughtAlways, PTL

(* So where no IPv4 datagram arrives in fragments it is all spared.        *)
THEOREM HostKeepsItsTraffic ==
  ASSUME NoIpv4Tails PROVE Spec => []HostTrafficSpared
<1> DEFINE Taken == \A i \in DOMAIN dropped : IsReply(dropped[i]) \/ Ipv4Tail(dropped[i])
<1>1. XdpInv /\ Taken => HostTrafficSpared
  <2> SUFFICES ASSUME XdpInv, Taken, NEW i \in DOMAIN dropped PROVE IsReply(dropped[i])
    BY DEF HostTrafficSpared
  <2>1. dropped[i] \in Frames
    BY DEF XdpInv, Typed
  <2> QED
    BY <2>1 DEF NoIpv4Tails
<1>2. Spec => []Taken
  BY OnlyTailsAreTaken
<1> HIDE DEF Taken
<1> QED
  BY <1>1, <1>2, CaughtAlways, PTL

(* A step that leaves an ordinary reply to the hub's stack finds the ring  *)
(* full, for every bound on the walk over the extension headers.           *)
THEOREM RepliesWaitForRoomOnly == Spec => LeftOnlyWhenFull
<1> DEFINE left == passed' # passed =>
             LET f == Last(passed')
             IN  IsReply(f) /\ Ordinary(f) => Len(ring) = RingSlots
<1>1. XdpInv /\ CaughtInv /\ [Next]_vars => [left]_vars
  <2> SUFFICES ASSUME XdpInv, CaughtInv, Next, passed' # passed,
                      IsReply(Last(passed')), Ordinary(Last(passed'))
               PROVE  Len(ring) = RingSlots
    OBVIOUS
  <2>1. Arrive
    BY DEF Next, Attach, OpenRing, FreeRing, Detach, Move, OnEvent, Over, vars
  <2>2. PICK f \in Frames : Let(f)
    BY <2>1 DEF Arrive, Catch
  <2>3. Last(passed') = f
    <3>1. passed \in Seq(Frames)
      BY DEF CaughtInv
    <3> QED
      BY <2>2, <3>1 DEF Let, Last
  <2>4. Matches(f)
    BY <2>3, RepliesAreMatched
  <2>5. ~(Len(ring) < RingSlots)
    BY <2>2, <2>4 DEF Let, HasRoom
  <2>6. Len(ring) \in Nat /\ RingSlots \in Nat /\ Len(ring) <= RingSlots
    BY XdpAssumption DEF XdpInv, Typed, CaughtInv
  <2> QED
    BY <2>5, <2>6
<1> HIDE DEF left
<1>2. Spec => [][left]_vars
  BY <1>1, CaughtAlways, PTL DEF Spec
<1> QED
  BY <1>2 DEF LeftOnlyWhenFull, left

=============================================================================
