---------------------------- MODULE ProbeDaemonProofs ----------------------------
(***************************************************************************)
(* Proofs about ProbeDaemon, for every value of its constants: its types,  *)
(* the bound of its buffer; that every probe has one outcome and none is   *)
(* forgotten; that the daemon implements ProbeLedger; that a shutdown      *)
(* loses nothing; and that probes polled for in time are answered.         *)
(***************************************************************************)
EXTENDS ProbeDaemon, FiniteSetTheorems, SequenceTheorems, TLAPS

(***************************************************************************)
(* What TypeOK needs to be inductive: within a round the sender is at a    *)
(* pair, and a probe that is being sent has been counted.                  *)
(***************************************************************************)
InRound ==
  /\ pc["sender"] \in {"fire", "send"} => idx <= Len(Pairs)
  /\ pc["sender"] = "send" => nSent > 0

TypeInv == TypeOK /\ InRound

-----------------------------------------------------------------------------
(* The next key of a pair is a key, and the cursors stay within their      *)
(* width.                                                                  *)
LEMMA NextKeyType ==
  ASSUME NEW pair \in Range(Pairs), TypeOK
  PROVE  NextKey(pair) \in Key
<1> USE DEF TypeOK
<1>0. CursorOf(pair) \in Cursors
  BY DEF CursorOf, Cursors
<1>1. cursor[CursorOf(pair)] \in Nat
  BY <1>0
<1>2. TcpSeqSpace \in Nat \ {0}
  BY SeqAssumption
<1>3. (cursor[CursorOf(pair)] + 1) % TcpSeqSpace \in Nat
  BY <1>1, <1>2, SMT
<1>. QED
  BY <1>1, <1>3 DEF NextKey, Key

(* The cursor a probe moves stays below its width.                         *)
LEMMA AdvanceType ==
  ASSUME NEW pair \in Range(Pairs), TypeOK
  PROVE  /\ Advance(pair) \in [Cursors -> Nat]
         /\ \A c \in Cursors : Advance(pair)[c] < Width(c)
<1> DEFINE c == CursorOf(pair)
           step == IF c = "tcp" THEN TcpSeqStep ELSE 1
           new == (cursor[c] + step) % Width(c)
<1>1. c \in Cursors
  BY DEF CursorOf, Cursors
<1>2. cursor \in [Cursors -> Nat] /\ \A d \in Cursors : cursor[d] < Width(d)
  BY DEF TypeOK
<1>3. Width(c) \in Nat \ {0}
  BY SeqAssumption DEF Width
<1>4. step \in Nat
  BY SeqAssumption
<1>5. new \in Nat /\ new < Width(c)
  <2> HIDE DEF c, step
  <2>1. cursor[c] \in Nat
    BY <1>1, <1>2
  <2>. QED
    BY <2>1, <1>3, <1>4, SMT
<1>6. Advance(pair) = [cursor EXCEPT ![c] = new]
  BY DEF Advance
<1>. HIDE DEF c, new
<1>. QED
  BY <1>1, <1>2, <1>5, <1>6

(* The target list has a first pair, and its elements are pairs.           *)
LEMMA PairsFacts ==
  /\ Len(Pairs) \in Nat \ {0}
  /\ \A i \in 1 .. Len(Pairs) : Pairs[i] \in Range(Pairs)
  /\ \A i \in 1 .. Len(Pairs) : Pairs[i] \in Pair
BY PairsAssumption DEF Range

-----------------------------------------------------------------------------
(* The state run() starts in is well typed.                                *)
LEMMA InitTypeInv == Init => TypeInv
<1> SUFFICES ASSUME Init PROVE TypeInv
  OBVIOUS
<1>1. \A c \in Cursors : cursor[c] \in Nat /\ cursor[c] < Width(c)
  BY SeqAssumption DEF Init, Cursors, Width
<1>2. cursor \in [Cursors -> Nat]
  BY <1>1 DEF Init
<1>3. DOMAIN pc = Threads /\ \A t \in Threads : pc[t] \in LabelsOf(t)
  BY DEF Init, Threads, LabelsOf, RowLabels, ReturnsTo
<1>4. DOMAIN ret = Threads /\ \A t \in Threads : ret[t] \in ReturnsTo(t)
  BY DEF Init, Threads, ReturnsTo
<1>5. sending \in Key
  BY PairsFacts DEF Init, Key
<1>6. InRound
  BY DEF Init, InRound, Threads
<1>7. DOMAIN pending = {} /\ DOMAIN heard = {}
  BY DEF Init
<1>8. idx \in 1 .. Len(Pairs) + 1
  BY PairsFacts DEF Init
<1>9. /\ buffer \in Seq(Row)
      /\ inbox \in [Channels -> Seq(Key)]
      /\ todo \in [Threads -> SUBSET Row]
      /\ batch \in [Threads -> Seq(Row)]
  BY DEF Init
<1>. QED
  BY <1>1, <1>2, <1>3, <1>4, <1>5, <1>6, <1>7, <1>8, <1>9
  DEF Init, TypeInv, TypeOK

-----------------------------------------------------------------------------
(* A thread only goes to a label of its own.                               *)
LEMMA GotoType ==
  ASSUME TypeOK, NEW t \in Threads, NEW label \in LabelsOf(t), Goto(t, label)
  PROVE  /\ DOMAIN pc' = Threads
         /\ \A u \in Threads : pc'[u] \in LabelsOf(u)
         /\ pc'[t] = label
         /\ \A u \in Threads \ {t} : pc'[u] = pc[u]
BY DEF TypeOK, Goto

(* The sender's steps that leave pending alone keep the types.             *)
LEMMA SenderSteps ==
  ASSUME TypeInv,
         SenderTick \/ SenderDuration \/ SenderExit \/ SenderCheck
           \/ SendOk \/ SendRaises
  PROVE  TypeInv'
<1> USE PairsFacts DEF TypeInv, TypeOK, InRound, Goto, At, Alive, wire, rowVars,
        local, timers, history, LabelsOf, ReturnsTo, RowLabels, Threads
<1>1. CASE SenderTick
  BY <1>1, SMTT(30) DEF SenderTick
<1>2. CASE SenderDuration
  BY <1>2 DEF SenderDuration
<1>3. CASE SenderExit
  BY <1>3 DEF SenderExit
<1>4. CASE SenderCheck
  BY <1>4, SMTT(30) DEF SenderCheck
<1>5. CASE SendOk
  <2>1. idx' \in 1 .. Len(Pairs) + 1
    BY <1>5 DEF SendOk
  <2>2. air' \subseteq Key
    BY <1>5 DEF SendOk
  <2>. QED
    BY <1>5, <2>1, <2>2 DEF SendOk
<1>6. CASE SendRaises
  <2>1. idx' \in 1 .. Len(Pairs) + 1
    BY <1>6 DEF SendRaises
  <2>. QED
    BY <1>6, <2>1 DEF SendRaises
<1>. QED
  BY <1>1, <1>2, <1>3, <1>4, <1>5, <1>6

(* Rows made from the state are rows.                                      *)
LEMMA RowTypes ==
  ASSUME TypeOK
  PROVE  /\ \A id \in Nat : LossRow(id) \in Row
         /\ \A id, rtt \in Nat : OkRow(id, rtt) \in Row
         /\ \A K \in SUBSET DOMAIN pending : Losses(K) \subseteq Row
         /\ \A t \in Threads : Range(batch[t]) \subseteq Row
         /\ Unmatched \subseteq DOMAIN pending
<1>1. /\ \A id \in Nat : LossRow(id) \in Row
      /\ \A id, rtt \in Nat : OkRow(id, rtt) \in Row
  BY DEF LossRow, OkRow, Row
<1>2. \A k \in DOMAIN pending : pending[k].id \in Nat
  BY DEF TypeOK, Entry
<1>3. \A t \in Threads : Range(batch[t]) \subseteq Row
  BY DEF TypeOK, Range
<1>. QED
  BY <1>1, <1>2, <1>3 DEF Losses, Unmatched

(* Filing a probe in pending keeps the types.                              *)
LEMMA SenderFireStep == ASSUME TypeInv, SenderFire PROVE TypeInv'
<1> DEFINE key == NextKey(Pairs[idx])
<1> USE DEF TypeInv
<1>1. Pairs[idx] \in Range(Pairs)
  BY PairsFacts DEF SenderFire, TypeOK, InRound, At
<1>2. key \in Key
  BY <1>1, NextKeyType
<1>3. cursor' \in [Cursors -> Nat] /\ \A c \in Cursors : cursor'[c] < Width(c)
  BY <1>1, AdvanceType DEF SenderFire
<1>4. [id |-> nSent, age |-> 0, matched |-> FALSE] \in Entry
  BY DEF TypeOK, Entry
<1>5. /\ DOMAIN pending' \subseteq Key
      /\ \A k \in DOMAIN pending' : pending'[k] \in Entry
  <2>1. pending' = Put(pending, key, [id |-> nSent, age |-> 0, matched |-> FALSE])
    BY DEF SenderFire
  <2> HIDE DEF key
  <2>. QED
    BY <2>1, <1>2, <1>4 DEF TypeOK, Put
<1>6. reused' \subseteq Nat
  <2>1. \A k \in DOMAIN pending : pending[k].id \in Nat
    BY DEF TypeOK, Entry
  <2>2. reused \subseteq Nat /\ nSent \in Nat
    BY DEF TypeOK
  <2>3. reused' = reused \cup {pending[k].id : k \in DOMAIN pending \cap {key}}
                         \cup {nSent : k \in (DOMAIN pending \cup air) \cap {key}}
    BY DEF SenderFire
  <2> HIDE DEF key
  <2>. QED
    BY <2>1, <2>2, <2>3
<1>7. nSent' \in Nat /\ nSent' > 0
  BY DEF SenderFire, TypeOK
<1>8. sending' \in Key
  BY <1>2 DEF SenderFire
<1>9. "send" \in LabelsOf("sender") /\ Goto("sender", "send")
  BY DEF LabelsOf, SenderFire
<1>. HIDE DEF key
<1>10. /\ DOMAIN pc' = Threads
       /\ \A t \in Threads : pc'[t] \in LabelsOf(t)
       /\ pc'["sender"] = "send"
  BY <1>9, GotoType DEF Threads
<1>. QED
  BY <1>3, <1>5, <1>6, <1>7, <1>8, <1>10
  DEF SenderFire, TypeOK, InRound, At, wire, rowVars, timers

(* Handing rows to the row code is well typed.                             *)
LEMMA ProduceType ==
  ASSUME TypeOK, NEW t \in Threads, NEW rows \in SUBSET Row,
         NEW next \in ReturnsTo(t), Produce(t, rows, next)
  PROVE  /\ todo' \in [Threads -> SUBSET Row]
         /\ DOMAIN ret' = Threads /\ \A u \in Threads : ret'[u] \in ReturnsTo(u)
         /\ DOMAIN pc' = Threads /\ \A u \in Threads : pc'[u] \in LabelsOf(u)
         /\ \A u \in Threads \ {t} : pc'[u] = pc[u]
         /\ pc'[t] \in {"enq", next}
<1>1. Goto(t, IF rows = {} THEN next ELSE "enq")
  BY DEF Produce
<1>2. next \in LabelsOf(t) /\ "enq" \in LabelsOf(t)
  BY DEF LabelsOf, RowLabels
<1>3. /\ DOMAIN pc' = Threads /\ \A u \in Threads : pc'[u] \in LabelsOf(u)
      /\ \A u \in Threads \ {t} : pc'[u] = pc[u]
      /\ pc'[t] \in {"enq", next}
  BY <1>1, <1>2, GotoType
<1>4. todo' \in [Threads -> SUBSET Row]
  BY DEF Produce, TypeOK
<1>5. DOMAIN ret' = Threads /\ \A u \in Threads : ret'[u] \in ReturnsTo(u)
  BY DEF Produce, TypeOK
<1>. QED
  BY <1>3, <1>4, <1>5

(* Removing entries from pending leaves entries under keys.                *)
LEMMA PendingShrinks ==
  ASSUME TypeOK, NEW K, pending' = Without(K)
  PROVE  /\ DOMAIN pending' \subseteq Key
         /\ \A k \in DOMAIN pending' : pending'[k] \in Entry
BY DEF TypeOK, Without, Restrict

(* The sender's error handler keeps the types.                             *)
LEMMA SendFailsStep == ASSUME TypeInv, SendFails PROVE TypeInv'
<1> USE DEF TypeInv
<1>1. FailedRows \in SUBSET Row
  <2>1. nSent - 1 \in Nat
    BY DEF SendFails, TypeOK, InRound, At
  <2>. QED
    BY <2>1, RowTypes DEF FailedRows
<1>2. "check" \in ReturnsTo("sender") /\ "sender" \in Threads
  BY DEF ReturnsTo, Threads
<1>3. Produce("sender", FailedRows, "check")
  BY DEF SendFails
<1>4. /\ todo' \in [Threads -> SUBSET Row]
      /\ DOMAIN ret' = Threads /\ \A u \in Threads : ret'[u] \in ReturnsTo(u)
      /\ DOMAIN pc' = Threads /\ \A u \in Threads : pc'[u] \in LabelsOf(u)
      /\ pc'["sender"] \in {"enq", "check"}
  BY <1>1, <1>2, <1>3, ProduceType
<1>5. /\ DOMAIN pending' \subseteq Key
      /\ \A k \in DOMAIN pending' : pending'[k] \in Entry
  BY PendingShrinks DEF SendFails
<1>6. idx' \in 1 .. Len(Pairs) + 1
  BY PairsFacts DEF SendFails, TypeOK, InRound, At
<1>. QED
  BY <1>4, <1>5, <1>6
  DEF SendFails, TypeOK, InRound, wire, timers, history

(* The frame of every step of a thread other than the sender.              *)
InRoundFrame ==
  /\ pc'["sender"] = pc["sender"]
  /\ UNCHANGED <<idx, nSent>>

(* A step that does not move the sender keeps InRound.                     *)
LEMMA FrameKeepsInRound == ASSUME InRound, InRoundFrame PROVE InRound'
BY DEF InRound, InRoundFrame

(* Handling a reply, in either thread, keeps the types.                    *)
LEMMA ReceiveStep ==
  ASSUME TypeInv, NEW t \in {"main", "rx"}, NEW c \in Channels,
         NEW next \in ReturnsTo(t), Receive(t, c, next),
         ready' \subseteq {"icmp4", "icmp6"}
  PROVE  TypeInv'
<1> USE DEF TypeInv
<1> DEFINE key == Head(inbox[c])
<1>1. inbox[c] \in Seq(Key) /\ inbox[c] # << >>
  BY DEF TypeOK, Receive
<1>2. key \in Key /\ Tail(inbox[c]) \in Seq(Key)
  BY <1>1, HeadTailProperties
<1>3. inbox' \in [Channels -> Seq(Key)]
  BY <1>2 DEF Receive, TypeOK
<1>4. t \in Threads
  BY DEF Threads
<1>5. /\ DOMAIN pending' \subseteq Key
      /\ \A k \in DOMAIN pending' : pending'[k] \in Entry
      /\ \E rows \in SUBSET Row : Produce(t, rows, next)
  <2>1. CASE Answers(key)
    <3>1. key \in DOMAIN pending /\ pending[key] \in Entry
      BY <2>1 DEF Answers, Unmatched, TypeOK
    <3>2. OkRow(pending[key].id, pending[key].age) \in Row
      BY <3>1, RowTypes DEF Entry
    <3>3. Produce(t, {OkRow(pending[key].id, pending[key].age)}, next)
      BY <2>1 DEF Receive
    <3>4. pending' = [pending EXCEPT ![key].matched = TRUE, ![key].age = 0]
      BY <2>1 DEF Receive
    <3>. HIDE DEF key
    <3>. QED
      BY <3>1, <3>2, <3>3, <3>4 DEF TypeOK, Entry
  <2>2. CASE ~Answers(key)
    BY <2>2 DEF Receive, TypeOK
  <2>. QED
    BY <2>1, <2>2
<1>6. PICK rows \in SUBSET Row : Produce(t, rows, next)
  BY <1>5
<1>7. /\ todo' \in [Threads -> SUBSET Row]
      /\ DOMAIN ret' = Threads /\ \A u \in Threads : ret'[u] \in ReturnsTo(u)
      /\ DOMAIN pc' = Threads /\ \A u \in Threads : pc'[u] \in LabelsOf(u)
      /\ pc'["sender"] = pc["sender"]
  BY <1>4, <1>6, ProduceType DEF Threads
<1>8. InRound'
  BY <1>7, FrameKeepsInRound DEF InRoundFrame, Receive
<1>. QED
  BY <1>3, <1>5, <1>7, <1>8 DEF Receive, TypeOK, wire, timers, history

(* The arrival of a reply keeps the types.                                 *)
LEMMA ReplyStep == ASSUME TypeInv, ReplyArrives PROVE TypeInv'
<1> USE DEF TypeInv
<1>1. PICK key \in air :
        /\ inbox' = [inbox EXCEPT ![ChannelOf(key)] = Append(@, key)]
        /\ heard' = IF key \in Unmatched /\ pending[key].age < Timeout
                    THEN Put(heard, pending[key].id, "arrived")
                    ELSE heard
  BY DEF ReplyArrives
<1>2. key \in Key /\ ChannelOf(key) \in Channels
  BY DEF TypeOK, ChannelOf, CursorOf, Channels
<1>3. inbox' \in [Channels -> Seq(Key)]
  BY <1>1, <1>2, AppendProperties DEF TypeOK
<1>4. DOMAIN heard' \subseteq Nat
  BY <1>1 DEF Put, Unmatched, TypeOK, Entry
<1>5. InRound'
  BY FrameKeepsInRound DEF InRoundFrame, ReplyArrives, local
<1>. QED
  BY <1>3, <1>4, <1>5 DEF ReplyArrives, TypeOK, rowVars, local, timers

(* The steps of _icmp_rx_loop keep the types.                              *)
LEMMA RxSteps ==
  ASSUME TypeInv, RxSelect \/ HandleIcmpReply \/ RxExit
  PROVE  TypeInv'
<1> USE DEF Goto, At, Alive, wire, rowVars, local, timers, history,
        LabelsOf, ReturnsTo, RowLabels, Threads
<1>1. CASE RxSelect
  BY <1>1 DEF RxSelect, TypeInv, TypeOK, InRound
<1>2. CASE HandleIcmpReply
  <2> DEFINE c == IF "icmp4" \in ready THEN "icmp4" ELSE "icmp6"
  <2>1. c \in Channels
    BY DEF Channels
  <2>2. ready' \subseteq {"icmp4", "icmp6"}
    BY <1>2 DEF HandleIcmpReply, TypeInv, TypeOK
  <2>3. (IF ready' = {} THEN "check" ELSE "recv") \in ReturnsTo("rx")
    OBVIOUS
  <2>4. Receive("rx", c, IF ready' = {} THEN "check" ELSE "recv")
    BY <1>2 DEF HandleIcmpReply
  <2>. HIDE DEF c
  <2>. QED
    BY <2>1, <2>2, <2>3, <2>4, ReceiveStep
<1>3. CASE RxExit
  BY <1>3 DEF RxExit, TypeInv, TypeOK, InRound
<1>. QED
  BY <1>1, <1>2, <1>3

(* Coming back from the row code.                                          *)
LEMMA ResumeType ==
  ASSUME TypeOK, NEW t \in Threads, Resume(t)
  PROVE  /\ DOMAIN pc' = Threads /\ \A u \in Threads : pc'[u] \in LabelsOf(u)
         /\ \A u \in Threads \ {t} : pc'[u] = pc[u]
         /\ pc'[t] \in {"enq", ret[t]}
<1>1. ret[t] \in LabelsOf(t) /\ "enq" \in LabelsOf(t)
  BY DEF TypeOK, LabelsOf, RowLabels
<1>. QED
  BY <1>1, GotoType DEF Resume

(* In the row code, and back from it, the sender is not at a pair.         *)
LEMMA RowInRound ==
  ASSUME TypeInv, NEW t \in Threads, UNCHANGED <<idx, nSent>>,
         \A u \in Threads \ {t} : pc'[u] = pc[u],
         pc'[t] \in {"enq", "swap", "sink", ret[t]}
  PROVE  InRound'
BY DEF TypeInv, TypeOK, InRound, ReturnsTo, Threads

(* _enqueue_row and _flush keep the types, whoever runs them.              *)
LEMMA RowSteps ==
  ASSUME TypeInv, NEW t \in Threads, RowStep(t)
  PROVE  TypeInv'
<1> USE DEF TypeInv
<1>0. {"enq", "swap", "sink"} \subseteq LabelsOf(t)
  BY DEF LabelsOf, RowLabels
<1>1. CASE Enqueue(t)
  <2>1. PICK row \in todo[t] : /\ buffer' = Append(buffer, row)
                               /\ todo' = [todo EXCEPT ![t] = @ \ {row}]
    BY <1>1 DEF Enqueue
  <2>2. row \in Row
    BY <2>1 DEF TypeOK
  <2>3. buffer' \in Seq(Row) /\ todo' \in [Threads -> SUBSET Row]
    BY <2>1, <2>2, AppendProperties DEF TypeOK
  <2>4. Goto(t, "swap") \/ Resume(t)
    BY <1>1 DEF Enqueue
  <2>5. /\ DOMAIN pc' = Threads /\ \A u \in Threads : pc'[u] \in LabelsOf(u)
        /\ \A u \in Threads \ {t} : pc'[u] = pc[u]
        /\ pc'[t] \in {"enq", "swap", ret[t]}
    BY <2>4, <1>0, GotoType, ResumeType
  <2>6. InRound'
    BY <1>1, <2>5, RowInRound DEF Enqueue, local
  <2>. QED
    BY <1>1, <2>3, <2>5, <2>6 DEF Enqueue, TypeOK, wire, local, timers, history
<1>2. CASE SwapBuffer(t)
  <2>1. Goto(t, "sink") \/ Resume(t)
    BY <1>2 DEF SwapBuffer
  <2>2. /\ DOMAIN pc' = Threads /\ \A u \in Threads : pc'[u] \in LabelsOf(u)
        /\ \A u \in Threads \ {t} : pc'[u] = pc[u]
        /\ pc'[t] \in {"enq", "sink", ret[t]}
    BY <2>1, <1>0, GotoType, ResumeType
  <2>3. InRound'
    BY <1>2, <2>2, RowInRound DEF SwapBuffer, local
  <2>4. batch' \in [Threads -> Seq(Row)] /\ buffer' \in Seq(Row)
    BY <1>2 DEF SwapBuffer, Taken, TypeOK
  <2>. QED
    BY <1>2, <2>2, <2>3, <2>4
    DEF SwapBuffer, TypeOK, wire, local, timers, history
<1>3. CASE SinkWrites(t) \/ SinkDrops(t)
  <2>1. Resume(t)
    BY <1>3 DEF SinkWrites, SinkDrops
  <2>2. /\ DOMAIN pc' = Threads /\ \A u \in Threads : pc'[u] \in LabelsOf(u)
        /\ \A u \in Threads \ {t} : pc'[u] = pc[u]
        /\ pc'[t] \in {"enq", ret[t]}
    BY <2>1, ResumeType
  <2>3. InRound'
    BY <1>3, <2>2, RowInRound DEF SinkWrites, SinkDrops, local
  <2>4. batch' \in [Threads -> Seq(Row)]
    <3>1. batch' = [batch EXCEPT ![t] = << >>]
      BY <1>3 DEF SinkWrites, SinkDrops
    <3>2. << >> \in Seq(Row) /\ batch \in [Threads -> Seq(Row)]
      BY DEF TypeOK
    <3>. QED
      BY <3>1, <3>2
  <2>5. db' \subseteq Row /\ dropped' \subseteq Row
    <3>1. Range(batch[t]) \subseteq Row
      BY RowTypes
    <3>2. db \subseteq Row /\ dropped \subseteq Row
      BY DEF TypeOK
    <3>3. Insert(Range(batch[t])) \subseteq Row
      BY <3>1, <3>2 DEF Insert
    <3>. QED
      BY <1>3, <3>1, <3>2, <3>3 DEF SinkWrites, SinkDrops
  <2>6. CASE SinkWrites(t)
    BY <2>6, <2>2, <2>3, <2>4, <2>5
    DEF SinkWrites, TypeOK, wire, local, timers, history
  <2>7. CASE SinkDrops(t)
    BY <2>7, <2>2, <2>3, <2>4, <2>5
    DEF SinkDrops, TypeOK, wire, local, timers, history
  <2>. QED
    BY <1>3, <2>6, <2>7
<1>. QED
  BY <1>1, <1>2, <1>3 DEF RowStep

(* Ages are natural numbers.                                               *)
LEMMA OlderType ==
  ASSUME NEW age \in Nat, NEW limit \in Nat
  PROVE  Older(age, limit) \in Nat
BY DEF Older

(* The passing of time keeps the types.                                    *)
LEMMA TickStep == ASSUME TypeInv, Tick PROVE TypeInv'
<1> USE DEF TypeInv
<1> DEFINE limit(k) == IF pending[k].matched THEN MatchedTTL ELSE Timeout + 1
<1>1. ASSUME NEW k \in DOMAIN pending
      PROVE  [pending[k] EXCEPT !.age = Older(@, limit(k))] \in Entry
  <2>1. pending[k] \in Entry
    BY DEF TypeOK
  <2>2. limit(k) \in Nat
    BY TimingAssumption
  <2>3. Older(pending[k].age, limit(k)) \in Nat
    BY <2>1, <2>2, OlderType DEF Entry
  <2>. HIDE DEF limit
  <2>. QED
    BY <2>1, <2>3 DEF Entry
<1>2. /\ DOMAIN pending' = DOMAIN pending
      /\ \A k \in DOMAIN pending :
           pending'[k] = [pending[k] EXCEPT !.age = Older(@, limit(k))]
  BY DEF Tick
<1>. HIDE DEF limit
<1>4. /\ DOMAIN pending' \subseteq Key
      /\ \A k \in DOMAIN pending' : pending'[k] \in Entry
  BY <1>1, <1>2 DEF TypeOK
<1>3. sinceSweep' \in Nat /\ sinceFlush' \in Nat /\ joinAge' \in Nat
  BY OlderType, TimingAssumption DEF Tick, TypeOK
<1>. QED
  BY <1>3, <1>4 DEF Tick, TypeOK, InRound, wire, local, history

-----------------------------------------------------------------------------
(* The steps of run() that produce no rows keep the types.                 *)
LEMMA MainSteps ==
  ASSUME TypeInv,
         \/ MainLoop \/ PollReturns \/ PollInterrupted \/ PollFails
         \/ IntervalFlush \/ Signal \/ JoinSender \/ JoinRx \/ FinalFlush
         \/ CloseSink \/ Exit
  PROVE  TypeInv'
<1> USE DEF TypeInv, TypeOK, InRound, Goto, At, wire, rowVars, local, timers,
        history, LabelsOf, ReturnsTo, RowLabels, Threads
<1>1. CASE MainLoop
  BY <1>1, SMTT(30) DEF MainLoop
<1>2. CASE PollReturns
  <2>1. sinceSweep' \in Nat /\ flushDue' \in BOOLEAN /\ DOMAIN heard' \subseteq Nat
    BY <1>2 DEF PollReturns, FlushIsDue
  <2>. QED
    BY <1>2, <2>1, SMTT(30) DEF PollReturns
<1>3. CASE PollInterrupted
  BY <1>3 DEF PollInterrupted
<1>4. CASE PollFails
  BY <1>4 DEF PollFails
<1>5. CASE IntervalFlush
  BY <1>5 DEF IntervalFlush
<1>6. CASE Signal
  BY <1>6 DEF Signal
<1>7. CASE JoinSender
  BY <1>7 DEF JoinSender
<1>8. CASE JoinRx
  BY <1>8 DEF JoinRx
<1>9. CASE FinalFlush
  BY <1>9 DEF FinalFlush
<1>10. CASE CloseSink
  BY <1>10 DEF CloseSink
<1>11. CASE Exit
  BY <1>11 DEF Exit
<1>. QED
  BY <1>1, <1>2, <1>3, <1>4, <1>5, <1>6, <1>7, <1>8, <1>9, <1>10, <1>11

(* Both sweeps keep the types.                                             *)
LEMMA SweepSteps == ASSUME TypeInv, Sweep \/ FinalSweep PROVE TypeInv'
<1> USE DEF TypeInv
<1>0. "main" \in Threads
  BY DEF Threads
<1>1. CASE Sweep
  <2>1. Losses(Expired) \in SUBSET Row
    BY RowTypes DEF Expired
  <2>2. "interval" \in ReturnsTo("main") /\ Produce("main", Losses(Expired), "interval")
    BY <1>1 DEF ReturnsTo, Sweep
  <2>3. /\ todo' \in [Threads -> SUBSET Row]
        /\ DOMAIN ret' = Threads /\ \A u \in Threads : ret'[u] \in ReturnsTo(u)
        /\ DOMAIN pc' = Threads /\ \A u \in Threads : pc'[u] \in LabelsOf(u)
        /\ pc'["sender"] = pc["sender"]
    BY <1>0, <2>1, <2>2, ProduceType DEF Threads
  <2>4. /\ DOMAIN pending' \subseteq Key
        /\ \A k \in DOMAIN pending' : pending'[k] \in Entry
    BY <1>1, PendingShrinks DEF Sweep
  <2>5. InRound'
    BY <1>1, <2>3, FrameKeepsInRound DEF InRoundFrame, Sweep, local
  <2>. QED
    BY <1>1, <2>3, <2>4, <2>5 DEF Sweep, TypeOK, wire, local, timers, history
<1>2. CASE FinalSweep
  <2>1. LeftOver \in SUBSET Row
    BY RowTypes DEF LeftOver
  <2>2. "final_flush" \in ReturnsTo("main") /\ Produce("main", LeftOver, "final_flush")
    BY <1>2 DEF ReturnsTo, FinalSweep
  <2>3. /\ todo' \in [Threads -> SUBSET Row]
        /\ DOMAIN ret' = Threads /\ \A u \in Threads : ret'[u] \in ReturnsTo(u)
        /\ DOMAIN pc' = Threads /\ \A u \in Threads : pc'[u] \in LabelsOf(u)
        /\ pc'["sender"] = pc["sender"]
    BY <1>0, <2>1, <2>2, ProduceType DEF Threads
  <2>4. DOMAIN pending' = {}
    BY <1>2 DEF FinalSweep
  <2>5. InRound'
    BY <1>2, <2>3, FrameKeepsInRound DEF InRoundFrame, FinalSweep, local
  <2>. QED
    BY <1>2, <2>3, <2>4, <2>5 DEF FinalSweep, TypeOK, wire, local, timers, history
<1>. QED
  BY <1>1, <1>2

(* The ring callback keeps the types.                                      *)
LEMMA OnEventStep == ASSUME TypeInv, OnEvent PROVE TypeInv'
<1>1. "ring" \in Channels /\ "poll" \in ReturnsTo("main")
  BY DEF Channels, ReturnsTo
<1>2. ready' \subseteq {"icmp4", "icmp6"}
  BY DEF OnEvent, TypeInv, TypeOK
<1>. QED
  BY <1>1, <1>2, ReceiveStep DEF OnEvent

(* TypeInv is inductive.                                                   *)
LEMMA NextTypeInv == TypeInv /\ [Next]_vars => TypeInv'
<1> SUFFICES ASSUME TypeInv, [Next]_vars PROVE TypeInv'
  OBVIOUS
<1>1. CASE Main
  BY <1>1, MainSteps, SweepSteps, OnEventStep DEF Main
<1>2. CASE PollInterrupted \/ PollFails \/ Signal
  BY <1>2, MainSteps
<1>3. CASE Sender \/ SenderDuration
  BY <1>3, SenderSteps, SenderFireStep, SendFailsStep DEF Sender
<1>4. CASE Rx
  BY <1>4, RxSteps DEF Rx
<1>5. CASE \E t \in Threads : RowStep(t)
  BY <1>5, RowSteps
<1>6. CASE ReplyArrives \/ Tick
  BY <1>6, ReplyStep, TickStep
<1>7. CASE Exited \/ UNCHANGED vars
  BY <1>7 DEF Exited, vars, TypeInv, TypeOK, InRound
<1>. QED
  BY <1>1, <1>2, <1>3, <1>4, <1>5, <1>6, <1>7 DEF Next

(***************************************************************************)
(* Every variable keeps its type, whatever the targets, the sizes and the  *)
(* timeouts; in particular the three sequence numbers never leave their    *)
(* width (probe_daemon.py:537, 614, 624).                                  *)
(***************************************************************************)
THEOREM TypeCorrect == Spec => []TypeOK
<1>1. TypeInv => TypeOK
  BY DEF TypeInv
<1>. QED
  BY <1>1, InitTypeInv, NextTypeInv, PTL DEF Spec

-----------------------------------------------------------------------------
(* The bound on the buffer.  The committed threads can be counted, there   *)
(* are at most three.                                                      *)
LEMMA FlushersFinite ==
  ASSUME NEW S \in SUBSET Threads
  PROVE  IsFiniteSet(S) /\ Cardinality(S) \in Nat
<1>1. IsFiniteSet(Threads)
  <2>1. IsFiniteSet({"main"}) /\ IsFiniteSet({"sender"}) /\ IsFiniteSet({"rx"})
    BY FS_Singleton
  <2>2. IsFiniteSet({"main"} \cup {"sender"})
    BY <2>1, FS_Union
  <2>3. IsFiniteSet(({"main"} \cup {"sender"}) \cup {"rx"})
    BY <2>1, <2>2, FS_Union
  <2>4. Threads = ({"main"} \cup {"sender"}) \cup {"rx"}
    BY DEF Threads
  <2>. QED
    BY <2>3, <2>4
<1>2. IsFiniteSet(S)
  BY <1>1, FS_Subset
<1>. QED
  BY <1>2, FS_CardinalityType

(* A committed thread stays committed in every step but its own swap.      *)
StaysCommitted == \A t \in Threads : pc[t] = "swap" => pc'[t] = "swap"

(* A step that leaves the buffer and every thread on its way to a flush    *)
(* alone keeps the bound.                                                  *)
LEMMA CommitKeepsBound ==
  ASSUME TypeOK, BufferBound, StaysCommitted, UNCHANGED buffer
  PROVE  BufferBound'
<1>1. Flushers \subseteq Flushers' /\ Flushers' \in SUBSET Threads
  BY DEF Flushers, StaysCommitted
<1>2. Cardinality(Flushers) <= Cardinality(Flushers')
  BY <1>1, FS_Subset, FlushersFinite
<1>3. /\ Cardinality(Flushers) \in Nat
      /\ Cardinality(Flushers') \in Nat
      /\ Len(buffer) \in Nat
  BY <1>1, FlushersFinite, LenProperties DEF TypeOK
<1>. HIDE DEF Flushers
<1>. QED
  BY <1>2, <1>3, TimingAssumption DEF BufferBound

(* Only _enqueue_row and the swap in _flush disturb the bound.             *)
LEMMA OtherStepsKeepBound ==
  ASSUME TypeInv, BufferBound, [Next]_vars,
         \A t \in Threads : ~Enqueue(t) /\ ~SwapBuffer(t)
  PROVE  BufferBound'
<1> USE DEF TypeInv, TypeOK, Goto, At, rowVars, Threads, StaysCommitted
<1>1. CASE Main \/ PollInterrupted \/ PollFails \/ Signal
  <2>1. CASE OnEvent \/ Sweep \/ FinalSweep
    <3>1. UNCHANGED buffer /\ pc["main"] # "swap"
      BY <2>1 DEF OnEvent, Receive, Sweep, FinalSweep
    <3>2. PICK rows, next : Produce("main", rows, next)
      BY <2>1 DEF OnEvent, Receive, Sweep, FinalSweep
    <3>3. StaysCommitted
      BY <3>1, <3>2 DEF Produce
    <3>. QED
      BY <3>1, <3>3, CommitKeepsBound
  <2>2. CASE MainLoop \/ PollReturns \/ IntervalFlush \/ PollInterrupted
               \/ PollFails \/ Signal
    <3>1. StaysCommitted /\ UNCHANGED buffer
      BY <2>2 DEF MainLoop, PollReturns, IntervalFlush, PollInterrupted,
         PollFails, Signal
    <3>. QED
      BY <3>1, CommitKeepsBound
  <2>3. CASE JoinSender \/ JoinRx \/ FinalFlush \/ CloseSink \/ Exit
    <3>1. StaysCommitted /\ UNCHANGED buffer
      BY <2>3 DEF JoinSender, JoinRx, FinalFlush, CloseSink, Exit
    <3>. QED
      BY <3>1, CommitKeepsBound
  <2>. QED
    BY <1>1, <2>1, <2>2, <2>3 DEF Main
<1>2. CASE Sender \/ SenderDuration
  <2>1. StaysCommitted /\ UNCHANGED buffer
    BY <1>2 DEF Sender, SenderTick, SenderDuration, SenderExit, SenderCheck,
       SenderFire, SendOk, SendRaises, SendFails, Produce
  <2>. QED
    BY <2>1, CommitKeepsBound
<1>3. CASE Rx
  <2>1. StaysCommitted /\ UNCHANGED buffer
    BY <1>3 DEF Rx, RxSelect, HandleIcmpReply, Receive, Produce, RxExit
  <2>. QED
    BY <2>1, CommitKeepsBound
<1>4. CASE \E t \in Threads : SinkWrites(t) \/ SinkDrops(t)
  <2>1. StaysCommitted /\ UNCHANGED buffer
    BY <1>4 DEF SinkWrites, SinkDrops, Resume
  <2>. QED
    BY <2>1, CommitKeepsBound
<1>5. CASE ReplyArrives \/ Tick \/ Exited \/ UNCHANGED vars
  <2>1. StaysCommitted /\ UNCHANGED buffer
    BY <1>5 DEF ReplyArrives, Tick, Exited, vars
  <2>. QED
    BY <2>1, CommitKeepsBound
<1>. QED
  BY <1>1, <1>2, <1>3, <1>4, <1>5 DEF Next, RowStep

(* A row that takes the buffer to the bound or beyond adds a flusher.      *)
LEMMA EnqueueKeepsBound ==
  ASSUME TypeInv, BufferBound, NEW t \in Threads, Enqueue(t)
  PROVE  BufferBound'
<1> USE DEF TypeInv
<1>1. PICK row \in todo[t] : buffer' = Append(buffer, row)
  BY DEF Enqueue
<1>2. buffer \in Seq(Row) /\ row \in Row
  BY <1>1 DEF TypeOK
<1>3. Len(buffer') = Len(buffer) + 1 /\ Len(buffer) \in Nat
  BY <1>1, <1>2, AppendProperties, LenProperties
<1>4. Flushers' \in SUBSET Threads /\ Flushers \in SUBSET Threads
  BY DEF Flushers
<1>5. Cardinality(Flushers') \in Nat /\ Cardinality(Flushers) \in Nat
  BY <1>4, FlushersFinite
<1>6. CASE Len(buffer') >= BatchSize
  <2>1. Goto(t, "swap") /\ pc[t] = "enq"
    BY <1>6 DEF Enqueue, NeedFlush, At
  <2>2. Flushers' = Flushers \cup {t} /\ t \notin Flushers
    BY <2>1 DEF Flushers, Goto, TypeOK
  <2>3. Cardinality(Flushers') = Cardinality(Flushers) + 1
    BY <2>2, <1>4, FlushersFinite, FS_AddElement
  <2>. HIDE DEF Flushers
  <2>. QED
    BY <2>3, <1>3, <1>5, TimingAssumption DEF BufferBound
<1>7. CASE ~(Len(buffer') >= BatchSize)
  <2>. HIDE DEF Flushers
  <2>. QED
    BY <1>7, <1>3, <1>5, TimingAssumption DEF BufferBound
<1>. QED
  BY <1>6, <1>7

(* After the swap the buffer is empty.                                     *)
LEMMA SwapKeepsBound ==
  ASSUME TypeInv, NEW t \in Threads, SwapBuffer(t)
  PROVE  BufferBound'
<1>1. Len(buffer') = 0
  BY DEF SwapBuffer
<1>2. Flushers' \in SUBSET Threads
  BY DEF Flushers
<1>3. Cardinality(Flushers') \in Nat
  BY <1>2, FlushersFinite
<1>. HIDE DEF Flushers
<1>. QED
  BY <1>1, <1>3, TimingAssumption DEF BufferBound

(***************************************************************************)
(* The check for a full buffer is made under buffer_lock and acted upon    *)
(* outside it (probe_daemon.py:505-510).  Every interleaving of the three  *)
(* threads still keeps the buffer below batch_size plus one row for each   *)
(* thread that has seen it full and is about to empty it.                  *)
(***************************************************************************)
THEOREM BufferBounded == Spec => []BufferBound
<1>1. Init => BufferBound
  <2> SUFFICES ASSUME Init PROVE BufferBound
    OBVIOUS
  <2>1. Len(buffer) = 0
    BY DEF Init
  <2>2. Flushers \in SUBSET Threads
    BY DEF Flushers
  <2>3. Cardinality(Flushers) \in Nat
    BY <2>2, FlushersFinite
  <2>. HIDE DEF Flushers
  <2>. QED
    BY <2>1, <2>3, TimingAssumption DEF BufferBound
<1>2. TypeInv /\ BufferBound /\ [Next]_vars => BufferBound'
  BY OtherStepsKeepBound, EnqueueKeepsBound, SwapKeepsBound
<1>. QED
  BY <1>1, <1>2, InitTypeInv, NextTypeInv, PTL DEF Spec

-----------------------------------------------------------------------------
(***************************************************************************)
(* Who may still write a row of a probe.                                   *)
(***************************************************************************)

(* A thread holds rows only inside the row code, and a batch only inside   *)
(* sink.flush.                                                             *)
InHand ==
  \A t \in Threads :
    /\ todo[t] # {} => pc[t] \in {"enq", "swap", "sink"}
    /\ batch[t] # << >> => pc[t] = "sink"

(* No two entries of pending are the same probe.                           *)
Filed ==
  \A k \in DOMAIN pending :
    /\ pending[k].id < nSent
    /\ \A l \in DOMAIN pending : pending[k].id = pending[l].id => k = l

(* A row is of a probe that was fired, and a loss has no round trip time.  *)
Counted == \A r \in AllRows : r.id < nSent /\ (~r.ok => r.rtt = None)

(* A probe that waits for its answer has no row yet.                       *)
Unreported ==
  \A k \in Unmatched : pending[k].id \notin reused =>
    \A r \in AllRows : r.id # pending[k].id

(* Replies are of probes that were sent.                                   *)
OnlySent == \A c \in Channels : Range(inbox[c]) \subseteq air

(* The probe the sender is about to send is the latest one, it is the only *)
(* entry with its number, and it cannot have been answered.                *)
Fresh ==
  pc["sender"] = "send" =>
    /\ \A k \in DOMAIN pending : pending[k].id = nSent - 1 <=> k = sending
    /\ nSent - 1 \notin reused =>
         /\ sending \notin air
         /\ \A r \in AllRows : r.id = nSent - 1 => ~r.ok

Ledger ==
  /\ InHand /\ Filed /\ Counted /\ Unreported /\ OnlySent /\ Fresh
  /\ NoContradiction /\ Accounted

(* The step writes the rows R, each of a probe that waited until then, and *)
(* for each such probe one; other rows only move from place to place.      *)
Reports(R) ==
  /\ AllRows' \subseteq AllRows \cup R
  /\ \A r \in AllRows \cup R : \E s \in AllRows' : s.id = r.id
  /\ \A r \in R :
       /\ ~r.ok => r.rtt = None
       /\ \E k \in Unmatched \ Unmatched' :
            r.id = pending[k].id /\ (r.ok => k \in air)
  /\ \A r, s \in R : r.id = s.id => r = s
  /\ \A k \in Unmatched \ Unmatched' : \E r \in R : r.id = pending[k].id
  /\ DOMAIN pending' \subseteq DOMAIN pending /\ Unmatched' \subseteq Unmatched
  /\ \A k \in DOMAIN pending' : pending'[k].id = pending[k].id
  /\ UNCHANGED <<nSent, reused, sending>>
  /\ pc'["sender"] = "send" => pc["sender"] = "send" /\ UNCHANGED air

(* It answers one probe, or it gives up some.                              *)
Decides(R) ==
  /\ Reports(R)
  /\ (\A r \in R : ~r.ok) \/ (\E x : x.ok /\ R = {x})
  /\ UNCHANGED <<db, dropped>>

-----------------------------------------------------------------------------
(* A step that reports the probes that stop waiting keeps the ledger.      *)
LEMMA ReportsKeepLedger ==
  ASSUME TypeInv, Ledger, NEW R, Reports(R), InHand', OnlySent'
  PROVE  Ledger'
<1> USE DEF Ledger
<1>0. nSent \in Nat /\ nSent' = nSent /\ reused' = reused /\ sending' = sending
  BY DEF Reports, TypeInv, TypeOK
<1>1. Filed'
  BY <1>0 DEF Filed, Reports
<1>2. Unmatched \subseteq DOMAIN pending /\ Unmatched' \subseteq DOMAIN pending'
  BY DEF Unmatched
<1>3. \A r \in R : \E k \in Unmatched \ Unmatched' :
        r.id = pending[k].id /\ (r.ok => k \in air)
  BY DEF Reports
<1>4. \A r \in R : r.id < nSent /\ (~r.ok => r.rtt = None)
  BY <1>2, <1>3 DEF Reports, Filed
<1>5. Counted'
  BY <1>0, <1>4 DEF Counted, Reports
<1>6. Unreported'
  <2> SUFFICES ASSUME NEW k \in Unmatched', pending'[k].id \notin reused,
                      NEW r \in AllRows'
               PROVE  r.id # pending'[k].id
    BY <1>0 DEF Unreported
  <2>1. k \in Unmatched /\ k \in DOMAIN pending /\ pending'[k].id = pending[k].id
    BY <1>2 DEF Reports
  <2>2. CASE r \in AllRows
    BY <2>1, <2>2 DEF Unreported
  <2>3. CASE r \in R
    <3>1. PICK j \in Unmatched \ Unmatched' : r.id = pending[j].id
      BY <1>3, <2>3
    <3>2. j \in DOMAIN pending /\ j # k
      BY <1>2, <3>1
    <3>. QED
      BY <2>1, <3>1, <3>2 DEF Filed
  <2>. QED
    BY <2>2, <2>3 DEF Reports
<1>7. Fresh'
  <2> SUFFICES ASSUME pc'["sender"] = "send"
               PROVE  /\ \A k \in DOMAIN pending' :
                           pending'[k].id = nSent - 1 <=> k = sending
                      /\ nSent - 1 \notin reused =>
                           /\ sending \notin air'
                           /\ \A r \in AllRows' : r.id = nSent - 1 => ~r.ok
    BY <1>0 DEF Fresh
  <2>1. pc["sender"] = "send" /\ air' = air
    BY DEF Reports
  <2>2. \A k \in DOMAIN pending : pending[k].id = nSent - 1 <=> k = sending
    BY <2>1 DEF Fresh
  <2>3. \A k \in DOMAIN pending' : pending'[k].id = nSent - 1 <=> k = sending
    BY <2>2 DEF Reports
  <2>4. ASSUME nSent - 1 \notin reused, NEW r \in AllRows', r.id = nSent - 1
        PROVE  ~r.ok
    <3>1. CASE r \in AllRows
      BY <2>1, <2>4, <3>1 DEF Fresh
    <3>2. CASE r \in R
      <4>1. PICK k \in Unmatched : r.id = pending[k].id /\ (r.ok => k \in air)
        BY <1>3, <3>2
      <4>2. k = sending
        BY <1>2, <2>2, <2>4, <4>1
      <4>. QED
        BY <2>1, <2>4, <4>1, <4>2 DEF Fresh
    <3>. QED
      BY <3>1, <3>2 DEF Reports
  <2>. QED
    BY <2>1, <2>3, <2>4 DEF Fresh
<1>8. NoContradiction'
  <2> SUFFICES ASSUME NEW r \in AllRows', NEW s \in AllRows', r.id = s.id,
                      r.id \notin reused
               PROVE  r = s
    BY <1>0 DEF NoContradiction
  <2>1. ASSUME NEW a \in R, NEW b \in AllRows, a.id = b.id, a.id \notin reused
        PROVE  FALSE
    BY <1>3, <2>1 DEF Unreported
  <2>2. CASE r \in AllRows /\ s \in AllRows
    BY <2>2 DEF NoContradiction
  <2>3. CASE r \in R /\ s \in R
    BY <2>3 DEF Reports
  <2>. QED
    BY <2>1, <2>2, <2>3 DEF Reports
<1>9. Accounted'
  <2> SUFFICES ASSUME NEW id \in 0 .. nSent - 1, id \notin reused
               PROVE  \/ \E k \in Unmatched' : pending'[k].id = id
                      \/ \E r \in AllRows' : r.id = id
    BY <1>0 DEF Accounted
  <2>1. CASE \E r \in AllRows : r.id = id
    BY <2>1 DEF Reports
  <2>2. CASE \E k \in Unmatched : pending[k].id = id
    <3>1. PICK k \in Unmatched : pending[k].id = id
      BY <2>2
    <3>2. CASE k \in Unmatched'
      BY <1>2, <3>1, <3>2 DEF Reports
    <3>3. CASE k \notin Unmatched'
      BY <3>1, <3>3 DEF Reports
    <3>. QED
      BY <3>2, <3>3
  <2>. QED
    BY <2>1, <2>2 DEF Accounted
<1>. QED
  BY <1>1, <1>5, <1>6, <1>7, <1>8, <1>9

-----------------------------------------------------------------------------
(* Where rows are.                                                         *)

(* A row is in a thread's hands, in a batch, in the buffer, stored or      *)
(* given up.                                                               *)
LEMMA WhereRowsAre ==
  /\ \A r : r \in AllRows <=>
       \/ \E t \in Threads : r \in todo[t] \/ r \in Range(batch[t])
       \/ r \in Range(buffer) \/ r \in db \/ r \in dropped
  /\ \A r : r \in AllRows' <=>
       \/ \E t \in Threads : r \in todo'[t] \/ r \in Range(batch'[t])
       \/ r \in Range(buffer') \/ r \in db' \/ r \in dropped'
BY DEF AllRows

(* The elements of a sequence that is empty, or to which one is added.     *)
LEMMA RangeFacts ==
  ASSUME NEW S, NEW s \in Seq(S), NEW e \in S
  PROVE  /\ Range(Append(s, e)) = Range(s) \cup {e}
         /\ s = << >> => Range(s) = {}
<1>1. /\ Len(s) \in Nat /\ DOMAIN s = 1 .. Len(s)
      /\ DOMAIN Append(s, e) = 1 .. Len(s) + 1
      /\ \A i \in 1 .. Len(s) : Append(s, e)[i] = s[i]
      /\ Append(s, e)[Len(s) + 1] = e
  OBVIOUS
<1>2. \A i : i \in 1 .. Len(s) + 1 <=> i \in 1 .. Len(s) \/ i = Len(s) + 1
  BY <1>1
<1>3. \A x : x \in Range(Append(s, e)) <=> x \in Range(s) \cup {e}
  BY <1>1, <1>2 DEF Range
<1>4. s = << >> => Range(s) = {}
  BY DEF Range
<1>. QED
  BY <1>3, <1>4

(* A step that leaves all of them alone.                                   *)
LEMMA RowsStay == ASSUME UNCHANGED rowVars PROVE AllRows' = AllRows
BY DEF AllRows, rowVars

(* The rows a thread produces are added.                                   *)
LEMMA ProducedRows ==
  ASSUME TypeOK, NEW t \in Threads, NEW rows, NEW next,
         Produce(t, rows, next), todo[t] = {},
         UNCHANGED <<batch, buffer, db, dropped>>
  PROVE  AllRows' = AllRows \cup rows
<1>1. \A u \in Threads : todo'[u] = IF u = t THEN rows ELSE todo[u]
  BY DEF Produce, TypeOK
<1>. QED
  BY <1>1, WhereRowsAre

(* The row code moves rows and loses none; what ON CONFLICT DO NOTHING     *)
(* discards is a row of a probe that has one in the table.                 *)
LEMMA RowCodeMovesRows ==
  ASSUME TypeOK, InHand, NEW t \in Threads, RowStep(t)
  PROVE  /\ AllRows' \subseteq AllRows
         /\ \A r \in AllRows : \E s \in AllRows' : s.id = r.id
<1>1. CASE Enqueue(t)
  <2>1. PICK row \in todo[t] :
          buffer' = Append(buffer, row) /\ todo' = [todo EXCEPT ![t] = @ \ {row}]
    BY <1>1 DEF Enqueue
  <2>2. /\ row \in Row /\ buffer \in Seq(Row)
        /\ \A u \in Threads : todo'[u] = IF u = t THEN todo[t] \ {row} ELSE todo[u]
    BY <2>1 DEF TypeOK
  <2>3. Range(buffer') = Range(buffer) \cup {row}
    BY <2>1, <2>2, RangeFacts
  <2>4. UNCHANGED <<batch, db, dropped>>
    BY <1>1 DEF Enqueue
  <2>5. \A r : r \in AllRows' <=> r \in AllRows
    BY <2>1, <2>2, <2>3, <2>4, WhereRowsAre
  <2>. QED
    BY <2>5
<1>2. CASE SwapBuffer(t)
  <2>1. /\ \A u \in Threads : batch'[u] = IF u = t THEN buffer ELSE batch[u]
        /\ buffer' = << >>
        /\ UNCHANGED <<todo, db, dropped>>
    BY <1>2 DEF SwapBuffer, Taken, TypeOK
  <2>2. Range(buffer') = {} /\ Range(batch[t]) = {}
    <3>1. batch[t] = << >>
      BY <1>2 DEF InHand, SwapBuffer, At
    <3>. QED
      BY <2>1, <3>1 DEF Range
  <2>3. \A r : r \in AllRows' <=> r \in AllRows
    BY <2>1, <2>2, WhereRowsAre
  <2>. QED
    BY <2>3
<1>3. CASE SinkWrites(t)
  <2>1. /\ \A u \in Threads : batch'[u] = IF u = t THEN << >> ELSE batch[u]
        /\ db' = Insert(Range(batch[t]))
        /\ UNCHANGED <<todo, buffer, dropped>>
    BY <1>3 DEF SinkWrites, TypeOK
  <2>2. Range(<< >>) = {}
    BY DEF Range
  <2>3. /\ db \subseteq db' /\ db' \subseteq db \cup Range(batch[t])
        /\ \A r \in Range(batch[t]) : \E s \in db' : s.id = r.id
    BY <2>1 DEF Insert
  <2>4. AllRows' \subseteq AllRows
    BY <2>1, <2>2, <2>3, WhereRowsAre
  <2>5. ASSUME NEW r \in AllRows PROVE \E s \in AllRows' : s.id = r.id
    <3>1. CASE r \in Range(batch[t])
      BY <2>3, <3>1, WhereRowsAre
    <3>2. CASE r \notin Range(batch[t])
      <4>1. r \in AllRows'
        BY <2>1, <2>3, <3>2, WhereRowsAre
      <4>. QED
        BY <4>1
    <3>. QED
      BY <3>1, <3>2
  <2>. QED
    BY <2>4, <2>5
<1>4. CASE SinkDrops(t)
  <2>1. /\ \A u \in Threads : batch'[u] = IF u = t THEN << >> ELSE batch[u]
        /\ db \subseteq db' /\ db' \subseteq db \cup Range(batch[t])
        /\ dropped' = dropped \cup Range(batch[t])
        /\ UNCHANGED <<todo, buffer>>
    BY <1>4 DEF SinkDrops, Insert, TypeOK
  <2>2. Range(<< >>) = {}
    BY DEF Range
  <2>3. AllRows' \subseteq AllRows
    BY <2>1, <2>2, WhereRowsAre
  <2>4. AllRows \subseteq AllRows'
    BY <2>1, <2>2, WhereRowsAre
  <2>. QED
    BY <2>3, <2>4
<1>. QED
  BY <1>1, <1>2, <1>3, <1>4 DEF RowStep

-----------------------------------------------------------------------------
(* The steps.                                                              *)

InRowCode == {"enq", "swap", "sink"}

(* A thread outside the row code may go wherever it likes empty-handed.    *)
LEMMA GotoKeepsInHand ==
  ASSUME TypeOK, InHand, NEW t \in Threads, pc[t] \notin InRowCode,
         NEW label, Goto(t, label), UNCHANGED <<todo, batch>>
  PROVE  InHand'
BY DEF TypeOK, InHand, Goto, InRowCode

(* With rows to enqueue it enters the row code.                            *)
LEMMA ProduceKeepsInHand ==
  ASSUME TypeOK, InHand, NEW t \in Threads, pc[t] \notin InRowCode,
         NEW rows, NEW next, Produce(t, rows, next), UNCHANGED batch
  PROVE  InHand' /\ todo[t] = {}
<1>1. todo[t] = {} /\ batch[t] = << >>
  BY DEF InHand, InRowCode
<1>2. /\ todo' = [todo EXCEPT ![t] = rows]
      /\ pc' = [pc EXCEPT ![t] = IF rows = {} THEN next ELSE "enq"]
  BY DEF Produce, Goto
<1>3. \A u \in Threads :
        /\ todo'[u] = IF u = t THEN rows ELSE todo[u]
        /\ u # t => pc'[u] = pc[u]
        /\ rows # {} => pc'[t] = "enq"
  BY <1>2 DEF TypeOK
<1>. QED
  BY <1>1, <1>3 DEF InHand

(* It leaves the row code with nothing to enqueue.                         *)
LEMMA RowCodeKeepsInHand ==
  ASSUME TypeOK, InHand, NEW t \in Threads, RowStep(t)
  PROVE  InHand'
<1>0. /\ todo \in [Threads -> SUBSET Row] /\ batch \in [Threads -> Seq(Row)]
      /\ DOMAIN pc = Threads
  BY DEF TypeOK
<1>1. ASSUME Resume(t), UNCHANGED todo,
             \A u \in Threads : batch'[u] = IF u = t THEN << >> ELSE batch[u]
      PROVE  InHand'
  <2>1. /\ \A u \in Threads : u # t => pc'[u] = pc[u]
        /\ todo'[t] # {} => pc'[t] = "enq"
    BY <1>0, <1>1 DEF Resume, Goto
  <2>. QED
    BY <1>1, <2>1 DEF InHand
<1>2. CASE Enqueue(t)
  <2>1. /\ \A u \in Threads : u # t => todo'[u] = todo[u] /\ pc'[u] = pc[u]
        /\ pc'[t] \in {"enq", "swap"} \/ todo'[t] = {}
        /\ pc[t] = "enq"
        /\ UNCHANGED batch
    BY <1>0, <1>2 DEF Enqueue, Resume, Goto, At
  <2>. QED
    BY <2>1 DEF InHand
<1>3. CASE SwapBuffer(t)
  <2>1. CASE buffer = << >>
    <3>1. Resume(t) /\ UNCHANGED todo
      BY <1>3, <2>1 DEF SwapBuffer
    <3>2. \A u \in Threads : batch'[u] = IF u = t THEN << >> ELSE batch[u]
      BY <1>0, <1>3, <2>1 DEF SwapBuffer, Taken
    <3>. QED
      BY <1>1, <3>1, <3>2
  <2>2. CASE buffer # << >>
    <3>1. /\ \A u \in Threads : u # t => batch'[u] = batch[u] /\ pc'[u] = pc[u]
          /\ pc'[t] = "sink" /\ UNCHANGED todo
      BY <1>0, <1>3, <2>2 DEF SwapBuffer, Goto
    <3>. QED
      BY <3>1 DEF InHand
  <2>. QED
    BY <2>1, <2>2
<1>4. CASE SinkWrites(t) \/ SinkDrops(t)
  <2>1. Resume(t) /\ UNCHANGED todo /\ batch' = [batch EXCEPT ![t] = << >>]
    BY <1>4 DEF SinkWrites, SinkDrops
  <2>2. \A u \in Threads : batch'[u] = IF u = t THEN << >> ELSE batch[u]
    BY <1>0, <2>1
  <2>. QED
    BY <1>1, <2>1, <2>2
<1>. QED
  BY <1>2, <1>3, <1>4 DEF RowStep

(* Without a new row.                                                      *)
LEMMA SilentSteps ==
  ASSUME UNCHANGED rowVars \/ (/\ AllRows' \subseteq AllRows
                               /\ \A r \in AllRows : \E s \in AllRows' : s.id = r.id),
         DOMAIN pending' = DOMAIN pending,
         \A k \in DOMAIN pending : /\ pending'[k].id = pending[k].id
                                   /\ pending'[k].matched = pending[k].matched,
         UNCHANGED <<nSent, reused, sending>>,
         pc'["sender"] = "send" => pc["sender"] = "send" /\ UNCHANGED air
  PROVE  Reports({})
<1>1. /\ AllRows' \subseteq AllRows
      /\ \A r \in AllRows : \E s \in AllRows' : s.id = r.id
  BY RowsStay
<1>2. Unmatched' = Unmatched
  BY DEF Unmatched
<1>. QED
  BY <1>1, <1>2 DEF Reports

(* The row code does not touch the map of probes.                          *)
LEMMA RowStepLedger ==
  ASSUME TypeInv, Ledger, NEW t \in Threads, RowStep(t)
  PROVE  Ledger' /\ Reports({}) /\ UNCHANGED <<nSent, reused>>
<1>0. TypeOK /\ InHand /\ OnlySent
  BY DEF TypeInv, Ledger
<1>1. UNCHANGED <<pending, nSent, inbox, air, reused, sending>>
  BY DEF RowStep, Enqueue, SwapBuffer, SinkWrites, SinkDrops, wire, local, history
<1>2. pc'["sender"] = "send" => pc["sender"] = "send"
  <2>1. \E label \in {"enq", "swap", "sink", ret[t]} : Goto(t, label)
    BY DEF RowStep, Enqueue, SwapBuffer, SinkWrites, SinkDrops, Resume
  <2>2. ret["sender"] = "check"
    BY <1>0 DEF TypeOK, ReturnsTo, Threads
  <2>. QED
    BY <1>0, <2>1, <2>2 DEF Goto, TypeOK, Threads
<1>3. Reports({})
  BY <1>0, <1>1, <1>2, RowCodeMovesRows, SilentSteps
<1>4. OnlySent'
  BY <1>0, <1>1 DEF OnlySent
<1>. QED
  BY <1>0, <1>1, <1>3, <1>4, RowCodeKeepsInHand, ReportsKeepLedger

(* A step that leaves the probes and the rows where they are.              *)
LEMMA QuietStep ==
  ASSUME TypeInv, Ledger, InHand', OnlySent',
         UNCHANGED <<pending, nSent, reused, sending, rowVars>>,
         pc'["sender"] = "send" => pc["sender"] = "send" /\ UNCHANGED air
  PROVE  Ledger'
<1>1. Reports({})
  BY SilentSteps
<1>. QED
  BY <1>1, ReportsKeepLedger

(* The steps in which a thread only moves on.                              *)
LEMMA MovesKeepLedger ==
  ASSUME TypeInv, Ledger, NEW t \in Threads, pc[t] \notin InRowCode,
         NEW label, Goto(t, label), t = "sender" => label # "send",
         UNCHANGED <<pending, nSent, inbox, air, reused, sending, rowVars>>
  PROVE  Ledger'
<1>0. TypeOK /\ InHand /\ OnlySent
  BY DEF TypeInv, Ledger
<1>1. InHand'
  BY <1>0, GotoKeepsInHand DEF rowVars
<1>2. OnlySent'
  BY <1>0 DEF OnlySent
<1>3. pc'["sender"] = "send" => pc["sender"] = "send"
  BY <1>0 DEF Goto, TypeOK, Threads
<1>. QED
  BY <1>1, <1>2, <1>3, QuietStep

(* The sender between probes, and the successful send.                     *)
LEMMA SenderLedger ==
  ASSUME TypeInv, Ledger,
         SenderTick \/ SenderDuration \/ SenderExit \/ SenderCheck
           \/ SendOk \/ SendRaises
  PROVE  Ledger'
<1>0. TypeOK /\ InHand /\ OnlySent /\ "sender" \in Threads
  BY DEF TypeInv, Ledger, Threads
<1>1. PICK label \in {"check", "done", "wait", "fire"} : Goto("sender", label)
  BY DEF SenderTick, SenderDuration, SenderExit, SenderCheck, SendOk, SendRaises
<1>2. pc["sender"] \notin InRowCode
  BY DEF SenderTick, SenderDuration, SenderExit, SenderCheck, SendOk,
     SendRaises, At, InRowCode
<1>3. CASE SenderTick \/ SenderDuration \/ SenderExit \/ SenderCheck \/ SendRaises
  <2>1. UNCHANGED <<pending, nSent, inbox, air, reused, sending, rowVars>>
    BY <1>3 DEF SenderTick, SenderDuration, SenderExit, SenderCheck,
       SendRaises, wire, local, history
  <2>. QED
    BY <1>0, <1>1, <1>2, <2>1, MovesKeepLedger
<1>4. CASE SendOk
  <2>1. /\ UNCHANGED <<pending, nSent, inbox, reused, sending, rowVars>>
        /\ air \subseteq air'
    BY <1>4 DEF SendOk, history
  <2>2. InHand'
    BY <1>0, <1>1, <1>2, <2>1, GotoKeepsInHand DEF rowVars
  <2>3. OnlySent'
    BY <1>0, <2>1 DEF OnlySent
  <2>4. pc'["sender"] # "send"
    BY <1>0, <1>1 DEF Goto, TypeOK
  <2>. QED
    BY <2>1, <2>2, <2>3, <2>4, QuietStep
<1>. QED
  BY <1>3, <1>4

(* The loop and the shutdown sequence of run(), and the rx thread's loop.  *)
LEMMA LoopsLedger ==
  ASSUME TypeInv, Ledger,
         \/ MainLoop \/ PollReturns \/ PollInterrupted \/ PollFails
         \/ IntervalFlush \/ JoinSender \/ JoinRx \/ FinalFlush
         \/ CloseSink \/ Exit \/ RxSelect \/ RxExit
  PROVE  Ledger'
<1>1. CASE RxSelect \/ RxExit
  <2>1. PICK label : Goto("rx", label)
    BY <1>1 DEF RxSelect, RxExit
  <2>2. pc["rx"] \notin InRowCode /\ "rx" \in Threads
    BY <1>1 DEF RxSelect, RxExit, At, InRowCode, Threads
  <2>3. UNCHANGED <<pending, nSent, inbox, air, reused, sending, rowVars>>
    BY <1>1 DEF RxSelect, RxExit, wire, local, history
  <2>. QED
    BY <2>1, <2>2, <2>3, MovesKeepLedger
<1>2. CASE MainLoop \/ PollReturns \/ PollInterrupted \/ PollFails \/ IntervalFlush
  <2>1. PICK label : Goto("main", label)
    BY <1>2 DEF MainLoop, PollReturns, PollInterrupted, PollFails, IntervalFlush
  <2>2. pc["main"] \notin InRowCode /\ "main" \in Threads
    BY <1>2 DEF MainLoop, PollReturns, PollInterrupted, PollFails,
       IntervalFlush, At, InRowCode, Threads
  <2>3. UNCHANGED <<pending, nSent, inbox, air, reused, sending, rowVars>>
    BY <1>2 DEF MainLoop, PollReturns, PollInterrupted, PollFails,
       IntervalFlush, wire, local, history
  <2>. QED
    BY <2>1, <2>2, <2>3, MovesKeepLedger
<1>3. CASE JoinSender \/ JoinRx \/ FinalFlush \/ CloseSink \/ Exit
  <2>1. PICK label : Goto("main", label)
    BY <1>3 DEF JoinSender, JoinRx, FinalFlush, CloseSink, Exit
  <2>2. pc["main"] \notin InRowCode /\ "main" \in Threads
    BY <1>3 DEF JoinSender, JoinRx, FinalFlush, CloseSink, Exit, At,
       InRowCode, Threads
  <2>3. UNCHANGED <<pending, nSent, inbox, air, reused, sending, rowVars>>
    BY <1>3 DEF JoinSender, JoinRx, FinalFlush, CloseSink, Exit, wire,
       local, history
  <2>. QED
    BY <2>1, <2>2, <2>3, MovesKeepLedger
<1>. QED
  BY <1>1, <1>2, <1>3

(* A signal, a reply on its way in, and the passing of time.               *)
LEMMA AroundLedger ==
  ASSUME TypeInv, Ledger,
         Signal \/ ReplyArrives \/ Tick \/ Exited \/ UNCHANGED vars
  PROVE  Ledger'
<1>0. TypeOK /\ InHand /\ OnlySent
  BY DEF TypeInv, Ledger
<1>1. UNCHANGED <<pc, nSent, air, reused, sending, rowVars>>
  BY DEF Signal, ReplyArrives, Tick, Exited, vars, wire, local, history, rowVars
<1>2. InHand'
  BY <1>0, <1>1 DEF InHand, rowVars
<1>3. CASE Signal \/ Tick \/ Exited \/ UNCHANGED vars
  <2>1. /\ UNCHANGED inbox
        /\ DOMAIN pending' = DOMAIN pending
        /\ \A k \in DOMAIN pending : /\ pending'[k].id = pending[k].id
                                     /\ pending'[k].matched = pending[k].matched
    <3>1. CASE Signal \/ Exited \/ UNCHANGED vars
      BY <3>1 DEF Signal, Exited, vars
    <3>2. CASE Tick
      <4>1. UNCHANGED inbox /\ \A k \in DOMAIN pending : pending[k] \in Entry
        BY <1>0, <3>2 DEF Tick, TypeOK
      <4>2. pending' = [k \in DOMAIN pending |->
              [pending[k] EXCEPT !.age =
                 Older(@, IF pending[k].matched THEN MatchedTTL ELSE Timeout + 1)]]
        BY <3>2 DEF Tick
      <4>. QED
        BY <4>1, <4>2 DEF Entry
    <3>. QED
      BY <1>3, <3>1, <3>2
  <2>2. Reports({})
    BY <1>1, <2>1, SilentSteps
  <2>3. OnlySent'
    BY <1>0, <1>1, <2>1 DEF OnlySent
  <2>. QED
    BY <1>2, <2>2, <2>3, ReportsKeepLedger
<1>4. CASE ReplyArrives
  <2>1. PICK key \in air :
          inbox' = [inbox EXCEPT ![ChannelOf(key)] = Append(@, key)]
    BY <1>4 DEF ReplyArrives
  <2>2. key \in Key /\ inbox \in [Channels -> Seq(Key)]
    BY <1>0 DEF TypeOK
  <2>3. \A c \in Channels : inbox[c] \in Seq(Key)
    BY <2>2
  <2>4. \A c \in Channels : Range(Append(inbox[c], key)) = Range(inbox[c]) \cup {key}
    BY <2>2, <2>3, RangeFacts
  <2>5. \A c \in Channels : inbox'[c] \in {inbox[c], Append(inbox[c], key)}
    BY <2>1, <2>2
  <2>6. OnlySent'
    BY <1>0, <1>1, <2>4, <2>5 DEF OnlySent
  <2>7. UNCHANGED pending
    BY <1>4 DEF ReplyArrives
  <2>. QED
    BY <1>1, <1>2, <2>6, <2>7, QuietStep
<1>. QED
  BY <1>3, <1>4

(* The first element of a queue and the rest are in the queue.             *)
LEMMA QueueFacts ==
  ASSUME NEW S, NEW s \in Seq(S), s # << >>
  PROVE  Head(s) \in Range(s) /\ Range(Tail(s)) \subseteq Range(s)
<1>1. /\ Len(s) \in Nat \ {0} /\ DOMAIN s = 1 .. Len(s) /\ Head(s) = s[1]
      /\ DOMAIN Tail(s) = 1 .. Len(s) - 1
      /\ \A i \in 1 .. Len(s) - 1 : Tail(s)[i] = s[i + 1]
  BY HeadTailProperties, LenProperties
<1>2. 1 \in 1 .. Len(s) /\ \A i \in 1 .. Len(s) - 1 : i + 1 \in 1 .. Len(s)
  BY <1>1
<1>. QED
  BY <1>1, <1>2 DEF Range

(* A thread other than the sender hands over rows and does nothing else to *)
(* the probes than to report them.                                         *)
LEMMA HandOver ==
  ASSUME TypeInv, Ledger, NEW t \in {"main", "rx"}, pc[t] \notin InRowCode,
         NEW R, NEW next, Produce(t, R, next), OnlySent',
         UNCHANGED <<nSent, reused, sending, air, batch, buffer, db, dropped>>,
         \A r \in R : ~r.ok => r.rtt = None,
         \A r \in R : \E k \in Unmatched \ Unmatched' :
           r.id = pending[k].id /\ (r.ok => k \in air),
         \A r, s \in R : r.id = s.id => r = s,
         \A k \in Unmatched \ Unmatched' : \E r \in R : r.id = pending[k].id,
         DOMAIN pending' \subseteq DOMAIN pending, Unmatched' \subseteq Unmatched,
         \A k \in DOMAIN pending' : pending'[k].id = pending[k].id
  PROVE  Ledger' /\ Reports(R) /\ UNCHANGED <<db, dropped>>
<1>0. TypeOK /\ InHand /\ t \in Threads
  BY DEF TypeInv, Ledger, Threads
<1>1. InHand' /\ todo[t] = {}
  BY <1>0, ProduceKeepsInHand
<1>2. AllRows' = AllRows \cup R
  BY <1>0, <1>1, ProducedRows
<1>3. pc'["sender"] = pc["sender"]
  BY <1>0 DEF Produce, Goto, TypeOK, Threads
<1>4. /\ AllRows' \subseteq AllRows \cup R
      /\ \A r \in AllRows \cup R : \E s \in AllRows' : s.id = r.id
  BY <1>2
<1>5. Reports(R)
  BY <1>3, <1>4 DEF Reports
<1>. QED
  BY <1>1, <1>5, ReportsKeepLedger

(* A reply that is taken up reports its probe as answered.                 *)
LEMMA ReceiveLedger ==
  ASSUME TypeInv, Ledger, NEW t \in {"main", "rx"}, pc[t] \notin InRowCode,
         NEW c \in Channels, NEW next, Receive(t, c, next)
  PROVE  Ledger' /\ \E R : Decides(R) /\ \A r \in R : r.ok
<1> DEFINE key == Head(inbox[c])
           row == OkRow(pending[key].id, pending[key].age)
<1>0. TypeOK /\ OnlySent
  BY DEF TypeInv, Ledger
<1>1. inbox[c] \in Seq(Key) /\ inbox[c] # << >>
      /\ inbox' = [inbox EXCEPT ![c] = Tail(@)]
  BY <1>0 DEF Receive, TypeOK
<1>2. key \in air /\ Range(Tail(inbox[c])) \subseteq air
  BY <1>0, <1>1, QueueFacts DEF OnlySent
<1>3. UNCHANGED <<nSent, reused, sending, air, batch, buffer, db, dropped>>
  BY DEF Receive, wire, history
<1>4. OnlySent'
  <2>1. \A d \in Channels : inbox'[d] = IF d = c THEN Tail(inbox[c]) ELSE inbox[d]
    BY <1>0, <1>1 DEF TypeOK
  <2>. QED
    BY <1>0, <1>2, <1>3, <2>1 DEF OnlySent
<1>5. CASE Answers(key)
  <2>1. key \in DOMAIN pending /\ ~pending[key].matched
    BY <1>5 DEF Answers, Unmatched
  <2>2. /\ pending' = [pending EXCEPT ![key].matched = TRUE, ![key].age = 0]
        /\ Produce(t, {row}, next)
    BY <1>5 DEF Receive
  <2>3. row.id = pending[key].id /\ row.ok
    BY DEF OkRow
  <2>4. \A k \in DOMAIN pending : pending[k] \in Entry
    BY <1>0 DEF TypeOK
  <2> HIDE DEF key, row
  <2>5. /\ DOMAIN pending' = DOMAIN pending
        /\ \A k \in DOMAIN pending :
             /\ pending'[k].id = pending[k].id
             /\ pending'[k].matched = (pending[k].matched \/ k = key)
    BY <2>1, <2>2, <2>4 DEF Entry
  <2>6. Unmatched' = Unmatched \ {key} /\ key \in Unmatched
    BY <2>1, <2>5 DEF Unmatched
  <2>7. Ledger' /\ Reports({row}) /\ UNCHANGED <<db, dropped>>
    BY <1>2, <1>3, <1>4, <2>2, <2>3, <2>5, <2>6, HandOver
  <2>. QED
    BY <2>3, <2>7 DEF Decides
<1>6. CASE ~Answers(key)
  <2>1. Produce(t, {}, next) /\ UNCHANGED pending
    BY <1>6 DEF Receive
  <2>2. Unmatched' = Unmatched
    BY <2>1 DEF Unmatched
  <2>3. Ledger' /\ Reports({}) /\ UNCHANGED <<db, dropped>>
    BY <1>3, <1>4, <2>1, <2>2, HandOver
  <2>. QED
    BY <2>3 DEF Decides
<1>. QED
  BY <1>5, <1>6

(* So do the sweeps, for the probes they give up.                          *)
LEMMA SweepLedger ==
  ASSUME TypeInv, Ledger, Sweep \/ FinalSweep
  PROVE  Ledger' /\ \E R : Decides(R)
<1>0. TypeOK /\ OnlySent /\ Unmatched \subseteq DOMAIN pending
  BY DEF TypeInv, Ledger, Unmatched
<1>1. /\ UNCHANGED <<nSent, reused, sending, air, inbox, batch, buffer, db, dropped>>
      /\ pc["main"] \notin InRowCode
  BY DEF Sweep, FinalSweep, wire, local, history, At, InRowCode
<1>2. OnlySent'
  BY <1>0, <1>1 DEF OnlySent
<1>3. ASSUME NEW gone, gone = Unmatched \ Unmatched', NEW next,
             Produce("main", Losses(gone), next),
             DOMAIN pending' \subseteq DOMAIN pending,
             \A k \in DOMAIN pending' : pending'[k] = pending[k]
      PROVE  Ledger' /\ \E R : Decides(R)
  <2>1. Unmatched' \subseteq Unmatched
    BY <1>3 DEF Unmatched
  <2>2. \A r \in Losses(gone) :
          /\ ~r.ok /\ r.rtt = None
          /\ \E k \in gone : r = LossRow(pending[k].id) /\ r.id = pending[k].id
    BY DEF Losses, LossRow
  <2>3. \A r, s \in Losses(gone) : r.id = s.id => r = s
    BY <2>2
  <2>4. \A k \in gone : \E r \in Losses(gone) : r.id = pending[k].id
    <3>1. \A k \in gone : LossRow(pending[k].id) \in Losses(gone)
      BY DEF Losses
    <3>2. \A k \in gone : LossRow(pending[k].id).id = pending[k].id
      BY DEF LossRow
    <3> HIDE DEF LossRow, Losses
    <3>. QED
      BY <3>1, <3>2
  <2> DEFINE R == Losses(gone)
  <2>5. Produce("main", R, next) /\ "main" \in {"main", "rx"}
    BY <1>3
  <2>6. /\ \A r \in R : ~r.ok => r.rtt = None
        /\ \A r \in R : \E k \in Unmatched \ Unmatched' :
             r.id = pending[k].id /\ (r.ok => k \in air)
        /\ \A r, s \in R : r.id = s.id => r = s
        /\ \A k \in Unmatched \ Unmatched' : \E r \in R : r.id = pending[k].id
    BY <1>3, <2>2, <2>3, <2>4
  <2>7. \A k \in DOMAIN pending' : pending'[k].id = pending[k].id
    BY <1>3
  <2>8. \A r \in R : ~r.ok
    BY <2>2
  <2> HIDE DEF Losses, R
  <2>9. Ledger' /\ Reports(R) /\ UNCHANGED <<db, dropped>>
    BY <1>1, <1>2, <1>3, <2>1, <2>5, <2>6, <2>7, HandOver
  <2>. QED
    BY <2>8, <2>9 DEF Decides
<1>4. CASE Sweep
  <2>1. /\ pending' = Without(Expired \cup Stale)
        /\ Produce("main", Losses(Expired), "interval")
    BY <1>4 DEF Sweep
  <2>2. /\ DOMAIN pending' = DOMAIN pending \ (Expired \cup Stale)
        /\ \A k \in DOMAIN pending' : pending'[k] = pending[k]
    BY <2>1 DEF Without, Restrict
  <2>3. Expired = Unmatched \ Unmatched'
    BY <2>2 DEF Unmatched, Expired, Stale
  <2>. QED
    BY <1>3, <2>1, <2>2, <2>3
<1>5. CASE FinalSweep
  <2>1. pending' = << >> /\ Produce("main", Losses(Unmatched), "final_flush")
    BY <1>5 DEF FinalSweep, LeftOver
  <2>2. DOMAIN pending' = {}
    BY <2>1
  <2>3. Unmatched = Unmatched \ Unmatched'
    BY <2>2 DEF Unmatched
  <2>. QED
    BY <1>3, <2>1, <2>2, <2>3
<1>. QED
  BY <1>4, <1>5

(* The rows are rows.                                                      *)
LEMMA RowsTyped == ASSUME TypeOK PROVE AllRows \subseteq Row
<1>1. \A t \in Threads : todo[t] \subseteq Row /\ Range(batch[t]) \subseteq Row
  BY RowTypes DEF TypeOK
<1>2. Range(buffer) \subseteq Row /\ db \subseteq Row /\ dropped \subseteq Row
  BY DEF TypeOK, Range
<1>. QED
  BY <1>1, <1>2, WhereRowsAre

(* A new probe waits; the entry it overwrites is remembered in reused.     *)
LEMMA SenderFireLedger == ASSUME TypeInv, Ledger, SenderFire PROVE Ledger'
<1> DEFINE key == NextKey(Pairs[idx])
           new == [id |-> nSent, age |-> 0, matched |-> FALSE]
<1>0. /\ TypeOK /\ nSent \in Nat
      /\ InHand /\ Filed /\ Counted /\ Unreported /\ OnlySent
      /\ NoContradiction /\ Accounted
  BY DEF TypeInv, Ledger, TypeOK
<1>1. /\ nSent' = nSent + 1 /\ sending' = key
      /\ pending' = Put(pending, key, new)
      /\ Goto("sender", "send") /\ pc["sender"] = "fire"
      /\ UNCHANGED <<air, inbox, rowVars>>
  BY DEF SenderFire, At, wire
<1>2. /\ reused \subseteq reused'
      /\ key \in DOMAIN pending => pending[key].id \in reused'
      /\ key \in DOMAIN pending \cup air => nSent \in reused'
  BY DEF SenderFire
<1> HIDE DEF key
<1>3. /\ DOMAIN pending' = DOMAIN pending \cup {key}
      /\ pending'[key].id = nSent /\ ~pending'[key].matched
      /\ \A k \in DOMAIN pending : k # key => pending'[k] = pending[k]
  BY <1>1 DEF Put
<1> HIDE DEF new
<1>4. AllRows' = AllRows /\ \A r \in AllRows : r.id \in Nat
  BY <1>0, <1>1, RowsStay, RowsTyped DEF Row
<1>5. \A k \in DOMAIN pending : pending[k].id \in Nat /\ pending[k].id < nSent
  BY <1>0 DEF Filed, TypeOK, Entry
<1>6. \A r \in AllRows : r.id < nSent
  BY <1>0 DEF Counted
<1>7. InHand'
  BY <1>0, <1>1, GotoKeepsInHand DEF InRowCode, rowVars, Threads
<1>8. Filed'
  BY <1>0, <1>1, <1>3, <1>5 DEF Filed
<1>9. Counted'
  BY <1>0, <1>1, <1>4 DEF Counted
<1>10. Unreported'
  BY <1>0, <1>2, <1>3, <1>4, <1>6 DEF Unreported, Unmatched
<1>11. OnlySent'
  BY <1>0, <1>1 DEF OnlySent
<1>12. Fresh'
  <2>1. nSent' - 1 = nSent /\ air' = air
    BY <1>0, <1>1
  <2>2. \A k \in DOMAIN pending' : pending'[k].id = nSent <=> k = key
    BY <1>0, <1>3, <1>5
  <2>3. nSent \notin reused' => key \notin air
    BY <1>2
  <2>4. \A r \in AllRows' : r.id # nSent
    BY <1>0, <1>4, <1>6
  <2>. QED
    BY <1>1, <2>1, <2>2, <2>3, <2>4 DEF Fresh
<1>13. NoContradiction'
  BY <1>0, <1>2, <1>4 DEF NoContradiction
<1>14. Accounted'
  <2> SUFFICES ASSUME NEW id \in 0 .. nSent' - 1, id \notin reused'
               PROVE  \/ \E k \in Unmatched' : pending'[k].id = id
                      \/ \E r \in AllRows' : r.id = id
    BY DEF Accounted
  <2>1. CASE id = nSent
    BY <1>3, <2>1 DEF Unmatched
  <2>2. CASE id # nSent
    <3>1. id \in 0 .. nSent - 1 /\ id \notin reused
      BY <1>0, <1>1, <1>2, <2>2
    <3>2. CASE \E r \in AllRows : r.id = id
      BY <1>4, <3>2
    <3>3. CASE \E k \in Unmatched : pending[k].id = id
      <4>1. PICK k \in Unmatched : pending[k].id = id
        BY <3>3
      <4>2. k \in DOMAIN pending /\ ~pending[k].matched
        BY DEF Unmatched
      <4>3. k # key
        BY <1>2, <4>1, <4>2
      <4>4. k \in Unmatched' /\ pending'[k].id = id
        BY <1>3, <4>1, <4>2, <4>3 DEF Unmatched
      <4>. QED
        BY <4>4
    <3>. QED
      BY <1>0, <3>1, <3>2, <3>3 DEF Accounted
  <2>. QED
    BY <2>1, <2>2
<1>. QED
  BY <1>7, <1>8, <1>9, <1>10, <1>11, <1>12, <1>13, <1>14 DEF Ledger

(* A probe whose packet could not be sent is lost, and nothing else can    *)
(* have been said about it, except that a sweep gave it up already.        *)
LEMMA SendFailsLedger == ASSUME TypeInv, Ledger, SendFails PROVE Ledger'
<1> DEFINE loss == LossRow(nSent - 1)
<1>0. /\ TypeOK /\ "sender" \in Threads
      /\ InHand /\ Filed /\ Counted /\ Unreported /\ OnlySent /\ Fresh
      /\ NoContradiction /\ Accounted
  BY DEF TypeInv, Ledger, Threads
<1>1. /\ UNCHANGED <<nSent, reused, sending, air, inbox, batch, buffer, db, dropped>>
      /\ pending' = Without({sending})
      /\ Produce("sender", {loss}, "check")
      /\ pc["sender"] = "send"
  BY DEF SendFails, FailedRows, At, wire, history
<1>2. nSent \in Nat \ {0}
  BY <1>0, <1>1 DEF TypeInv, TypeOK, InRound
<1>3. /\ loss.id = nSent - 1 /\ loss.ok = FALSE /\ loss.rtt = None
      /\ loss = [id |-> nSent - 1, ok |-> FALSE, rtt |-> None]
  BY DEF LossRow
<1> HIDE DEF loss
<1>4. InHand' /\ AllRows' = AllRows \cup {loss}
  <2>1. pc["sender"] \notin InRowCode
    BY <1>1 DEF InRowCode
  <2>2. InHand' /\ todo["sender"] = {}
    BY <1>0, <1>1, <2>1, ProduceKeepsInHand
  <2>. QED
    BY <1>0, <1>1, <2>2, ProducedRows
<1>5. /\ DOMAIN pending' = DOMAIN pending \ {sending}
      /\ \A k \in DOMAIN pending' : pending'[k] = pending[k]
  BY <1>1 DEF Without, Restrict
<1>6. /\ \A k \in DOMAIN pending : pending[k].id = nSent - 1 <=> k = sending
      /\ nSent - 1 \notin reused =>
           \A r \in AllRows : r.id = nSent - 1 => ~r.ok
  BY <1>0, <1>1 DEF Fresh
<1>7. Unmatched' = Unmatched \ {sending} /\ Unmatched \subseteq DOMAIN pending
  BY <1>5 DEF Unmatched
<1>8. Filed'
  BY <1>0, <1>1, <1>5 DEF Filed
<1>9. Counted'
  <2>1. \A r \in AllRows : r.id < nSent /\ (~r.ok => r.rtt = None)
    BY <1>0 DEF Counted
  <2>2. loss.id < nSent /\ loss.rtt = None
    BY <1>2, <1>3
  <2>3. \A r \in AllRows' : r \in AllRows \/ r = loss
    BY <1>4
  <2>. QED
    BY <1>1, <2>1, <2>2, <2>3 DEF Counted
<1>10. Unreported'
  <2> SUFFICES ASSUME NEW k \in Unmatched', pending'[k].id \notin reused,
                      NEW r \in AllRows'
               PROVE  r.id # pending'[k].id
    BY <1>1 DEF Unreported
  <2>1. k \in Unmatched /\ k # sending /\ pending'[k] = pending[k]
    BY <1>5, <1>7
  <2>2. CASE r \in AllRows
    BY <1>0, <2>1, <2>2 DEF Unreported
  <2>3. CASE r = loss
    BY <1>3, <1>6, <1>7, <2>1, <2>3
  <2>. QED
    BY <1>4, <2>2, <2>3
<1>11. OnlySent'
  BY <1>0, <1>1 DEF OnlySent
<1>12. Fresh'
  <2>1. pc'["sender"] # "send"
    BY <1>0, <1>1 DEF Produce, Goto, TypeOK
  <2>. QED
    BY <2>1 DEF Fresh
<1>13. NoContradiction'
  <2>1. ASSUME NEW r \in AllRows, r.id = nSent - 1, nSent - 1 \notin reused
        PROVE  r = loss
    <3>1. r \in Row /\ ~r.ok /\ r.rtt = None
      BY <1>0, <1>6, <2>1, RowsTyped DEF Counted
    <3>. QED
      BY <1>3, <2>1, <3>1 DEF Row
  <2>. QED
    BY <1>0, <1>1, <1>3, <1>4, <2>1 DEF NoContradiction
<1>14. Accounted'
  <2> SUFFICES ASSUME NEW id \in 0 .. nSent - 1, id \notin reused
               PROVE  \/ \E k \in Unmatched' : pending'[k].id = id
                      \/ \E r \in AllRows' : r.id = id
    BY <1>1 DEF Accounted
  <2>1. CASE \E r \in AllRows : r.id = id
    BY <1>4, <2>1
  <2>2. CASE \E k \in Unmatched : pending[k].id = id
    <3>1. PICK k \in Unmatched : pending[k].id = id
      BY <2>2
    <3>2. CASE k = sending
      BY <1>3, <1>4, <1>6, <1>7, <3>1, <3>2
    <3>3. CASE k # sending
      BY <1>5, <1>7, <3>1, <3>3
    <3>. QED
      BY <3>2, <3>3
  <2>. QED
    BY <1>0, <2>1, <2>2 DEF Accounted
<1>. QED
  BY <1>4, <1>8, <1>9, <1>10, <1>11, <1>12, <1>13, <1>14 DEF Ledger

-----------------------------------------------------------------------------
(* The ledger is empty when the daemon starts.                             *)
LEMMA InitLedger == Init => Ledger
<1> SUFFICES ASSUME Init PROVE Ledger
  OBVIOUS
<1>1. /\ \A t \in Threads : todo[t] = {} /\ batch[t] = << >>
      /\ buffer = << >> /\ db = {} /\ dropped = {}
      /\ DOMAIN pending = {} /\ nSent = 0
      /\ \A c \in Channels : inbox[c] = << >>
      /\ pc["sender"] = "wait"
  BY DEF Init, Threads
<1>2. Range(<< >>) = {}
  BY DEF Range
<1>3. AllRows = {} /\ Unmatched = {}
  <2>1. \A r : r \notin AllRows
    BY <1>1, <1>2, WhereRowsAre
  <2>. QED
    BY <1>1, <2>1 DEF Unmatched
<1>. QED
  BY <1>1, <1>2, <1>3 DEF Ledger, InHand, Filed, Counted, Unreported,
     OnlySent, Fresh, NoContradiction, Accounted

(* Every step keeps it.                                                    *)
LEMMA NextLedger == TypeInv /\ Ledger /\ [Next]_vars => Ledger'
<1> SUFFICES ASSUME TypeInv, Ledger, [Next]_vars PROVE Ledger'
  OBVIOUS
<1>1. CASE OnEvent
  <2>1. Receive("main", "ring", "poll") /\ "ring" \in Channels
    BY <1>1 DEF OnEvent, Channels
  <2>2. pc["main"] \notin InRowCode
    BY <1>1 DEF OnEvent, At, InRowCode
  <2>. QED
    BY <2>1, <2>2, ReceiveLedger
<1>2. CASE HandleIcmpReply
  <2>1. PICK c \in Channels : \E next : Receive("rx", c, next)
    BY <1>2 DEF HandleIcmpReply, Channels
  <2>2. pc["rx"] \notin InRowCode
    BY <1>2 DEF HandleIcmpReply, At, InRowCode
  <2>. QED
    BY <2>1, <2>2, ReceiveLedger
<1>3. CASE \E t \in Threads : RowStep(t)
  BY <1>3, RowStepLedger
<1>4. CASE Sender \/ SenderDuration
  BY <1>4, SenderLedger, SenderFireLedger, SendFailsLedger DEF Sender
<1>5. CASE Signal \/ ReplyArrives \/ Tick \/ Exited \/ UNCHANGED vars
  BY <1>5, AroundLedger
<1>6. CASE Sweep \/ FinalSweep
  BY <1>6, SweepLedger
<1>. QED
  BY <1>1, <1>2, <1>3, <1>4, <1>5, <1>6, LoopsLedger DEF Next, Main, Rx

(***************************************************************************)
(* A probe has one outcome, whatever the targets, the timings and the      *)
(* interleaving of the ring callback, the rx thread, the sweeps and the    *)
(* sender's error handler (probe_daemon.py:466-496, 672-687, 843-872,      *)
(* 906-931, 1004-1020): two rows of a probe, in memory, stored or given    *)
(* up, are copies of one row, unless its key was used again while in use.  *)
(***************************************************************************)
THEOREM OneOutcome == Spec => []NoContradiction
<1>1. Ledger => NoContradiction
  BY DEF Ledger
<1>. QED
  BY <1>1, InitTypeInv, NextTypeInv, InitLedger, NextLedger, PTL DEF Spec

(***************************************************************************)
(* No probe is forgotten: from the moment _fire_one has filed it, a probe  *)
(* is in pending and unanswered, or it has a row; no thread drops it       *)
(* between taking it from pending and buffering its row, or between        *)
(* emptying the buffer and handing the batch to the sink.                  *)
(***************************************************************************)
THEOREM NoneForgotten == Spec => []Accounted
<1>1. Ledger => Accounted
  BY DEF Ledger
<1>. QED
  BY <1>1, InitTypeInv, NextTypeInv, InitLedger, NextLedger, PTL DEF Spec

-----------------------------------------------------------------------------
(***************************************************************************)
(* The daemon implements ProbeLedger: whatever its threads do is firing,   *)
(* deciding or handing over probes, or nothing that the ledger can see.    *)
(***************************************************************************)
LedgerStep ==
  \/ UNCHANGED <<nSent, reused, rowVars>>
  \/ [Abstract!Next]_Abstract!ledgerVars

-----------------------------------------------------------------------------
(* Membership in the ledger's sets.                                        *)
LEMMA Entries ==
  /\ \A rows, i : i \in IdsOf(rows) <=> i \notin reused /\ \E r \in rows : r.id = i
  /\ \A i : i \in Answered <=> i \notin reused /\ \E r \in AllRows : r.ok /\ r.id = i
  /\ \A i : i \in Lost <=> i \notin reused /\ \E r \in AllRows : ~r.ok /\ r.id = i
BY DEF IdsOf, Answered, Lost

(* The same after a step.                                                  *)
LEMMA EntriesNext ==
  /\ \A i : i \in Handed' <=>
       i \notin reused' /\ \E r \in db' \cup dropped' : r.id = i
  /\ \A i : i \in Stored' <=> i \notin reused' /\ \E r \in db' : r.id = i
  /\ \A i : i \in Answered' <=>
       i \notin reused' /\ \E r \in AllRows' : r.ok /\ r.id = i
  /\ \A i : i \in Lost' <=>
       i \notin reused' /\ \E r \in AllRows' : ~r.ok /\ r.id = i
BY DEF IdsOf, Answered, Lost, Handed, Stored

(* What was handed over and stored, and the decided probes, stay the same  *)
(* with the rows.                                                          *)
LEMMA SameRows ==
  /\ UNCHANGED <<reused, db, dropped>> => UNCHANGED <<Handed, Stored>>
  /\ UNCHANGED <<reused, AllRows>> => UNCHANGED <<Answered, Lost>>
BY DEF IdsOf, Handed, Stored, Answered, Lost

-----------------------------------------------------------------------------
(* Reporting takes nothing back: outside the probes that share a key, the  *)
(* rows after the step are those before it and the new ones.               *)
LEMMA NothingTakenBack ==
  ASSUME TypeInv, Ledger, NEW R, Reports(R), NEW r, r.id \notin reused
  PROVE  r \in AllRows' <=> r \in AllRows \cup R
<1>1. AllRows' \subseteq AllRows \cup R
  BY DEF Reports
<1>2. ASSUME r \in AllRows \cup R PROVE r \in AllRows'
  <2>1. PICK s \in AllRows' : s.id = r.id
    BY <1>2 DEF Reports
  <2>2. ASSUME NEW a \in R, NEW b \in AllRows, a.id = b.id, a.id \notin reused
        PROVE  FALSE
    BY <2>2 DEF Reports, Ledger, Unreported
  <2>3. CASE r \in AllRows /\ s \in AllRows
    BY <2>1, <2>3 DEF Ledger, NoContradiction
  <2>4. CASE r \in R /\ s \in R
    BY <2>1, <2>4 DEF Reports
  <2>. QED
    BY <1>1, <1>2, <2>1, <2>2, <2>3, <2>4
<1>. QED
  BY <1>1, <1>2

(* A probe of which a row is reported is open until then.                  *)
LEMMA ReportedIsOpen ==
  ASSUME TypeInv, Ledger, NEW R, Reports(R), NEW r \in R, r.id \notin reused
  PROVE  r.id \in Abstract!Open
<1>1. PICK k \in Unmatched : r.id = pending[k].id
  BY DEF Reports
<1>2. k \in DOMAIN pending
  BY DEF Unmatched
<1>3. r.id \in Nat /\ r.id < nSent /\ nSent \in Nat
  BY <1>1, <1>2 DEF TypeInv, TypeOK, Entry, Ledger, Filed
<1>4. r.id \notin Answered /\ r.id \notin Lost
  BY <1>1, Entries DEF Ledger, Unreported
<1>. QED
  BY <1>3, <1>4 DEF Abstract!Open, Abstract!Decided

(* So it is a step of the ledger.                                          *)
LEMMA DecisionStep ==
  ASSUME TypeInv, Ledger, NEW R, Decides(R)
  PROVE  [Abstract!Next]_Abstract!ledgerVars
<1>1. Reports(R) /\ UNCHANGED <<nSent, reused, db, dropped>>
  BY DEF Decides, Reports
<1>2. UNCHANGED <<Handed, Stored>>
  BY <1>1, SameRows
<1>3. \A i : i \in Answered' <=>
        i \in Answered \/ (i \notin reused /\ \E r \in R : r.ok /\ r.id = i)
  <2> SUFFICES ASSUME NEW i, i \notin reused
               PROVE  (\E r \in AllRows' : r.ok /\ r.id = i)
                        <=> \E r \in AllRows \cup R : r.ok /\ r.id = i
    BY <1>1, Entries, EntriesNext
  <2>. QED
    BY <1>1, NothingTakenBack
<1>4. \A i : i \in Lost' <=>
        i \in Lost \/ (i \notin reused /\ \E r \in R : ~r.ok /\ r.id = i)
  <2> SUFFICES ASSUME NEW i, i \notin reused
               PROVE  (\E r \in AllRows' : ~r.ok /\ r.id = i)
                        <=> \E r \in AllRows \cup R : ~r.ok /\ r.id = i
    BY <1>1, Entries, EntriesNext
  <2>. QED
    BY <1>1, NothingTakenBack
<1>5. CASE \A r \in R : ~r.ok
  <2> DEFINE S == {r.id : r \in R} \ reused
  <2>1. S \subseteq Abstract!Open
    BY <1>1, ReportedIsOpen
  <2>2. Answered' = Answered /\ Lost' = Lost \cup S
    BY <1>3, <1>4, <1>5
  <2> HIDE DEF S
  <2>. QED
    BY <1>1, <1>2, <2>1, <2>2 DEF Abstract!Next, Abstract!Lose
<1>6. CASE \E x : x.ok /\ R = {x}
  <2>1. PICK x : x.ok /\ R = {x}
    BY <1>6
  <2>2. Lost' = Lost
    BY <1>4, <2>1
  <2>3. CASE x.id \in reused
    <3>1. Answered' = Answered
      BY <1>3, <2>1, <2>3
    <3>. QED
      BY <1>1, <1>2, <2>2, <3>1 DEF Abstract!ledgerVars
  <2>4. CASE x.id \notin reused
    <3>1. x.id \in Abstract!Open
      BY <1>1, <2>1, <2>4, ReportedIsOpen
    <3>2. Answered' = Answered \cup {x.id}
      BY <1>3, <2>1, <2>4
    <3>. QED
      BY <1>1, <1>2, <2>2, <3>1, <3>2 DEF Abstract!Next, Abstract!Answer
  <2>. QED
    BY <2>3, <2>4
<1>. QED
  BY <1>5, <1>6 DEF Decides

-----------------------------------------------------------------------------
(* The row code hands over the batch of a thread, or only moves rows.      *)
LEMMA RowStepImplements ==
  ASSUME TypeInv, Ledger, NEW t \in Threads, RowStep(t)
  PROVE  [Abstract!Next]_Abstract!ledgerVars
<1>1. Reports({}) /\ UNCHANGED <<nSent, reused>>
  BY RowStepLedger
<1>2. \A r : r.id \notin reused => (r \in AllRows' <=> r \in AllRows)
  BY <1>1, NothingTakenBack
<1>3. UNCHANGED <<Answered, Lost>>
  <2>1. \A i : i \in Answered' <=> i \in Answered
    BY <1>1, <1>2, Entries, EntriesNext
  <2>2. \A i : i \in Lost' <=> i \in Lost
    BY <1>1, <1>2, Entries, EntriesNext
  <2>. QED
    BY <2>1, <2>2 DEF Answered, Lost, IdsOf
<1>4. CASE Enqueue(t) \/ SwapBuffer(t)
  <2>1. UNCHANGED <<db, dropped>>
    BY <1>4 DEF Enqueue, SwapBuffer
  <2>. QED
    BY <1>1, <1>3, <2>1, SameRows DEF Abstract!ledgerVars
<1>5. CASE SinkWrites(t) \/ SinkDrops(t)
  <2> DEFINE S == IdsOf(Range(batch[t]))
  <2>1. \A i : i \in S <=> i \notin reused /\ \E r \in Range(batch[t]) : r.id = i
    BY Entries
  <2> HIDE DEF S
  <2>2. S \subseteq Answered \cup Lost
    <3>1. Range(batch[t]) \subseteq AllRows
      BY WhereRowsAre
    <3>. QED
      BY <2>1, <3>1, Entries
  <2>3. ASSUME db' = Insert(Range(batch[t])) PROVE Stored' = Stored \cup S
    <3>1. /\ db \subseteq db' /\ db' \subseteq db \cup Range(batch[t])
          /\ \A r \in Range(batch[t]) : \E s \in db' : s.id = r.id
      BY <2>3 DEF Insert
    <3>2. \A i : i \in Stored <=> i \notin reused /\ \E r \in db : r.id = i
      BY Entries DEF Stored
    <3>3. \A i : i \in Stored' <=> i \in Stored \cup S
      BY <1>1, <2>1, <3>1, <3>2, EntriesNext
    <3>. QED
      BY <3>3 DEF Stored, IdsOf
  <2>4. ASSUME UNCHANGED db PROVE Stored' = Stored
    BY <1>1, <2>4 DEF Stored, IdsOf
  <2>5. /\ db' = Insert(Range(batch[t])) \/ UNCHANGED db
        /\ \/ db' = Insert(Range(batch[t])) /\ dropped' = dropped
           \/ dropped' = dropped \cup Range(batch[t])
    BY <1>5 DEF SinkWrites, SinkDrops
  <2>6. Handed' = Handed \cup S
    <3>1. /\ db \subseteq db' /\ db' \subseteq db \cup Range(batch[t])
          /\ dropped \subseteq dropped'
          /\ dropped' \subseteq dropped \cup Range(batch[t])
          /\ \A r \in Range(batch[t]) : \E s \in db' \cup dropped' : s.id = r.id
      BY <2>5 DEF Insert
    <3>2. \A i : i \in Handed <=> i \notin reused /\ \E r \in db \cup dropped : r.id = i
      BY Entries DEF Handed
    <3>3. \A i : i \in Handed' <=> i \in Handed \cup S
      BY <1>1, <2>1, <3>1, <3>2, EntriesNext
    <3>. QED
      BY <3>3 DEF Handed, IdsOf
  <2>. QED
    BY <1>1, <1>3, <2>2, <2>3, <2>4, <2>5, <2>6
       DEF Abstract!Next, Abstract!Hand, Abstract!Decided
<1>. QED
  BY <1>4, <1>5 DEF RowStep

(* A probe is fired, and those that share its key are struck off.          *)
LEMMA SenderFireImplements ==
  ASSUME TypeInv, Ledger, SenderFire PROVE Abstract!Next
<1> DEFINE key == NextKey(Pairs[idx])
           S == {pending[k].id : k \in DOMAIN pending \cap {key}}
                  \cup {nSent : k \in (DOMAIN pending \cup air) \cap {key}}
<1>1. /\ nSent' = nSent + 1 /\ reused' = reused \cup S
      /\ UNCHANGED rowVars
  BY DEF SenderFire
<1>2. S \in SUBSET (0 .. nSent)
  <2>1. nSent \in Nat /\ \A k \in DOMAIN pending :
                           pending[k].id \in Nat /\ pending[k].id < nSent
    BY DEF TypeInv, TypeOK, Entry, Ledger, Filed
  <2> HIDE DEF key
  <2>. QED
    BY <2>1
<1> HIDE DEF S
<1>3. AllRows' = AllRows /\ UNCHANGED <<db, dropped>>
  BY <1>1, RowsStay DEF rowVars
<1>4. /\ Answered' = Answered \ S /\ Lost' = Lost \ S
      /\ Handed' = Handed \ S /\ Stored' = Stored \ S
  BY <1>1, <1>3 DEF Answered, Lost, Handed, Stored, IdsOf
<1>. QED
  BY <1>1, <1>2, <1>4 DEF Abstract!Next, Abstract!Fire

(* A probe that could not be sent is lost, if a sweep has not been faster. *)
LEMMA SendFailsImplements ==
  ASSUME TypeInv, Ledger, SendFails PROVE Abstract!Next
<1> DEFINE id == nSent - 1
           loss == LossRow(id)
           S == ({id} \ reused) \ Lost
<1>1. /\ UNCHANGED <<nSent, reused, batch, buffer, db, dropped>>
      /\ Produce("sender", {loss}, "check")
      /\ pc["sender"] = "send"
  BY DEF SendFails, FailedRows, At, history
<1>2. TypeOK /\ InHand /\ "sender" \in Threads /\ nSent \in Nat \ {0}
  BY <1>1 DEF TypeInv, TypeOK, InRound, Ledger, Threads
<1>3. loss.id = id /\ ~loss.ok
  BY DEF LossRow
<1> HIDE DEF loss
<1>4. AllRows' = AllRows \cup {loss}
  <2>1. pc["sender"] \notin InRowCode
    BY <1>1 DEF InRowCode
  <2>2. todo["sender"] = {}
    BY <1>1, <1>2, <2>1, ProduceKeepsInHand
  <2>. QED
    BY <1>1, <1>2, <2>2, ProducedRows
<1>5. id \notin reused => id \notin Answered
  <2>1. id \notin reused => \A r \in AllRows : r.id = id => ~r.ok
    BY <1>1 DEF Ledger, Fresh
  <2>. QED
    BY <2>1, Entries
<1>6. S \subseteq Abstract!Open
  BY <1>2, <1>5 DEF Abstract!Open, Abstract!Decided
<1>7. Answered' = Answered
  <2>1. \A i : i \in Answered' <=> i \in Answered
    BY <1>1, <1>3, <1>4, Entries, EntriesNext
  <2>. QED
    BY <2>1 DEF Answered, IdsOf
<1>8. Lost' = Lost \cup S
  <2>1. \A i : i \in Lost' <=> i \in Lost \/ (i \notin reused /\ i = id)
    BY <1>1, <1>3, <1>4, Entries, EntriesNext
  <2>2. \A i : i \in Lost' <=> i \in Lost \cup S
    BY <2>1
  <2>. QED
    BY <2>2 DEF Lost, IdsOf
<1>9. UNCHANGED <<Handed, Stored>>
  BY <1>1, SameRows
<1> HIDE DEF S
<1>. QED
  BY <1>1, <1>6, <1>7, <1>8, <1>9 DEF Abstract!Next, Abstract!Lose

-----------------------------------------------------------------------------
(* At first there are no probes.                                           *)
LEMMA InitImplements == Init => Abstract!Init
<1> SUFFICES ASSUME Init PROVE Abstract!Init
  OBVIOUS
<1>1. /\ \A t \in Threads : todo[t] = {} /\ batch[t] = << >>
      /\ buffer = << >> /\ db = {} /\ dropped = {}
      /\ nSent = 0 /\ reused = {}
  BY DEF Init, Threads
<1>2. Range(<< >>) = {}
  BY DEF Range
<1>3. \A r : r \notin AllRows
  BY <1>1, <1>2, WhereRowsAre
<1>. QED
  BY <1>1, <1>3 DEF Abstract!Init, Answered, Lost, Handed, Stored, IdsOf

(* Every step is a step of the ledger, or none.                            *)
LEMMA NextImplements == TypeInv /\ Ledger /\ [Next]_vars => LedgerStep
<1> SUFFICES ASSUME TypeInv, Ledger, [Next]_vars PROVE LedgerStep
  OBVIOUS
<1>1. CASE OnEvent \/ HandleIcmpReply
  <2>1. \E t \in {"main", "rx"}, c \in Channels :
          pc[t] \notin InRowCode /\ \E next : Receive(t, c, next)
    BY <1>1 DEF OnEvent, HandleIcmpReply, At, InRowCode, Channels
  <2>. QED
    BY <2>1, ReceiveLedger, DecisionStep DEF LedgerStep
<1>2. CASE \E t \in Threads : RowStep(t)
  BY <1>2, RowStepImplements DEF LedgerStep
<1>3. CASE SenderFire \/ SendFails
  BY <1>3, SenderFireImplements, SendFailsImplements DEF LedgerStep
<1>4. CASE Sweep \/ FinalSweep
  BY <1>4, SweepLedger, DecisionStep DEF LedgerStep
<1>5. CASE SenderTick \/ SenderDuration \/ SenderExit \/ SenderCheck \/ SendOk
             \/ SendRaises \/ RxSelect \/ RxExit
  BY <1>5 DEF LedgerStep, SenderTick, SenderDuration, SenderExit, SenderCheck,
              SendOk, SendRaises, RxSelect, RxExit, history
<1>6. CASE MainLoop \/ PollReturns \/ PollInterrupted \/ PollFails
             \/ IntervalFlush \/ JoinSender \/ JoinRx \/ FinalFlush
             \/ CloseSink \/ Exit
  BY <1>6 DEF LedgerStep, MainLoop, PollReturns, PollInterrupted, PollFails,
              IntervalFlush, JoinSender, JoinRx, FinalFlush, CloseSink, Exit,
              history
<1>7. CASE Signal \/ ReplyArrives \/ Tick \/ Exited \/ UNCHANGED vars
  BY <1>7 DEF LedgerStep, Signal, ReplyArrives, Tick, Exited, vars, rowVars, history
<1>. QED
  BY <1>1, <1>2, <1>3, <1>4, <1>5, <1>6, <1>7 DEF Next, Main, Rx, Sender

(* The daemon implements the ledger: an outcome, once a thread has decided *)
(* it, is neither taken back nor changed on its way through threads,       *)
(* buffer, batches and table, and is handed over only after it was decided.*)
THEOREM DaemonImplementsLedger == Spec => ImplementsLedger
<1>1. Init => Abstract!Init
  BY InitImplements
<1>2. TypeInv /\ Ledger /\ [Next]_vars => [LedgerStep]_vars
  BY NextImplements
<1>3. Spec => Abstract!Init /\ [][LedgerStep]_vars
  BY <1>1, <1>2, InitTypeInv, NextTypeInv, InitLedger, NextLedger, PTL DEF Spec
<1>. QED
  BY <1>3 DEF ImplementsLedger, LedgerStep

-----------------------------------------------------------------------------
(***************************************************************************)
(* The shutdown sequence.  Main is in its last flush from the moment       *)
(* _flush is called in the finally block, and it is ending from the moment *)
(* the map of probes has been cleared.                                     *)
(***************************************************************************)
Closing ==
  \/ pc["main"] \in {"close", "teardown", "done"}
  \/ pc["main"] \in InRowCode /\ ret["main"] = "close"

Ending ==
  \/ Closing
  \/ pc["main"] = "final_flush"
  \/ pc["main"] \in InRowCode /\ ret["main"] = "final_flush"

(* A thread whose join is over has ended, or is among those given up.      *)
SenderJoined ==
  pc["main"] \in {"join_rx", "final"} \/ Ending =>
    pc["sender"] = "done" \/ "sender" \in abandoned

(* The same of rx.                                                         *)
RxJoined ==
  pc["main"] = "final" \/ Ending => pc["rx"] = "done" \/ "rx" \in abandoned

(* With both joined no probe is filed after the map was cleared, and no    *)
(* row is buffered after the last flush has emptied the buffer.            *)
NothingComesLate ==
  /\ Ending /\ abandoned = {} => Unmatched = {}
  /\ Closing => pc["main"] # "enq" /\ todo["main"] = {}
  /\ Closing /\ pc["main"] # "swap" /\ abandoned = {} => buffer = << >>

Shutdown == SenderJoined /\ RxJoined /\ NothingComesLate

(* Steps of the other two threads and of nobody.                           *)
LEMMA OthersKeepShutdown ==
  ASSUME Shutdown, UNCHANGED abandoned,
         /\ pc'["main"] = pc["main"] /\ ret'["main"] = ret["main"]
         /\ todo'["main"] = todo["main"],
         \A t \in {"sender", "rx"} : pc[t] = "done" => pc'[t] = "done",
         pc["sender"] = "done" /\ pc["rx"] = "done" =>
           buffer' = buffer /\ Unmatched' \subseteq Unmatched
  PROVE  Shutdown'
<1>1. (Closing' <=> Closing) /\ (Ending' <=> Ending)
  BY DEF Closing, Ending
<1>2. SenderJoined' /\ RxJoined'
  BY <1>1 DEF Shutdown, SenderJoined, RxJoined
<1>3. ASSUME Ending, abandoned = {}
      PROVE  buffer' = buffer /\ Unmatched' \subseteq Unmatched
  BY <1>3 DEF Shutdown, SenderJoined, RxJoined
<1>4. NothingComesLate'
  BY <1>1, <1>3 DEF Shutdown, NothingComesLate, Ending
<1>. QED
  BY <1>2, <1>4 DEF Shutdown

(* Main at work before its joins, and between them.                        *)
LEMMA BeforeShutdown ==
  ASSUME pc'["main"] \in {"loop", "poll", "sweep", "interval", "join_sender"}
           \/ (/\ pc'["main"] \in InRowCode
               /\ ret'["main"] \in {"poll", "interval", "loop"})
  PROVE  Shutdown'
BY DEF Shutdown, SenderJoined, RxJoined, NothingComesLate, Closing, Ending,
       InRowCode

(* The row code, run by main.                                              *)
LEMMA MainRowsKeepShutdown ==
  ASSUME TypeOK, Shutdown, RowStep("main")
  PROVE  Shutdown'
<1>1. /\ "main" \in Threads /\ DOMAIN pc = Threads
      /\ todo \in [Threads -> SUBSET Row]
      /\ ret["main"] \in {"poll", "interval", "loop", "final_flush", "close"}
  BY DEF TypeOK, Threads, ReturnsTo
<1>2. /\ UNCHANGED <<pending, ret, abandoned>>
      /\ pc["main"] \in InRowCode
  BY DEF RowStep, Enqueue, SwapBuffer, SinkWrites, SinkDrops, At, InRowCode,
         history
<1>3. /\ pc'["sender"] = pc["sender"] /\ pc'["rx"] = pc["rx"]
      /\ pc'["main"] \in InRowCode \cup {ret["main"]}
  BY <1>1 DEF RowStep, Enqueue, SwapBuffer, SinkWrites, SinkDrops, Resume,
              Goto, InRowCode, Threads
<1>4. ret'["main"] = ret["main"] /\ Unmatched' = Unmatched
  BY <1>2 DEF Unmatched
<1>5. CASE ret["main"] \in {"poll", "interval", "loop"}
  BY <1>3, <1>4, <1>5, BeforeShutdown
<1>6. CASE ret["main"] = "final_flush"
  <2>1. Ending /\ Ending' /\ ~Closing'
    BY <1>2, <1>3, <1>4, <1>6 DEF Ending, Closing, InRowCode
  <2>. QED
    BY <1>2, <1>3, <1>4, <2>1
       DEF Shutdown, SenderJoined, RxJoined, NothingComesLate
<1>7. CASE ret["main"] = "close"
  <2>1. Ending /\ Closing
    BY <1>2, <1>7 DEF Ending, Closing
  <2>2. pc["main"] # "enq" /\ todo["main"] = {}
    BY <2>1 DEF Shutdown, NothingComesLate
  <2>3. todo' = todo /\ pc'["main"] \in {"sink", "close"}
    BY <1>1, <1>7, <2>2
       DEF RowStep, Enqueue, SwapBuffer, SinkWrites, SinkDrops, Resume, Goto, At
  <2>4. abandoned = {} => buffer' = << >>
    <3>1. CASE SwapBuffer("main")
      BY <3>1 DEF SwapBuffer
    <3>2. CASE SinkWrites("main") \/ SinkDrops("main")
      BY <2>1, <3>2 DEF SinkWrites, SinkDrops, At, Shutdown, NothingComesLate
    <3>. QED
      BY <2>2, <3>1, <3>2 DEF RowStep, Enqueue, At
  <2>. QED
    BY <1>2, <1>3, <1>4, <2>1, <2>2, <2>3, <2>4
       DEF Shutdown, SenderJoined, RxJoined, NothingComesLate
<1>. QED
  BY <1>1, <1>5, <1>6, <1>7

(* The steps of the finally block.                                         *)
LEMMA EndKeepsShutdown ==
  ASSUME TypeOK, InHand, Shutdown,
         JoinSender \/ JoinRx \/ FinalSweep \/ FinalFlush \/ CloseSink \/ Exit
  PROVE  Shutdown'
<1>0. "main" \in Threads /\ DOMAIN pc = Threads /\ DOMAIN ret = Threads
  BY DEF TypeOK, Threads
<1>1. CASE JoinSender
  <2>1. /\ pc'["main"] = "join_rx" /\ pc'["sender"] = pc["sender"]
        /\ abandoned' = abandoned \cup ({"sender"} \ Finished)
    BY <1>0, <1>1 DEF JoinSender, Goto, Threads
  <2>2. pc["sender"] = "done" \/ "sender" \in abandoned'
    BY <2>1 DEF Finished, Threads
  <2>3. ~Ending' /\ ~Closing'
    BY <2>1 DEF Ending, Closing, InRowCode
  <2>. QED
    BY <2>1, <2>2, <2>3 DEF Shutdown, SenderJoined, RxJoined, NothingComesLate
<1>2. CASE JoinRx
  <2>1. /\ pc["main"] = "join_rx" /\ pc'["main"] = "final"
        /\ pc'["sender"] = pc["sender"] /\ pc'["rx"] = pc["rx"]
        /\ abandoned' = abandoned \cup ({"rx"} \ Finished)
    BY <1>0, <1>2 DEF JoinRx, Goto, At, Threads
  <2>2. pc["rx"] = "done" \/ "rx" \in abandoned'
    BY <2>1 DEF Finished, Threads
  <2>3. ~Ending' /\ ~Closing'
    BY <2>1 DEF Ending, Closing, InRowCode
  <2>. QED
    BY <2>1, <2>2, <2>3 DEF Shutdown, SenderJoined, RxJoined, NothingComesLate
<1>3. CASE FinalSweep
  <2>1. /\ pc["main"] = "final" /\ pc'["main"] \in {"enq", "final_flush"}
        /\ pc'["sender"] = pc["sender"] /\ pc'["rx"] = pc["rx"]
        /\ ret'["main"] = "final_flush"
        /\ pending' = << >> /\ UNCHANGED abandoned
    BY <1>0, <1>3 DEF FinalSweep, Produce, Goto, At, Threads, history
  <2>2. Unmatched' = {}
    BY <2>1 DEF Unmatched
  <2>3. Ending' /\ ~Closing'
    BY <2>1 DEF Ending, Closing, InRowCode
  <2>. QED
    BY <2>1, <2>2, <2>3 DEF Shutdown, SenderJoined, RxJoined, NothingComesLate
<1>4. CASE FinalFlush
  <2>1. /\ pc["main"] = "final_flush" /\ pc'["main"] = "swap"
        /\ pc'["sender"] = pc["sender"] /\ pc'["rx"] = pc["rx"]
        /\ ret'["main"] = "close"
        /\ UNCHANGED <<pending, todo, abandoned>>
    BY <1>0, <1>4 DEF FinalFlush, Goto, At, Threads, rowVars, history
  <2>2. Unmatched' = Unmatched
    BY <2>1 DEF Unmatched
  <2>3. Ending /\ Ending' /\ todo'["main"] = {}
    BY <1>0, <2>1 DEF Ending, Closing, InRowCode, InHand
  <2>. QED
    BY <2>1, <2>2, <2>3 DEF Shutdown, SenderJoined, RxJoined, NothingComesLate
<1>5. CASE CloseSink \/ Exit
  <2>1. /\ pc["main"] \in {"close", "teardown"}
        /\ pc'["main"] \in {"teardown", "done"}
        /\ pc'["sender"] = pc["sender"] /\ pc'["rx"] = pc["rx"]
        /\ UNCHANGED <<pending, todo, buffer, abandoned>>
    BY <1>0, <1>5 DEF CloseSink, Exit, Goto, At, Threads, rowVars, history
  <2>2. Unmatched' = Unmatched
    BY <2>1 DEF Unmatched
  <2>3. Ending /\ Closing /\ Ending' /\ Closing'
    BY <2>1 DEF Ending, Closing
  <2>. QED
    BY <2>1, <2>2, <2>3 DEF Shutdown, SenderJoined, RxJoined, NothingComesLate
<1>. QED
  BY <1>1, <1>2, <1>3, <1>4, <1>5

(* Steps of sender and rx: whoever takes one has not ended.                *)
LEMMA HelpersKeepShutdown ==
  ASSUME TypeOK, Shutdown, NEW t \in {"sender", "rx"}, pc[t] # "done",
         \A u \in Threads \ {t} : pc'[u] = pc[u],
         ret'["main"] = ret["main"], todo'["main"] = todo["main"],
         UNCHANGED abandoned
  PROVE  Shutdown'
<1>1. \A u \in {"sender", "rx"} : pc[u] = "done" => pc'[u] = "done"
  BY DEF Threads
<1>2. pc'["main"] = pc["main"]
  BY DEF Threads
<1>3. ~(pc["sender"] = "done" /\ pc["rx"] = "done")
  OBVIOUS
<1>. QED
  BY <1>1, <1>2, <1>3, OthersKeepShutdown

(* Every step keeps the order of the shutdown.                             *)
LEMMA NextShutdown == TypeInv /\ Ledger /\ Shutdown /\ [Next]_vars => Shutdown'
<1> SUFFICES ASSUME TypeInv, Ledger, Shutdown, [Next]_vars PROVE Shutdown'
  OBVIOUS
<1>0. /\ TypeOK /\ InHand /\ DOMAIN pc = Threads /\ DOMAIN ret = Threads
      /\ todo \in [Threads -> SUBSET Row]
  BY DEF TypeInv, TypeOK, Ledger
<1>1. CASE Sender \/ SenderDuration
  <2>1. \E label : Goto("sender", label)
    BY <1>1 DEF Sender, SenderTick, SenderDuration, SenderExit, SenderCheck,
       SenderFire, SendOk, SendRaises, SendFails, Produce
  <2>2. /\ pc["sender"] # "done" /\ UNCHANGED abandoned
        /\ UNCHANGED <<todo, ret>> \/ \E rows, next : Produce("sender", rows, next)
    BY <1>1 DEF Sender, SenderTick, SenderDuration, SenderExit, SenderCheck,
       SenderFire, SendOk, SendRaises, SendFails, Alive, rowVars, history
  <2>3. ret'["main"] = ret["main"] /\ todo'["main"] = todo["main"]
    BY <1>0, <2>2 DEF Produce, Threads
  <2>. QED
    BY <1>0, <2>1, <2>2, <2>3, HelpersKeepShutdown DEF Goto
<1>2. CASE Rx
  <2>1. \E label : Goto("rx", label)
    BY <1>2 DEF Rx, RxSelect, HandleIcmpReply, RxExit, Receive, Produce
  <2>2. /\ pc["rx"] # "done" /\ UNCHANGED abandoned
        /\ UNCHANGED <<todo, ret>> \/ \E rows, next : Produce("rx", rows, next)
    BY <1>2 DEF Rx, RxSelect, HandleIcmpReply, RxExit, Receive, Alive, rowVars,
       history
  <2>3. ret'["main"] = ret["main"] /\ todo'["main"] = todo["main"]
    BY <1>0, <2>2 DEF Produce, Threads
  <2>. QED
    BY <1>0, <2>1, <2>2, <2>3, HelpersKeepShutdown DEF Goto
<1>3. CASE \E t \in Threads : RowStep(t)
  <2>1. PICK t \in Threads : RowStep(t)
    BY <1>3
  <2>2. CASE t = "main"
    BY <1>0, <2>1, <2>2, MainRowsKeepShutdown
  <2>3. CASE t # "main"
    <3>1. t \in {"sender", "rx"}
      BY <2>3 DEF Threads
    <3>2. /\ pc[t] # "done" /\ UNCHANGED <<ret, abandoned>>
          /\ \E label : Goto(t, label)
          /\ UNCHANGED todo \/ \E rows : todo' = [todo EXCEPT ![t] = rows]
      BY <2>1 DEF RowStep, Enqueue, SwapBuffer, SinkWrites, SinkDrops, Resume,
                  Alive, history
    <3>3. ret'["main"] = ret["main"] /\ todo'["main"] = todo["main"]
      BY <1>0, <3>1, <3>2 DEF Threads
    <3>. QED
      BY <1>0, <3>1, <3>2, <3>3, HelpersKeepShutdown DEF Goto
  <2>. QED
    BY <2>2, <2>3
<1>4. CASE Signal \/ ReplyArrives \/ Tick \/ Exited \/ UNCHANGED vars
  <2>1. UNCHANGED <<pc, ret, todo, buffer, abandoned>>
    BY <1>4 DEF Signal, ReplyArrives, Tick, Exited, vars, rowVars, history
  <2>2. DOMAIN pending' = DOMAIN pending
        /\ \A k \in DOMAIN pending : pending'[k].matched = pending[k].matched
    <3>1. CASE Tick
      <4>1. \A k \in DOMAIN pending : pending[k] \in Entry
        BY <1>0 DEF TypeOK
      <4>. QED
        BY <3>1, <4>1 DEF Tick, Entry
    <3>. QED
      BY <1>4, <3>1 DEF Signal, ReplyArrives, Exited, vars
  <2>3. Unmatched' = Unmatched
    BY <2>2 DEF Unmatched
  <2>. QED
    BY <2>1, <2>3, OthersKeepShutdown
<1>5. CASE MainLoop \/ PollReturns \/ PollInterrupted \/ PollFails \/ IntervalFlush
  <2>1. \/ pc'["main"] \in {"loop", "poll", "sweep", "interval", "join_sender"}
        \/ pc'["main"] = "swap" /\ ret'["main"] = "loop"
    BY <1>0, <1>5 DEF MainLoop, PollReturns, PollInterrupted, PollFails,
       IntervalFlush, Goto, Threads
  <2>. QED
    BY <2>1, BeforeShutdown DEF InRowCode
<1>6. CASE OnEvent \/ Sweep
  <2>1. \E rows, next : next \in {"poll", "interval"} /\ Produce("main", rows, next)
    BY <1>6 DEF OnEvent, Receive, Sweep
  <2>2. \/ pc'["main"] \in {"poll", "interval"}
        \/ pc'["main"] = "enq" /\ ret'["main"] \in {"poll", "interval"}
    BY <1>0, <2>1 DEF Produce, Goto, Threads
  <2>. QED
    BY <2>2, BeforeShutdown DEF InRowCode
<1>. QED
  BY <1>0, <1>1, <1>2, <1>3, <1>4, <1>5, <1>6, EndKeepsShutdown DEF Next, Main

(***************************************************************************)
(* The shutdown sequence loses nothing when both joins succeed             *)
(* (probe_daemon.py:997-1023): when the process ends, every probe it has   *)
(* fired was given to the sink, wherever its row was when the stop request *)
(* came, and whoever was flushing.                                         *)
(***************************************************************************)
THEOREM ShutdownLosesNothing == Spec => []CleanExit
<1>1. Init => Shutdown
  <2> SUFFICES ASSUME Init PROVE Shutdown
    OBVIOUS
  <2>1. pc["main"] = "loop"
    BY DEF Init, Threads
  <2>. QED
    BY <2>1 DEF Shutdown, SenderJoined, RxJoined, NothingComesLate, Closing,
                Ending, InRowCode
<1>2. TypeInv /\ Ledger /\ Shutdown => CleanExit
  <2> SUFFICES ASSUME TypeInv, Ledger, Shutdown, pc["main"] = "done",
                      abandoned = {}, NEW id \in 0 .. nSent - 1, id \notin reused
               PROVE  \E r \in db \cup dropped : r.id = id
    BY DEF CleanExit, Resolved
  <2>1. Closing /\ Ending
    BY DEF Closing, Ending
  <2>2. \A t \in Threads : pc[t] = "done"
    BY <2>1 DEF Shutdown, SenderJoined, RxJoined, Threads
  <2>3. \A t \in Threads : todo[t] = {} /\ batch[t] = << >>
    BY <2>2 DEF Ledger, InHand
  <2>4. buffer = << >> /\ Unmatched = {}
    BY <2>1 DEF Shutdown, NothingComesLate
  <2>5. Range(<< >>) = {}
    BY DEF Range
  <2>6. \A r \in AllRows : r \in db \cup dropped
    BY <2>3, <2>4, <2>5, WhereRowsAre
  <2>. QED
    BY <2>4, <2>6 DEF Ledger, Accounted
<1>. QED
  BY <1>1, <1>2, InitTypeInv, NextTypeInv, InitLedger, NextLedger, NextShutdown,
     PTL DEF Spec

-----------------------------------------------------------------------------
(***************************************************************************)
(* Answers in time.  heard remembers the probes whose reply reached the    *)
(* host within their time, and which of them a poll has come back with.    *)
(***************************************************************************)
HeardInTime(id) == id \in DOMAIN heard /\ id \notin reused

(* Only of probes that were fired.                                         *)
HeardFired == \A id \in DOMAIN heard : id < nSent

(* A TCP probe that waits although its reply is here has that reply on the *)
(* ring, ahead of the poll that would be the first to come back with it.   *)
HeardIsQueued ==
  \A k \in Unmatched : HeardInTime(pending[k].id) =>
    /\ heard[pending[k].id] # "polled"
    /\ ChannelOf(k) = "ring" => k \in Range(inbox["ring"])

(* An entry that is kept for its TTL was answered.                         *)
MatchedIsOk ==
  \A k \in DOMAIN pending \ Unmatched : pending[k].id \notin reused =>
    \A r \in AllRows : r.id = pending[k].id => r.ok

(* Nothing answers a probe before it is sent.                              *)
NotHeardYet == pc["sender"] = "send" => ~HeardInTime(nSent - 1)

InTime ==
  HeardFired /\ HeardIsQueued /\ MatchedIsOk /\ NotHeardYet /\ PolledIsKept

(* A step that reports probes, takes from the ring only what it handles,   *)
(* and either reports answers or marks no entry as answered.               *)
LEMMA ReportsKeepInTime ==
  ASSUME TypeInv, Ledger, InTime, NEW R, Reports(R), UNCHANGED heard,
         \A k \in Unmatched' : ChannelOf(k) = "ring" /\ k \in Range(inbox["ring"])
           => k \in Range(inbox'["ring"]),
         \/ \A r \in R : r.ok
         \/ Unmatched \cap DOMAIN pending' \subseteq Unmatched'
  PROVE  InTime'
<1>0. /\ UNCHANGED <<nSent, reused, heard>>
      /\ AllRows' \subseteq AllRows \cup R
      /\ Unmatched \subseteq DOMAIN pending /\ Unmatched' \subseteq DOMAIN pending'
  BY DEF Reports, Unmatched
<1>1. \A r \in R : \E k \in Unmatched : r.id = pending[k].id
  BY DEF Reports
<1>2. HeardFired' /\ NotHeardYet'
  BY <1>0 DEF InTime, HeardFired, NotHeardYet, HeardInTime, Reports
<1>3. HeardIsQueued'
  BY <1>0 DEF InTime, HeardIsQueued, HeardInTime, Reports
<1>4. MatchedIsOk'
  <2> SUFFICES ASSUME NEW k \in DOMAIN pending' \ Unmatched',
                      pending'[k].id \notin reused,
                      NEW r \in AllRows', r.id = pending'[k].id
               PROVE  r.ok
    BY <1>0 DEF MatchedIsOk
  <2>1. k \in DOMAIN pending /\ pending'[k].id = pending[k].id
    BY DEF Reports
  <2>2. CASE k \notin Unmatched
    <3>1. r \notin R
      BY <1>0, <1>1, <2>1, <2>2 DEF Ledger, Filed
    <3>. QED
      BY <1>0, <2>1, <2>2, <3>1 DEF InTime, MatchedIsOk
  <2>3. CASE k \in Unmatched
    <3>1. r \notin AllRows
      BY <2>1, <2>3 DEF Ledger, Unreported
    <3>. QED
      BY <1>0, <2>3, <3>1
  <2>. QED
    BY <2>2, <2>3
<1>5. PolledIsKept'
  <2> SUFFICES ASSUME NEW r \in AllRows', HeardInTime(r.id), heard[r.id] = "polled"
               PROVE  r.ok
    BY <1>0 DEF PolledIsKept, HeardInTime
  <2>1. r \notin R
    BY <1>1 DEF InTime, HeardIsQueued
  <2>. QED
    BY <1>0, <2>1 DEF InTime, PolledIsKept, HeardInTime
<1>. QED
  BY <1>2, <1>3, <1>4, <1>5 DEF InTime

(* A step that touches neither probes nor rows nor the ring.               *)
LEMMA ElsewhereKeepsInTime ==
  ASSUME TypeInv, Ledger, InTime,
         UNCHANGED <<pending, nSent, reused, sending, rowVars, inbox, heard>>,
         pc'["sender"] = "send" => pc["sender"] = "send" /\ UNCHANGED air
  PROVE  InTime'
<1>1. Reports({}) /\ Unmatched' = Unmatched
  BY SilentSteps DEF Unmatched
<1>. QED
  BY <1>1, ReportsKeepInTime

(* The poll comes back: what was heard in time and is still in the map has *)
(* been answered, for the ring is empty.                                   *)
LEMMA PollKeepsInTime ==
  ASSUME TypeInv, Ledger, InTime, PollReturns
  PROVE  InTime'
<1>0. /\ UNCHANGED <<pending, nSent, reused, rowVars, inbox>>
      /\ inbox["ring"] = << >>
      /\ heard' = [i \in DOMAIN heard |-> IF i \in OnRing THEN "polled" ELSE heard[i]]
      /\ Goto("main", "sweep") \/ Goto("main", "interval")
  BY DEF PollReturns, RingDrained
<1>1. /\ AllRows' = AllRows /\ Unmatched' = Unmatched /\ DOMAIN heard' = DOMAIN heard
      /\ pc'["sender"] = pc["sender"] /\ Unmatched \subseteq DOMAIN pending
      /\ \A i \in DOMAIN heard : i \notin OnRing => heard'[i] = heard[i]
  BY <1>0, RowsStay DEF Unmatched, Goto, TypeInv, TypeOK, Threads
<1>2. Range(inbox["ring"]) = {}
  BY <1>0 DEF Range
<1>3. \A i : i \in OnRing <=>
        \E k \in DOMAIN pending : ChannelOf(k) = "ring" /\ pending[k].id = i
  BY DEF OnRing
<1>4. ASSUME NEW k \in Unmatched, HeardInTime(pending[k].id)
      PROVE  pending[k].id \notin OnRing
  <2>1. ChannelOf(k) # "ring"
    BY <1>2, <1>4 DEF InTime, HeardIsQueued
  <2>. QED
    BY <1>1, <1>3, <2>1 DEF Ledger, Filed
<1>5. HeardIsQueued'
  <2> SUFFICES ASSUME NEW k \in Unmatched, HeardInTime(pending[k].id)
               PROVE  /\ heard'[pending[k].id] # "polled"
                      /\ ChannelOf(k) = "ring" => k \in Range(inbox["ring"])
    BY <1>0, <1>1 DEF HeardIsQueued, HeardInTime
  <2>. QED
    BY <1>1, <1>4 DEF InTime, HeardIsQueued, HeardInTime
<1>6. PolledIsKept'
  <2> SUFFICES ASSUME NEW r \in AllRows, HeardInTime(r.id), r.id \in OnRing
               PROVE  r.ok
    BY <1>0, <1>1 DEF InTime, PolledIsKept, HeardInTime
  <2>1. PICK k \in DOMAIN pending : pending[k].id = r.id
    BY <1>3
  <2>2. k \notin Unmatched
    BY <1>4, <2>1
  <2>. QED
    BY <2>1, <2>2 DEF InTime, MatchedIsOk, HeardInTime
<1>. QED
  BY <1>0, <1>1, <1>5, <1>6
     DEF InTime, HeardFired, MatchedIsOk, NotHeardYet, HeardInTime

(* A reply arrives, in time or not.                                        *)
LEMMA ReplyKeepsInTime ==
  ASSUME TypeInv, Ledger, InTime, ReplyArrives
  PROVE  InTime'
<1>1. PICK key \in air :
        /\ inbox' = [inbox EXCEPT ![ChannelOf(key)] = Append(@, key)]
        /\ heard' = IF key \in Unmatched /\ pending[key].age < Timeout
                    THEN Put(heard, pending[key].id, "arrived")
                    ELSE heard
  BY DEF ReplyArrives
<1>2. /\ UNCHANGED <<pending, nSent, reused, sending, rowVars, pc, air>>
      /\ inbox \in [Channels -> Seq(Key)] /\ key \in Key /\ "ring" \in Channels
  BY DEF ReplyArrives, wire, local, TypeInv, TypeOK, Channels
<1>3. AllRows' = AllRows /\ Unmatched' = Unmatched /\ Unmatched \subseteq DOMAIN pending
  BY <1>2, RowsStay DEF Unmatched
<1>4. /\ Range(inbox["ring"]) \subseteq Range(inbox'["ring"])
      /\ ChannelOf(key) = "ring" => key \in Range(inbox'["ring"])
  <2>1. inbox["ring"] \in Seq(Key)
    BY <1>2
  <2>2. Range(Append(inbox["ring"], key)) = Range(inbox["ring"]) \cup {key}
    BY <1>2, <2>1, RangeFacts
  <2>3. inbox'["ring"] = IF ChannelOf(key) = "ring" THEN Append(inbox["ring"], key)
                                                    ELSE inbox["ring"]
    BY <1>1, <1>2
  <2>. QED
    BY <2>2, <2>3
<1>5. CASE heard' = heard
  <2>1. Reports({})
    BY <1>2, SilentSteps
  <2>. QED
    BY <1>3, <1>4, <1>5, <2>1, ReportsKeepInTime
<1>6. CASE key \in Unmatched /\ heard' = Put(heard, pending[key].id, "arrived")
  <2> DEFINE new == pending[key].id
  <2>1. /\ DOMAIN heard' = DOMAIN heard \cup {new}
        /\ heard'[new] = "arrived"
        /\ \A i \in DOMAIN heard : i # new => heard'[i] = heard[i]
    BY <1>6 DEF Put
  <2>2. key \in DOMAIN pending /\ new < nSent
    BY <1>3, <1>6 DEF Ledger, Filed
  <2>3. \A k \in Unmatched : pending[k].id = new => k = key
    BY <1>3, <2>2 DEF Ledger, Filed
  <2>4. HeardFired'
    BY <1>2, <2>1, <2>2 DEF InTime, HeardFired
  <2>5. HeardIsQueued'
    <3> SUFFICES ASSUME NEW k \in Unmatched, pending[k].id \in DOMAIN heard',
                        pending[k].id \notin reused
                 PROVE  /\ heard'[pending[k].id] # "polled"
                        /\ ChannelOf(k) = "ring" => k \in Range(inbox'["ring"])
      BY <1>2, <1>3 DEF HeardIsQueued, HeardInTime
    <3>1. CASE k = key
      BY <1>4, <2>1, <3>1
    <3>2. CASE k # key
      <4> HIDE DEF new
      <4>1. HeardInTime(pending[k].id) /\ heard'[pending[k].id] = heard[pending[k].id]
        BY <2>1, <2>3, <3>2 DEF HeardInTime
      <4>. QED
        BY <1>4, <4>1 DEF InTime, HeardIsQueued
    <3>. QED
      BY <3>1, <3>2
  <2>6. NotHeardYet'
    <3> SUFFICES ASSUME pc["sender"] = "send", nSent - 1 \notin reused,
                        nSent - 1 \in DOMAIN heard'
                 PROVE  FALSE
      BY <1>2 DEF NotHeardYet, HeardInTime
    <3>1. nSent - 1 \notin DOMAIN heard
      BY DEF InTime, NotHeardYet, HeardInTime
    <3>2. new = nSent - 1
      BY <2>1, <3>1
    <3>3. key = sending /\ sending \notin air
      BY <2>2, <3>2 DEF Ledger, Fresh
    <3>. QED
      BY <3>3
  <2>7. PolledIsKept'
    <3> HIDE DEF new
    <3>. QED
      BY <1>2, <1>3, <2>1 DEF InTime, PolledIsKept
  <2>8. MatchedIsOk'
    BY <1>2, <1>3 DEF InTime, MatchedIsOk
  <2>. QED
    BY <2>4, <2>5, <2>6, <2>7, <2>8 DEF InTime
<1>. QED
  BY <1>1, <1>5, <1>6

(* A reply is handled: the entry at the head of the queue stops waiting.   *)
LEMMA ReceiveKeepsInTime ==
  ASSUME TypeInv, Ledger, InTime, NEW t \in {"main", "rx"}, pc[t] \notin InRowCode,
         NEW c \in Channels, NEW next, Receive(t, c, next)
  PROVE  InTime'
<1>1. PICK R : Reports(R) /\ \A r \in R : r.ok
  BY ReceiveLedger DEF Decides
<1>2. inbox \in [Channels -> Seq(Key)] /\ inbox[c] \in Seq(Key) /\ "ring" \in Channels
  BY DEF TypeInv, TypeOK, Channels
<1>3. /\ inbox[c] # << >> /\ inbox' = [inbox EXCEPT ![c] = Tail(@)]
      /\ UNCHANGED heard
  BY DEF Receive, history
<1>4. Head(inbox[c]) \notin Unmatched'
  <2>1. CASE Answers(Head(inbox[c]))
    <3>1. /\ pending' = [pending EXCEPT ![Head(inbox[c])].matched = TRUE,
                                        ![Head(inbox[c])].age = 0]
          /\ Head(inbox[c]) \in DOMAIN pending
          /\ pending[Head(inbox[c])] \in Entry
      BY <2>1 DEF Receive, Answers, Unmatched, TypeInv, TypeOK
    <3>2. pending'[Head(inbox[c])].matched
      BY <3>1 DEF Entry
    <3>. QED
      BY <3>2 DEF Unmatched
  <2>2. CASE ~Answers(Head(inbox[c]))
    BY <2>2 DEF Receive, Answers, Unmatched
  <2>. QED
    BY <2>1, <2>2
<1>5. \A k \in Range(inbox[c]) : k = Head(inbox[c]) \/ k \in Range(Tail(inbox[c]))
  <2>1. /\ Len(inbox[c]) \in Nat \ {0} /\ DOMAIN inbox[c] = 1 .. Len(inbox[c])
        /\ Head(inbox[c]) = inbox[c][1]
        /\ DOMAIN Tail(inbox[c]) = 1 .. Len(inbox[c]) - 1
        /\ \A i \in 1 .. Len(inbox[c]) - 1 : Tail(inbox[c])[i] = inbox[c][i + 1]
    BY <1>2, <1>3, HeadTailProperties, LenProperties
  <2> SUFFICES ASSUME NEW i \in 1 .. Len(inbox[c]), i # 1
               PROVE  inbox[c][i] \in Range(Tail(inbox[c]))
    BY <2>1 DEF Range
  <2>2. i - 1 \in 1 .. Len(inbox[c]) - 1 /\ (i - 1) + 1 = i
    BY <2>1
  <2>3. Tail(inbox[c])[i - 1] = inbox[c][i]
    BY <2>1, <2>2
  <2>. QED
    BY <2>1, <2>2, <2>3 DEF Range
<1>6. inbox'["ring"] = IF c = "ring" THEN Tail(inbox[c]) ELSE inbox["ring"]
  BY <1>2, <1>3
<1>7. \A k \in Unmatched' : k \in Range(inbox["ring"]) => k \in Range(inbox'["ring"])
  BY <1>4, <1>5, <1>6
<1>. QED
  BY <1>1, <1>3, <1>7, ReportsKeepInTime

(* The sweeps remove entries and answer none.                              *)
LEMMA SweepKeepsInTime ==
  ASSUME TypeInv, Ledger, InTime, Sweep \/ FinalSweep
  PROVE  InTime'
<1>1. PICK R : Reports(R)
  BY SweepLedger DEF Decides
<1>2. UNCHANGED <<inbox, heard>>
  BY DEF Sweep, FinalSweep, history
<1>3. \A k \in DOMAIN pending' : pending'[k] = pending[k]
  BY DEF Sweep, FinalSweep, Without, Restrict
<1>4. Unmatched \cap DOMAIN pending' \subseteq Unmatched'
  BY <1>3 DEF Unmatched
<1>. QED
  BY <1>1, <1>2, <1>4, ReportsKeepInTime

(* A new probe has not been heard of.                                      *)
LEMMA SenderFireKeepsInTime ==
  ASSUME TypeInv, Ledger, InTime, SenderFire
  PROVE  InTime'
<1> DEFINE key == NextKey(Pairs[idx])
           new == [id |-> nSent, age |-> 0, matched |-> FALSE]
<1>1. /\ nSent' = nSent + 1 /\ nSent \in Nat /\ DOMAIN heard \subseteq Nat
      /\ pending' = Put(pending, key, new) /\ reused \subseteq reused'
      /\ UNCHANGED <<inbox, rowVars, heard>>
  BY DEF SenderFire, TypeInv, TypeOK
<1> HIDE DEF key
<1>2. /\ DOMAIN pending' = DOMAIN pending \cup {key}
      /\ pending'[key].id = nSent /\ ~pending'[key].matched
      /\ \A k \in DOMAIN pending : k # key => pending'[k] = pending[k]
  BY <1>1 DEF Put
<1> HIDE DEF new
<1>3. AllRows' = AllRows
  BY <1>1, RowsStay
<1>4. nSent \notin DOMAIN heard
  BY <1>1 DEF InTime, HeardFired
<1>5. HeardFired'
  BY <1>1 DEF InTime, HeardFired
<1>6. HeardIsQueued'
  <2> SUFFICES ASSUME NEW k \in Unmatched', pending'[k].id \in DOMAIN heard,
                      pending'[k].id \notin reused
               PROVE  /\ heard[pending'[k].id] # "polled"
                      /\ ChannelOf(k) = "ring" => k \in Range(inbox["ring"])
    BY <1>1 DEF HeardIsQueued, HeardInTime
  <2>1. k # key /\ k \in Unmatched /\ pending'[k] = pending[k]
    BY <1>2, <1>4 DEF Unmatched
  <2>. QED
    BY <2>1 DEF InTime, HeardIsQueued, HeardInTime
<1>7. MatchedIsOk'
  <2> SUFFICES ASSUME NEW k \in DOMAIN pending' \ Unmatched',
                      pending'[k].id \notin reused, NEW r \in AllRows,
                      r.id = pending'[k].id
               PROVE  r.ok
    BY <1>1, <1>3 DEF MatchedIsOk
  <2>1. k # key /\ k \in DOMAIN pending \ Unmatched /\ pending'[k] = pending[k]
    BY <1>2 DEF Unmatched
  <2>. QED
    BY <2>1 DEF InTime, MatchedIsOk
<1>8. NotHeardYet'
  BY <1>1, <1>4 DEF NotHeardYet, HeardInTime
<1>9. PolledIsKept'
  BY <1>1, <1>3 DEF InTime, PolledIsKept
<1>. QED
  BY <1>5, <1>6, <1>7, <1>8, <1>9 DEF InTime

(* A probe that could not be sent has not been heard of either.            *)
LEMMA SendFailsKeepsInTime ==
  ASSUME TypeInv, Ledger, InTime, SendFails
  PROVE  InTime'
<1> DEFINE loss == LossRow(nSent - 1)
<1>1. /\ UNCHANGED <<nSent, reused, inbox, heard, batch, buffer, db, dropped>>
      /\ pending' = Without({sending}) /\ pc["sender"] = "send"
      /\ Produce("sender", {loss}, "check")
  BY DEF SendFails, FailedRows, At, history
<1>2. TypeOK /\ InHand /\ "sender" \in Threads
  BY DEF TypeInv, Ledger, Threads
<1>3. loss.id = nSent - 1
  BY DEF LossRow
<1> HIDE DEF loss
<1>4. AllRows' = AllRows \cup {loss} /\ pc'["sender"] # "send"
  <2>1. todo["sender"] = {}
    BY <1>1, <1>2 DEF InHand
  <2>. QED
    BY <1>1, <1>2, <2>1, ProducedRows DEF Produce, Goto, TypeOK
<1>5. /\ DOMAIN pending' = DOMAIN pending \ {sending}
      /\ \A k \in DOMAIN pending' : pending'[k] = pending[k]
  BY <1>1 DEF Without, Restrict
<1>6. /\ ~HeardInTime(nSent - 1)
      /\ \A k \in DOMAIN pending : pending[k].id = nSent - 1 <=> k = sending
  BY <1>1 DEF InTime, NotHeardYet, Ledger, Fresh
<1>7. HeardFired' /\ NotHeardYet'
  BY <1>1, <1>4 DEF InTime, HeardFired, NotHeardYet
<1>8. HeardIsQueued'
  BY <1>1, <1>5 DEF InTime, HeardIsQueued, HeardInTime, Unmatched
<1>9. MatchedIsOk'
  <2> SUFFICES ASSUME NEW k \in DOMAIN pending' \ Unmatched',
                      pending'[k].id \notin reused, NEW r \in AllRows',
                      r.id = pending'[k].id
               PROVE  r.ok
    BY <1>1 DEF MatchedIsOk
  <2>1. k # sending /\ k \in DOMAIN pending \ Unmatched /\ pending'[k] = pending[k]
    BY <1>5 DEF Unmatched
  <2>2. r \in AllRows
    BY <1>3, <1>4, <1>6, <2>1
  <2>. QED
    BY <1>1, <2>1, <2>2 DEF InTime, MatchedIsOk
<1>10. PolledIsKept'
  BY <1>1, <1>3, <1>4, <1>6 DEF InTime, PolledIsKept, HeardInTime
<1>. QED
  BY <1>7, <1>8, <1>9, <1>10 DEF InTime

(* Every step keeps it.                                                    *)
LEMMA NextInTime == TypeInv /\ Ledger /\ InTime /\ [Next]_vars => InTime'
<1> SUFFICES ASSUME TypeInv, Ledger, InTime, [Next]_vars PROVE InTime'
  OBVIOUS
<1>0. TypeOK /\ DOMAIN pc = Threads
  BY DEF TypeInv, TypeOK
<1>1. CASE OnEvent \/ HandleIcmpReply
  <2>1. \E t \in {"main", "rx"}, c \in Channels :
          pc[t] \notin InRowCode /\ \E next : Receive(t, c, next)
    BY <1>1 DEF OnEvent, HandleIcmpReply, At, InRowCode, Channels
  <2>. QED
    BY <2>1, ReceiveKeepsInTime
<1>2. CASE \E t \in Threads : RowStep(t)
  <2>1. PICK t \in Threads : RowStep(t)
    BY <1>2
  <2>2. Reports({})
    BY <2>1, RowStepLedger
  <2>3. UNCHANGED <<inbox, heard>>
    BY <2>1 DEF RowStep, Enqueue, SwapBuffer, SinkWrites, SinkDrops, history
  <2>. QED
    BY <2>2, <2>3, ReportsKeepInTime
<1>3. CASE SenderTick \/ SenderDuration \/ SenderExit \/ SenderCheck \/ SendOk
             \/ SendRaises \/ RxSelect \/ RxExit
  <2>1. UNCHANGED <<pending, nSent, reused, sending, rowVars, inbox, heard>>
    BY <1>3 DEF SenderTick, SenderDuration, SenderExit, SenderCheck, SendOk,
       SendRaises, RxSelect, RxExit, local, history
  <2>2. pc'["sender"] = "send" => pc["sender"] = "send" /\ UNCHANGED air
    BY <1>0, <1>3 DEF SenderTick, SenderDuration, SenderExit, SenderCheck, SendOk,
       SendRaises, RxSelect, RxExit, Goto, Threads, wire
  <2>. QED
    BY <2>1, <2>2, ElsewhereKeepsInTime
<1>4. CASE MainLoop \/ PollInterrupted \/ PollFails \/ IntervalFlush \/ JoinSender
             \/ JoinRx \/ FinalFlush \/ CloseSink \/ Exit
  <2>1. UNCHANGED <<pending, nSent, reused, sending, rowVars, inbox, heard, air>>
    BY <1>4 DEF MainLoop, PollInterrupted, PollFails, IntervalFlush, JoinSender,
       JoinRx, FinalFlush, CloseSink, Exit, local, wire, history
  <2>2. pc'["sender"] = pc["sender"]
    BY <1>0, <1>4 DEF MainLoop, PollInterrupted, PollFails, IntervalFlush,
       JoinSender, JoinRx, FinalFlush, CloseSink, Exit, Goto, Threads
  <2>. QED
    BY <2>1, <2>2, ElsewhereKeepsInTime
<1>5. CASE Signal \/ Exited \/ UNCHANGED vars
  BY <1>5, ElsewhereKeepsInTime
     DEF Signal, Exited, vars, local, wire, history, rowVars
<1>6. CASE Tick
  <2>1. /\ UNCHANGED <<nSent, reused, sending, rowVars, inbox, heard, pc, air>>
        /\ \A k \in DOMAIN pending : pending[k] \in Entry
    BY <1>0, <1>6 DEF Tick, TypeOK, local, rowVars, wire, history
  <2>2. /\ DOMAIN pending' = DOMAIN pending
        /\ \A k \in DOMAIN pending : /\ pending'[k].id = pending[k].id
                                     /\ pending'[k].matched = pending[k].matched
    BY <1>6, <2>1 DEF Tick, Entry
  <2>3. Reports({}) /\ Unmatched' = Unmatched
    BY <2>1, <2>2, SilentSteps DEF Unmatched
  <2>. QED
    BY <2>1, <2>3, ReportsKeepInTime
<1>. QED
  BY <1>1, <1>2, <1>3, <1>4, <1>5, <1>6, PollKeepsInTime, ReplyKeepsInTime,
     SweepKeepsInTime, SenderFireKeepsInTime, SendFailsKeepsInTime
     DEF Next, Main, Rx, Sender

(***************************************************************************)
(* run() polls before it sweeps (probe_daemon.py:966-976): a SYN-ACK that  *)
(* reached the ring in time and was there when a poll drained it has made  *)
(* its probe an answered one for good: neither a sweep nor the final one,  *)
(* nor an error of the sender, records it as a loss.                       *)
(***************************************************************************)
THEOREM PolledProbesAreAnswered == Spec => []PolledIsKept
<1>1. Init => InTime
  <2> SUFFICES ASSUME Init PROVE InTime
    OBVIOUS
  <2>1. /\ DOMAIN heard = {} /\ DOMAIN pending = {} /\ pc["sender"] = "wait"
    BY DEF Init, Threads
  <2>. QED
    BY <2>1 DEF InTime, HeardFired, HeardIsQueued, MatchedIsOk, NotHeardYet,
                PolledIsKept, Unmatched
<1>2. InTime => PolledIsKept
  BY DEF InTime
<1>. QED
  BY <1>1, <1>2, InitTypeInv, NextTypeInv, InitLedger, NextLedger, NextInTime,
     PTL DEF Spec

=============================================================================
