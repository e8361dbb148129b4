------------------------------- MODULE ProbeDaemon -------------------------------
(***************************************************************************)
(* The three threads of hub_probe/probe_daemon.py and the state they       *)
(* share: the map of probes in flight, the buffer of result rows and the   *)
(* stop flag.                                                              *)
(*                                                                         *)
(*   main    polls the BPF ring, sweeps expired probes, flushes rows, and  *)
(*           runs the shutdown sequence of run()'s finally block;          *)
(*   sender  fires one probe per pair in every round (_sender_loop);       *)
(*   rx      receives ICMP echo replies (_icmp_rx_loop).                   *)
(*                                                                         *)
(* A step is what a thread does between two points where another thread    *)
(* can be seen: one critical section of pending_lock or buffer_lock, one   *)
(* blocking call, one test of stop_flag.  Time is kept as ages that grow   *)
(* with Tick and stop growing once the code cannot tell them apart.        *)
(***************************************************************************)
EXTENDS Naturals, Sequences, FiniteSets, Functions

CONSTANTS
  Pairs,          (* the expanded target list, a sequence of Pair           *)
  TcpSeqSpace,    (* 2^32 in the code                                       *)
  TcpSeqStep,     (* SEQ_STEP                                               *)
  TcpSeqStart,    (* the values secrets.randbits(32) may return             *)
  IcmpSeqSpace,   (* 2^16 in the code                                       *)
  BatchSize,      (* --batch-size                                           *)
  Timeout,        (* --timeout-ms, in ticks                                 *)
  MatchedTTL,     (* MATCHED_TTL_S, in ticks                                *)
  SweepEvery,     (* the 0.5 s between sweeps, in ticks                     *)
  BatchInterval,  (* --batch-interval-s, in ticks                           *)
  JoinWait,       (* the 2.0 s given to each join, in ticks                 *)
  None,           (* Python's None in a row's rtt_ms                        *)
  MaxProbes,      (* bound of the model: probes fired                       *)
  MaxReplies      (* bound of the model: replies that reach the host        *)

Threads == {"main", "sender", "rx"}
Proto   == {"tcp_synack", "icmp"}

(* dst stands for the target's address: the two families of a target have  *)
(* different addresses.                                                    *)
Pair == [dst : STRING, ver : {4, 6}, proto : Proto]

ASSUME PairsAssumption == Pairs \in Seq(Pair) /\ Pairs # <<>>

ASSUME SeqAssumption ==
  /\ TcpSeqSpace \in Nat \ {0}
  /\ IcmpSeqSpace \in Nat \ {0}
  /\ TcpSeqStep \in Nat
  /\ TcpSeqStart \subseteq 0 .. TcpSeqSpace - 1

ASSUME TimingAssumption ==
  /\ BatchSize \in Nat \ {0}
  /\ Timeout \in Nat
  /\ MatchedTTL \in Nat
  /\ SweepEvery \in Nat
  /\ BatchInterval \in Nat
  /\ JoinWait \in Nat
  /\ MaxProbes \in Nat
  /\ MaxReplies \in Nat

ASSUME NoneAssumption == None \notin Nat

VARIABLES
  pending,      (* key -> probe in flight, or answered and kept for its TTL *)
  buffer,       (* rows waiting for a flush                                 *)
  stopFlag,     (* stop_flag, and the _wake event set with it               *)
  nSent,        (* n_sent, the probe_seq of the next probe                  *)
  cursor,       (* _seq_cursor, _icmp_seq_v4 and _icmp_seq_v6               *)
  inbox,        (* the BPF ring and the two raw sockets, queues of keys     *)
  air,          (* keys of the probes that are on the wire                  *)
  nReplies,     (* replies that have reached the host so far                *)
  pc,           (* where each thread is                                     *)
  ret,          (* where each thread continues after its rows are enqueued  *)
  todo,         (* rows each thread holds and has yet to enqueue            *)
  batch,        (* rows each thread is passing to sink.flush                *)
  idx,          (* the sender's position in Pairs                           *)
  sending,      (* the key of the probe the sender is sending               *)
  ready,        (* what select returned to rx and rx has yet to read        *)
  sinceSweep,   (* age of last_sweep                                        *)
  sinceFlush,   (* age of last_flush                                        *)
  flushDue,     (* main's verdict on last_flush at its reading of the clock *)
  joinAge,      (* how long main has been in the current join               *)
  db,           (* rows committed to probe_sample                           *)
  dropped,      (* history: rows whose flush reported a failure             *)
  reused,       (* history: probes that shared a key with another           *)
  heard,        (* history: probes whose reply reached the host in time,    *)
                (* "polled" once main's poll has returned with it           *)
  abandoned     (* history: threads that outlived their join                *)

vars == <<pending, buffer, stopFlag, nSent, cursor, inbox, air, nReplies, pc,
          ret, todo, batch, idx, sending, ready, sinceSweep, sinceFlush,
          flushDue, joinAge, db, dropped, reused, heard, abandoned>>

wire    == <<air, nReplies>>
rowVars == <<todo, batch, buffer, db, dropped>>
timers  == <<sinceSweep, sinceFlush, flushDue, joinAge>>
local   == <<idx, sending, ready>>
history == <<reused, heard, abandoned>>

-----------------------------------------------------------------------------
(* Keys, entries and rows.                                                 *)

Channels == {"ring", "icmp4", "icmp6"}

Cursors == {"tcp", "icmp4", "icmp6"}
Width(c) == IF c = "tcp" THEN TcpSeqSpace ELSE IcmpSeqSpace

Key == [pair : Range(Pairs), seq : Nat]

Entry == [id : Nat, age : Nat, matched : BOOLEAN]

Row == [id : Nat, ok : BOOLEAN, rtt : Nat \cup {None}]

OkRow(id, rtt) == [id |-> id, ok |-> TRUE, rtt |-> rtt]
LossRow(id)    == [id |-> id, ok |-> FALSE, rtt |-> None]

(* The cursor a probe of a pair draws its sequence number from, and the    *)
(* channel its reply comes back on.                                        *)
CursorOf(pair) ==
  IF pair.proto = "tcp_synack" THEN "tcp"
  ELSE IF pair.ver = 4 THEN "icmp4" ELSE "icmp6"

ChannelOf(key) ==
  IF key.pair.proto = "tcp_synack" THEN "ring" ELSE CursorOf(key.pair)

(* The number that identifies the reply: ack_expected for TCP, the echo    *)
(* sequence number for ICMP.                                               *)
NextKey(pair) ==
  LET c == cursor[CursorOf(pair)]
  IN  [pair |-> pair,
       seq  |-> IF pair.proto = "tcp_synack" THEN (c + 1) % TcpSeqSpace ELSE c]

AdvanceNoWrap(pair) ==   \* mutant: the masks are forgotten
  [cursor EXCEPT ![CursorOf(pair)] =
     @ + (IF pair.proto = "tcp_synack" THEN TcpSeqStep ELSE 1)]

Advance(pair) ==
  LET c == CursorOf(pair)
  IN  [cursor EXCEPT ![c] = (@ + (IF c = "tcp" THEN TcpSeqStep ELSE 1)) % Width(c)]

(* d[k] = v and the removal of keys, for a dictionary.                     *)
Put(f, k, v)  == [x \in DOMAIN f \cup {k} |-> IF x = k THEN v ELSE f[x]]
Without(keys) == Restrict(pending, DOMAIN pending \ keys)

Unmatched == {k \in DOMAIN pending : ~pending[k].matched}
Losses(keys) == {LossRow(pending[k].id) : k \in keys}

Older(age, limit) == IF age < limit THEN age + 1 ELSE limit
At(t, label) == pc[t] = label
Goto(t, label) == pc' = [pc EXCEPT ![t] = label]

(* Daemon threads die when the interpreter exits.                          *)
Alive(t) == pc["main"] # "done" /\ pc[t] # "done"

-----------------------------------------------------------------------------
HasIcmp == \E i \in DOMAIN Pairs : Pairs[i].proto = "icmp"

Init ==
  /\ pending = << >>
  /\ buffer = << >>
  /\ stopFlag = FALSE
  /\ nSent = 0
  /\ \E s \in TcpSeqStart : cursor = [c \in Cursors |-> IF c = "tcp" THEN s ELSE 0]
  /\ inbox = [c \in Channels |-> << >>]
  /\ air = {}
  /\ nReplies = 0
  /\ pc = [t \in Threads |-> CASE t = "main" -> "loop"
                               [] t = "sender" -> "wait"
                               [] t = "rx" -> IF HasIcmp THEN "check" ELSE "done"]
  /\ ret = [t \in Threads |-> IF t = "main" THEN "poll" ELSE "check"]
  /\ todo = [t \in Threads |-> {}]
  /\ batch = [t \in Threads |-> << >>]
  /\ idx = 1
  /\ sending = [pair |-> Pairs[1], seq |-> 0]
  /\ ready = {}
  /\ sinceSweep = 0
  /\ sinceFlush = 0
  /\ flushDue = FALSE
  /\ joinAge = 0
  /\ db = {}
  /\ dropped = {}
  /\ reused = {}
  /\ heard = << >>
  /\ abandoned = {}

-----------------------------------------------------------------------------
(* Rows: _enqueue_row and _flush, run by whichever thread produced the row. *)

(* Thread t has rows to enqueue and then goes on at label next.            *)
Produce(t, rows, next) ==
  /\ todo' = [todo EXCEPT ![t] = rows]
  /\ ret' = [ret EXCEPT ![t] = next]
  /\ Goto(t, IF rows = {} THEN next ELSE "enq")

Resume(t) == Goto(t, IF todo'[t] = {} THEN ret[t] ELSE "enq")

NeedFlushWhenEqual(rows) == Len(rows) = BatchSize   \* mutant: == for >=
NeedFlush(rows) == Len(rows) >= BatchSize

(* The critical section of _enqueue_row.  need_flush is decided here; the  *)
(* flush itself happens after the lock is released.                        *)
Enqueue(t) ==
  /\ Alive(t)
  /\ At(t, "enq")
  /\ \E row \in todo[t] :
       /\ buffer' = Append(buffer, row)
       /\ todo' = [todo EXCEPT ![t] = @ \ {row}]
  /\ IF NeedFlush(buffer') THEN Goto(t, "swap") ELSE Resume(t)
  /\ UNCHANGED <<pending, stopFlag, nSent, cursor, inbox, wire, ret, batch,
                 local, timers, db, dropped, history>>

(* What _flush takes from the buffer before it empties it.                 *)
TakenOneBatch ==   \* mutant: a batch is cut at batch_size, the rest cleared
  IF NeedFlush(buffer) THEN SubSeq(buffer, 1, BatchSize) ELSE buffer
Taken == buffer

(* The critical section of _flush: take the whole buffer, if any.          *)
SwapBuffer(t) ==
  /\ Alive(t)
  /\ At(t, "swap")
  /\ batch' = [batch EXCEPT ![t] = Taken]
  /\ buffer' = << >>
  /\ sinceFlush' = 0
  /\ flushDue' = FALSE
  /\ UNCHANGED todo
  /\ IF buffer = << >> THEN Resume(t) ELSE Goto(t, "sink")
  /\ UNCHANGED <<pending, stopFlag, nSent, cursor, inbox, wire, ret, local,
                 sinceSweep, joinAge, db, dropped, history>>

(* INSERT ... ON CONFLICT DO NOTHING: the first row of a probe stays.      *)
Insert(rows) ==
  db \cup {r \in rows : \A d \in db : d.id # r.id}

(* sink.flush returns after the commit.  Not even sink.close() ends that:  *)
(* an abandoned thread whose flush retries connects again.                 *)
SinkWrites(t) ==
  /\ Alive(t)
  /\ At(t, "sink")
  /\ db' = Insert(Range(batch[t]))
  /\ batch' = [batch EXCEPT ![t] = << >>]
  /\ UNCHANGED <<todo, dropped>>
  /\ Resume(t)
  /\ UNCHANGED <<pending, buffer, stopFlag, nSent, cursor, inbox, wire, ret,
                 local, timers, history>>

(* sink.flush gives up after its retry, or raises and _flush swallows the   *)
(* exception.  The rows are gone from memory; a commit whose answer was    *)
(* lost may have stored them all the same.                                 *)
SinkDrops(t) ==
  /\ Alive(t)
  /\ At(t, "sink")
  /\ \/ UNCHANGED db
     \/ db' = Insert(Range(batch[t]))
  /\ dropped' = dropped \cup Range(batch[t])
  /\ batch' = [batch EXCEPT ![t] = << >>]
  /\ UNCHANGED todo
  /\ Resume(t)
  /\ UNCHANGED <<pending, buffer, stopFlag, nSent, cursor, inbox, wire, ret,
                 local, timers, history>>

RowStep(t) ==
  Enqueue(t) \/ SwapBuffer(t) \/ SinkWrites(t) \/ SinkDrops(t)

-----------------------------------------------------------------------------
(* The sender: _sender_loop, _tick, _fire_one, _send_one_tcp/icmp.         *)

(* The wait for the next deadline ends and a round starts.                 *)
SenderTick ==
  /\ Alive("sender")
  /\ At("sender", "wait")
  /\ ~stopFlag
  /\ nSent + Len(Pairs) <= MaxProbes
  /\ idx' = 1
  /\ Goto("sender", "check")
  /\ UNCHANGED <<pending, stopFlag, nSent, cursor, inbox, wire, ret, rowVars,
                 sending, ready, timers, history>>

(* --duration-s has passed: the sender itself asks for the shutdown.       *)
SenderDuration ==
  /\ Alive("sender")
  /\ At("sender", "wait")
  /\ stopFlag' = TRUE
  /\ Goto("sender", "done")
  /\ UNCHANGED <<pending, nSent, cursor, inbox, wire, ret, rowVars, local,
                 timers, history>>

SenderExit ==
  /\ Alive("sender")
  /\ At("sender", "wait")
  /\ stopFlag
  /\ Goto("sender", "done")
  /\ UNCHANGED <<pending, stopFlag, nSent, cursor, inbox, wire, ret, rowVars,
                 local, timers, history>>

(* _tick looks at stop_flag before each probe; the flag may be set between *)
(* this test and the probe.                                                *)
SenderCheck ==
  /\ Alive("sender")
  /\ At("sender", "check")
  /\ Goto("sender", IF idx > Len(Pairs) \/ stopFlag THEN "wait" ELSE "fire")
  /\ UNCHANGED <<pending, stopFlag, nSent, cursor, inbox, wire, ret, rowVars,
                 local, timers, history>>

(* Everything up to the insertion into pending, before the packet is sent.  *)
(* The entry of an earlier probe with the same key is overwritten.         *)
SenderFire ==
  LET key == NextKey(Pairs[idx])
  IN  /\ Alive("sender")
      /\ At("sender", "fire")
      /\ nSent' = nSent + 1
      /\ cursor' = Advance(Pairs[idx])
      /\ pending' = Put(pending, key, [id |-> nSent, age |-> 0, matched |-> FALSE])
      /\ reused' = reused \cup {pending[k].id : k \in DOMAIN pending \cap {key}}
                           \cup {nSent : k \in (DOMAIN pending \cup air) \cap {key}}
      /\ sending' = key
      /\ Goto("sender", "send")
      /\ UNCHANGED <<stopFlag, inbox, wire, ret, rowVars, idx, ready, timers,
                     heard, abandoned>>

SendOk ==
  /\ Alive("sender")
  /\ At("sender", "send")
  /\ air' = air \cup {sending}
  /\ idx' = idx + 1
  /\ Goto("sender", "check")
  /\ UNCHANGED <<pending, stopFlag, nSent, cursor, inbox, nReplies, ret,
                 rowVars, sending, ready, timers, history>>

(* scapy raises: _fire_one swallows it and the entry stays until a sweep.  *)
SendRaises ==
  /\ Alive("sender")
  /\ At("sender", "send")
  /\ sending.pair.proto = "tcp_synack"
  /\ idx' = idx + 1
  /\ Goto("sender", "check")
  /\ UNCHANGED <<pending, stopFlag, nSent, cursor, inbox, wire, ret, rowVars,
                 sending, ready, timers, history>>

FailedRowsNone == {}   \* mutant: the entry is popped and no row written
FailedRows == {LossRow(nSent - 1)}

(* sendto fails: the entry, if it is still there, is popped and the loss   *)
(* is recorded at once.                                                    *)
SendFails ==
  /\ Alive("sender")
  /\ At("sender", "send")
  /\ sending.pair.proto = "icmp"
  /\ pending' = Without({sending})
  /\ Produce("sender", FailedRows, "check")
  /\ idx' = idx + 1
  /\ UNCHANGED <<stopFlag, nSent, cursor, inbox, wire, batch, buffer, db,
                 dropped, sending, ready, timers, history>>

Sender == SenderTick \/ SenderExit \/ SenderCheck \/ SenderFire \/ SendOk
            \/ SendRaises \/ SendFails

-----------------------------------------------------------------------------
(* Replies.                                                                *)

(* A reply, or a copy of one, reaches the host: the XDP program puts it on *)
(* the ring, the kernel on a raw socket.                                   *)
ReplyArrives ==
  /\ nReplies < MaxReplies
  /\ \E key \in air :
       /\ inbox' = [inbox EXCEPT ![ChannelOf(key)] = Append(@, key)]
       /\ heard' = IF key \in Unmatched /\ pending[key].age < Timeout
                   THEN Put(heard, pending[key].id, "arrived")
                   ELSE heard
  /\ nReplies' = nReplies + 1
  /\ UNCHANGED <<pending, stopFlag, nSent, cursor, air, pc, ret, rowVars,
                 local, timers, reused, abandoned>>

AnswersAny(key) == key \in DOMAIN pending   \* mutant: "matched" not tested
Answers(key) == key \in Unmatched

(* The common part of _on_event and _handle_icmp_reply, run by thread t on *)
(* the head of channel c: an unknown key is an orphan, a matched one a     *)
(* retransmission; otherwise the probe is marked and its row enqueued.     *)
Receive(t, c, next) ==
  LET key == Head(inbox[c])
  IN  /\ inbox[c] # << >>
      /\ inbox' = [inbox EXCEPT ![c] = Tail(@)]
      /\ IF Answers(key)
         THEN /\ pending' = [pending EXCEPT ![key].matched = TRUE,
                                            ![key].age = 0]
              /\ Produce(t, {OkRow(pending[key].id, pending[key].age)}, next)
         ELSE /\ Produce(t, {}, next)
              /\ UNCHANGED pending
      /\ UNCHANGED <<stopFlag, nSent, cursor, wire, batch, buffer, db,
                     dropped, idx, sending, timers, history>>

OnEvent ==
  /\ Alive("main")
  /\ At("main", "poll")
  /\ Receive("main", "ring", "poll")
  /\ UNCHANGED ready

(* select returns the sockets that can be read; with nothing to read it    *)
(* times out and the loop goes around.                                     *)
RxSelect ==
  /\ Alive("rx")
  /\ At("rx", "check")
  /\ ~stopFlag
  /\ ready' = {c \in {"icmp4", "icmp6"} : inbox[c] # << >>}
  /\ ready' # {}
  /\ Goto("rx", "recv")
  /\ UNCHANGED <<pending, stopFlag, nSent, cursor, inbox, wire, ret, rowVars,
                 idx, sending, timers, history>>

(* The v4 socket comes first in the list given to select.                  *)
HandleIcmpReply ==
  LET c == IF "icmp4" \in ready THEN "icmp4" ELSE "icmp6"
  IN  /\ Alive("rx")
      /\ At("rx", "recv")
      /\ ready' = ready \ {c}
      /\ Receive("rx", c, IF ready' = {} THEN "check" ELSE "recv")

RxExit ==
  /\ Alive("rx")
  /\ At("rx", "check")
  /\ stopFlag
  /\ Goto("rx", "done")
  /\ UNCHANGED <<pending, stopFlag, nSent, cursor, inbox, wire, ret, rowVars,
                 local, timers, history>>

Rx == RxSelect \/ HandleIcmpReply \/ RxExit

-----------------------------------------------------------------------------
(* The main loop of run().                                                 *)

MainLoop ==
  /\ At("main", "loop")
  /\ Goto("main", IF stopFlag THEN "join_sender" ELSE "poll")
  /\ ret' = [ret EXCEPT !["main"] = "poll"]
  /\ joinAge' = 0
  /\ UNCHANGED <<pending, stopFlag, nSent, cursor, inbox, wire, rowVars,
                 local, sinceSweep, sinceFlush, flushDue, history>>

(* The TCP probes that are still in the map, answered or not.              *)
OnRing == {pending[k].id : k \in {x \in DOMAIN pending : ChannelOf(x) = "ring"}}

RingDrained == inbox["ring"] = << >>

FlushIsDueWhenFull ==   \* mutant: a small buffer never counts as due
  sinceFlush >= BatchInterval /\ Len(buffer) >= BatchSize
FlushIsDue == sinceFlush >= BatchInterval

(* ring_buffer__poll comes back with the ring drained, or after 200 ms.    *)
(* The clock read here decides on the sweep and on the interval flush.     *)
PollReturns ==
  /\ At("main", "poll")
  /\ RingDrained
  /\ flushDue' = FlushIsDue
  /\ ret' = [ret EXCEPT !["main"] = "interval"]
  /\ IF sinceSweep >= SweepEvery
     THEN Goto("main", "sweep") /\ sinceSweep' = 0
     ELSE Goto("main", "interval") /\ UNCHANGED sinceSweep
  /\ heard' = [i \in DOMAIN heard |-> IF i \in OnRing THEN "polled" ELSE heard[i]]
  /\ UNCHANGED <<pending, stopFlag, nSent, cursor, inbox, wire, rowVars,
                 local, sinceFlush, joinAge, reused, abandoned>>

(* EINTR: continue.  The signals that interrupt the poll are the two whose *)
(* handler sets stop_flag.                                                 *)
PollInterrupted ==
  /\ At("main", "poll")
  /\ stopFlag
  /\ Goto("main", "loop")
  /\ UNCHANGED <<pending, stopFlag, nSent, cursor, inbox, wire, ret, rowVars,
                 local, timers, history>>

(* Any other error leaves the loop through the finally block.              *)
PollFails ==
  /\ At("main", "poll")
  /\ stopFlag' = TRUE
  /\ joinAge' = 0
  /\ Goto("main", "join_sender")
  /\ UNCHANGED <<pending, nSent, cursor, inbox, wire, ret, rowVars, local,
                 sinceSweep, sinceFlush, flushDue, history>>

ExpiredMatchedToo ==   \* mutant: the sweep forgets to look at "matched"
  {k \in DOMAIN pending : pending[k].age >= Timeout}
Expired == {k \in Unmatched : pending[k].age >= Timeout}
Stale   == {k \in DOMAIN pending \ Unmatched : pending[k].age >= MatchedTTL}

Sweep ==
  /\ At("main", "sweep")
  /\ pending' = Without(Expired \cup Stale)
  /\ Produce("main", Losses(Expired), "interval")
  /\ UNCHANGED <<stopFlag, nSent, cursor, inbox, wire, batch, buffer, db,
                 dropped, local, timers, history>>

IntervalFlush ==
  /\ At("main", "interval")
  /\ flushDue' = FALSE
  /\ ret' = [ret EXCEPT !["main"] = "loop"]
  /\ Goto("main", IF flushDue THEN "swap" ELSE "loop")
  /\ UNCHANGED <<pending, stopFlag, nSent, cursor, inbox, wire, rowVars, local,
                 sinceSweep, sinceFlush, joinAge, history>>

-----------------------------------------------------------------------------
(* Shutdown: the signal handler and the finally block of run().            *)

Signal ==
  /\ pc["main"] # "done"
  /\ ~stopFlag
  /\ stopFlag' = TRUE
  /\ UNCHANGED <<pending, nSent, cursor, inbox, wire, pc, ret, rowVars, local,
                 timers, history>>

Finished  == {t \in Threads : pc[t] = "done"}
JoinedForGood(t) == t \in Finished   \* mutant: join() without a timeout
Joined(t) == t \in Finished \/ joinAge >= JoinWait

JoinSender ==
  /\ At("main", "join_sender")
  /\ Joined("sender")
  /\ abandoned' = abandoned \cup ({"sender"} \ Finished)
  /\ joinAge' = 0
  /\ Goto("main", "join_rx")
  /\ UNCHANGED <<pending, stopFlag, nSent, cursor, inbox, wire, ret, rowVars,
                 local, sinceSweep, sinceFlush, flushDue, reused, heard>>

JoinRx ==
  /\ At("main", "join_rx")
  /\ Joined("rx")
  /\ abandoned' = abandoned \cup ({"rx"} \ Finished)
  /\ Goto("main", "final")
  /\ UNCHANGED <<pending, stopFlag, nSent, cursor, inbox, wire, ret, rowVars,
                 local, timers, reused, heard>>

LeftOverExpired == Losses(Expired)   \* mutant: only those past their deadline
LeftOverAll == Losses(DOMAIN pending)   \* mutant: answered ones as well
LeftOver == Losses(Unmatched)

(* Whatever is unanswered is a loss, and the map is cleared.               *)
FinalSweep ==
  /\ At("main", "final")
  /\ pending' = << >>
  /\ Produce("main", LeftOver, "final_flush")
  /\ UNCHANGED <<stopFlag, nSent, cursor, inbox, wire, batch, buffer, db,
                 dropped, local, timers, history>>

FinalFlush ==
  /\ At("main", "final_flush")
  /\ ret' = [ret EXCEPT !["main"] = "close"]
  /\ Goto("main", "swap")
  /\ UNCHANGED <<pending, stopFlag, nSent, cursor, inbox, wire, rowVars, local,
                 timers, history>>

(* conn.close() waits for the connection's lock, which an abandoned thread *)
(* holds while a statement of its flush runs.  Inside sink.flush it need   *)
(* not be in a statement: the step may be taken, and may have to wait.     *)
MayHoldConnection == {t \in Threads : pc[t] = "sink"}

CloseSink ==
  /\ At("main", "close")
  /\ Goto("main", "teardown")
  /\ UNCHANGED <<pending, stopFlag, nSent, cursor, inbox, wire, ret, rowVars,
                 local, timers, history>>

(* The sockets and the XDP program go and the process ends.                *)
Exit ==
  /\ At("main", "teardown")
  /\ Goto("main", "done")
  /\ UNCHANGED <<pending, stopFlag, nSent, cursor, inbox, wire, ret, rowVars,
                 local, timers, history>>

Main == OnEvent \/ MainLoop \/ PollReturns \/ Sweep \/ IntervalFlush
          \/ JoinSender \/ JoinRx \/ FinalSweep \/ FinalFlush \/ CloseSink
          \/ Exit

-----------------------------------------------------------------------------
Tick ==
  /\ pc["main"] # "done"
  /\ pending' = [k \in DOMAIN pending |->
       [pending[k] EXCEPT !.age =
          Older(@, IF pending[k].matched THEN MatchedTTL ELSE Timeout + 1)]]
  /\ sinceSweep' = Older(sinceSweep, SweepEvery)
  /\ sinceFlush' = Older(sinceFlush, BatchInterval)
  /\ joinAge' = IF pc["main"] \in {"join_sender", "join_rx"}
                THEN Older(joinAge, JoinWait) ELSE joinAge
  /\ UNCHANGED <<buffer, stopFlag, nSent, cursor, inbox, wire, pc, ret, todo,
                 batch, local, flushDue, db, dropped, history>>

Exited == pc["main"] = "done" /\ UNCHANGED vars

Next ==
  \/ Main \/ PollInterrupted \/ PollFails \/ Signal
  \/ Sender \/ SenderDuration
  \/ Rx
  \/ \E t \in Threads : RowStep(t)
  \/ ReplyArrives \/ Tick \/ Exited

Spec == Init /\ [][Next]_vars

-----------------------------------------------------------------------------
(* Fairness.  Main is always running, libbpf's poll returns within 200 ms, *)
(* and main's own calls of PostgreSQL are assumed to answer or to fail,    *)
(* but for a close() that may be waiting for a statement of another        *)
(* thread.  Nothing is assumed of sender and rx, which may hang wherever   *)
(* they are.                                                               *)
MainUnhindered == Main /\ (At("main", "close") => MayHoldConnection = {})

LiveSpec ==
  /\ Spec
  /\ WF_vars(MainUnhindered)
  /\ WF_vars(Tick)
  /\ WF_vars(RowStep("main"))

-----------------------------------------------------------------------------
(* Properties.                                                             *)

RowLabels == {"enq", "swap", "sink", "done"}
ReturnsTo(t) ==
  CASE t = "main"   -> {"poll", "interval", "loop", "final_flush", "close"}
    [] t = "sender" -> {"check"}
    [] t = "rx"     -> {"check", "recv"}
LabelsOf(t) ==
  RowLabels \cup ReturnsTo(t) \cup
  (CASE t = "main"   -> {"sweep", "join_sender", "join_rx", "final", "teardown"}
     [] t = "sender" -> {"wait", "fire", "send"}
     [] t = "rx"     -> {})

(* Every variable stays within the range the code gives it; in particular  *)
(* the sequence numbers wrap at their width.                               *)
TypeOK ==
  /\ DOMAIN pending \subseteq Key
  /\ \A k \in DOMAIN pending : pending[k] \in Entry
  /\ buffer \in Seq(Row)
  /\ stopFlag \in BOOLEAN
  /\ nSent \in Nat
  /\ cursor \in [Cursors -> Nat]
  /\ \A c \in Cursors : cursor[c] < Width(c)
  /\ inbox \in [Channels -> Seq(Key)]
  /\ air \subseteq Key
  /\ nReplies \in Nat
  /\ DOMAIN pc = Threads /\ \A t \in Threads : pc[t] \in LabelsOf(t)
  /\ DOMAIN ret = Threads /\ \A t \in Threads : ret[t] \in ReturnsTo(t)
  /\ todo \in [Threads -> SUBSET Row]
  /\ batch \in [Threads -> Seq(Row)]
  /\ idx \in 1 .. Len(Pairs) + 1
  /\ sending \in Key
  /\ ready \subseteq {"icmp4", "icmp6"}
  /\ sinceSweep \in Nat /\ sinceFlush \in Nat /\ joinAge \in Nat
  /\ flushDue \in BOOLEAN
  /\ db \subseteq Row
  /\ dropped \subseteq Row
  /\ reused \subseteq Nat
  /\ DOMAIN heard \subseteq Nat
  /\ abandoned \subseteq Threads

(* _enqueue_row decides on the flush under the lock and flushes outside it. *)
(* Whatever the threads do in between, each row beyond batch_size - 1 in   *)
(* the buffer is covered by a thread that is committed to emptying it.     *)
Flushers == {t \in Threads : pc[t] = "swap"}
BufferBound == Len(buffer) <= (BatchSize - 1) + Cardinality(Flushers)

(* Every row there is of a probe, in memory, stored or given up.           *)
AllRows ==
  (UNION {todo[t] \cup Range(batch[t]) : t \in Threads})
    \cup Range(buffer) \cup db \cup dropped

(* A probe has one outcome: reply handlers, sweeps and send errors never   *)
(* record it both as answered and as lost, nor answered twice, so that ON  *)
(* CONFLICT DO NOTHING discards nothing but copies of the same row.        *)
NoContradiction ==
  \A r, s \in AllRows : r.id = s.id /\ r.id \notin reused => r = s

(* No probe is forgotten: from the moment it is inserted in pending it is  *)
(* there unanswered or it has a row.                                       *)
Accounted ==
  \A id \in 0 .. nSent - 1 :
    \/ id \in reused
    \/ \E k \in Unmatched : pending[k].id = id
    \/ \E r \in AllRows : r.id = id

Resolved(id) == id \in reused \/ \E r \in db \cup dropped : r.id = id

(* The shutdown sequence loses nothing when both joins succeed: every      *)
(* probe ever fired was given to the sink before the process ends.         *)
CleanExit ==
  pc["main"] = "done" /\ abandoned = {} =>
    \A id \in 0 .. nSent - 1 : Resolved(id)

(* run() polls before it sweeps: a SYN-ACK that is on the ring in time and *)
(* seen by a poll is never swept as a loss, not even by the final sweep.   *)
PolledIsKept ==
  \A r \in AllRows :
    r.id \in DOMAIN heard /\ r.id \notin reused /\ heard[r.id] = "polled" => r.ok

(* While the daemon runs every probe is decided and handed to the sink, as *)
(* long as no thread hangs for good with rows in its hands.                *)
RowsMove == \A t \in Threads : []<>(pc[t] \notin {"enq", "swap", "sink"})
ProbeResolved ==
  RowsMove => \A id \in 0 .. MaxProbes - 1 :
                (nSent > id) ~> (Resolved(id) \/ pc["main"] = "done")

(* A stop request ends the process, whatever sender and rx hang in - a     *)
(* send, a receive, the interval's wait - except a statement: the joins    *)
(* time out, sink.close() does not.                                        *)
SinkReturns == \A t \in Threads : []<>(pc[t] # "sink")
ShutdownCompletes == SinkReturns => (stopFlag ~> (pc["main"] = "done"))

(* --timeout-ms: "mark probe as loss if no SA within this window".         *)
OkWithinWindow == \A r \in AllRows : r.ok => r.rtt <= Timeout

-----------------------------------------------------------------------------
(* The daemon implements ProbeLedger: a probe is answered or lost from the *)
(* moment a thread has taken it from the map and holds its row.            *)
IdsOf(rows) == {r.id : r \in rows} \ reused
Answered == IdsOf({r \in AllRows : r.ok})
Lost     == IdsOf({r \in AllRows : ~r.ok})
Handed   == IdsOf(db \cup dropped)
Stored   == IdsOf(db)

Abstract == INSTANCE ProbeLedger WITH
  fired <- nSent, answered <- Answered, lost <- Lost, handed <- Handed,
  stored <- Stored, struck <- reused

(* No outcome is taken back or changed between the threads' hands, the     *)
(* buffer, the batches and the table, whoever flushes and whatever the     *)
(* sink does; only a probe that waits is decided, and only decided probes  *)
(* are handed over.  (The first disjunct is a case of the second, and      *)
(* quicker to check.)                                                      *)
ImplementsLedger ==
  /\ Abstract!Init
  /\ [][\/ UNCHANGED <<nSent, reused, rowVars>>
        \/ [Abstract!Next]_Abstract!ledgerVars]_vars

=============================================================================
