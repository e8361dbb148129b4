# Verification of the probe hub

TLA+ models of the probing system of this repository (a daemon that sends TCP
SYNs and ICMP echoes to leaf hosts once per interval, catches the answers with
an XDP program and raw sockets, and writes one row per probe to PostgreSQL; an
importer of older sample files; the scripts that run and mirror it), the TLC
runs that check them on small instances, and proofs checked by TLAPS that hold
for every value of the constants.

Line numbers refer to `src/`. `PROJECT.json` gives the source lines of each
definition, the hazards at their lines, the properties of each run, and for
each property a mutation of the code's model that breaks it.

## 1. The system

| Part | Source | State it keeps | Operations |
|---|---|---|---|
| Probe daemon | `hub_probe/probe_daemon.py`, class `ProbeDaemon` | `pending`, `buffer`, `stop_flag`, `n_sent`, three sequence cursors, counters, `last_flush` | sender round, ring callback, rx loop, sweep, enqueue, flush, shutdown |
| PostgreSQL sink | same file, class `PgSink` | `conn`, `total`; the server's table | `flush` with retry, `_connect`, `close` |
| XDP program and ring | `bpf/probe_xdp.bpf.c`, `probe_xdp.h`; `bpf_setup`, `bpf_teardown`, `_on_event` | the ring buffer, the attached program | per-frame verdict, submit, poll, attach, detach |
| Launcher | `hub_probe/run_forever.sh` | `PID_FILE`, the processes, the interface's XDP slot | `start`, `stop`, `status`, `tail` |
| Targets and timer | `main`, `parse_target`, `__init__`, `_sender_loop` of the daemon | `pairs`, `next_tick`, `end` | parsing and expansion of `--target`, deadlines and their re-anchoring, `--duration-s` |
| Byte layouts | `_icmp_checksum`, the event record | none | |
| Sample importer | `docker/import_samples.py` | a list of files, one open transaction; the table | expand, read, insert in chunks, commit or roll back per file, exit status |
| Mirror script | `pull_from_workspace.sh` | a git work tree, its commits and its remote | copy of files and directories, commit, push |
| Schema | `docker/postgres/initdb/01_schema.sql` | `probe_sample` | primary key, views |
| Docker stack, dashboards, ops scripts | `docker/`, `ops/` | | configuration |

### How the parts interact

* Three threads of the daemon share `pending` (under `pending_lock`), `buffer`
  (under `buffer_lock`) and `stop_flag` (no lock). **main** polls the ring and
  runs the callback, sweeps, flushes when the interval is over, and runs the
  shutdown; **sender** files a probe in `pending` and then sends it; **rx**
  reads the ICMP sockets. Whoever enqueues the row that fills the batch runs
  the flush itself, outside the lock, so that up to three threads are inside
  `sink.flush` at once.
* All threads use the one psycopg2 connection of the sink, whose `with` block
  commits or rolls back for whoever is in it.
* The XDP program takes replies away from the hub's own TCP stack
  (`XDP_DROP`) and puts an event in the ring; the daemon must take events out
  fast enough, and it does not while main is inside `sink.flush`.
* The importer writes to the daemon's table, one transaction per file, with the
  same `ON CONFLICT DO NOTHING`; two importers meet only in PostgreSQL, where
  an uncommitted key of the one makes the other wait.
* The mirror script reads a workspace that others edit, and talks to git only.
* The launcher signals whatever `pgrep` finds and detaches whatever program is
  on the interface. So does a daemon at the end of its shutdown.

### What is hard

* A probe ends once, as answered or lost, although the ring callback, rx, the
  sweep, the final sweep and the sender's error handler all decide on it.
* Rows are in five places on their way to the table (in a thread's hands, in
  the buffer, in a batch, stored, given up); none may be lost between them, and
  the shutdown goes ahead without threads that do not end in time.
* The sink's retry: a lost commit answer, a server that is still down, a
  connection found broken in the `with` block's exit.
* The header walk of the XDP program, whose every limit is a frame of the host
  dropped or a reply missed.
* A restart: two daemons, one slot on the interface.
* Bursts that take longer than the interval and wake-ups that come late.
* Importers that are killed, lose the server or the answer of a commit, or
  wait for one another, and are then run again over the same files.
* A mirror run that ends between its copies, its commit and its push, and an
  rsync whose failure nobody sees.

### What makes each part correct

* Daemon: each probe has one outcome (`NoContradiction`), none is forgotten
  (`Accounted`), a clean shutdown hands every probe to the sink (`CleanExit`), a
  reply that was polled is never swept as a loss (`PolledIsKept`), the buffer is
  bounded (`BufferBound`), every probe is decided (`ProbeResolved`), a stop
  request ends the process unless a statement hangs (`ShutdownCompletes`). As a
  whole it is a ledger of probes (`ImplementsLedger`, the refinement of
  `ProbeLedger`): an outcome is decided once and is not changed on its way.
* Sink: as long as a flush has the same connection under its `with` block and
  its cursor, it stores a batch whole or not at all (`WholeBatches`) and counts
  it only when it is stored (`KeepsPromise`, the refinement of
  `SinkInterface`), it counts each entry of the lists it was given at most once
  (`TotalIsHonest`), and it comes back (`FlushReturns`). It does not promise to
  store what it was given: it may raise, or return normally after dropping the
  rows.
* XDP: nothing is dropped without an event (`NoSilentDrop`), only replies to
  the probe port are dropped (`HostTrafficSpared`), replies are left to the
  stack only for want of room (`LeftOnlyWhenFull`), a repeated reply adds no
  row (`OneRowPerProbe`), an ok row is for a reply that was caught
  (`OkWasCaught`).
* Launcher: `stop` leaves no daemon, and no program unless its own detaching
  fails (`StopLeavesNothing`), all daemons but the latest are on their way out
  (`OnlyLatestStays`), and a daemon that was not started over another is not
  made deaf (`ServingHasItsProgram`).
* Targets and timer: what is probed is what `--target` says, in its order
  (`ProbesWhatWasAsked`), each pair once per interval whatever fails
  (`EachPairOncePerRound`); the deadlines keep their grid until one is missed
  (`NoDriftUnlessMissed`), rounds are not fired back to back (`NoBackToBack`),
  `--duration-s` ends the daemon (`DurationEnds`).
* Importer: a file is in the table whole or not at all (`WholeFiles`), the
  counts it prints add up (`ReportedIsHonest`), its exit status tells whether
  something is missing (`NoFileMissed`), and it ends (`RunsEnd`).
* Mirror: a run with status 0 has published what it found
  (`DoneMeansPublished`), what an earlier run left behind goes out with the
  next push (`PushPublishesAll`), a copy in part is completed (`TornIsRepaired`).

## 2. The modules

### ProbeDaemon

One action is what a thread does between two points at which another thread
can be seen: a critical section, a blocking call, a test of `stop_flag`. `pc`
says where each thread is.

| Code | Actions |
|---|---|
| `_enqueue_row`, `_flush` (any thread) | `Enqueue`, `SwapBuffer`, `SinkWrites`, `SinkDrops` |
| `_sender_loop`, `_tick` | `SenderTick`, `SenderDuration`, `SenderExit`, `SenderCheck` |
| `_send_one_tcp`, `_send_one_icmp`, `_fire_one` | `SenderFire` (up to the insertion in `pending`), then `SendOk`, `SendRaises` or `SendFails` |
| `_on_event` | `OnEvent` |
| `_icmp_rx_loop`, `_handle_icmp_reply` | `RxSelect`, `HandleIcmpReply`, `RxExit` |
| `run`, the loop | `MainLoop`, `PollReturns`, `PollInterrupted`, `PollFails`, `Sweep`, `IntervalFlush` |
| `run`, the handler and the finally block | `Signal`, `JoinSender`, `JoinRx`, `FinalSweep`, `FinalFlush`, `CloseSink`, `Exit` |
| network, kernel, clock (external) | `ReplyArrives`, `Tick` |

A row is the probe's number, `ok` and the RTT; a key is a pair of the target
list and the number that comes back in the reply. Time is kept as ages: a
probe's `age` runs from its insertion (and again from its match), and stops
growing where the code no longer tells values apart. `sinceSweep` and
`sinceFlush` are the ages of `last_sweep` and `last_flush`. `heard`,
`reused`, `dropped` and `abandoned` are history variables and guard nothing.

`SinkWrites` and `SinkDrops` are what `PgSink` promises through
`SinkInterface`: rows stored at once, or a call that drops them or raises, after
which they may be stored all the same. Both remain possible after `CloseSink`:
the retry of a thread that was abandoned reconnects. `CloseSink` waits for the
lock psycopg2 keeps on the connection, which a thread in the middle of a
statement holds (`MayHoldConnection`, external).

A key is reused when a cursor comes round while an earlier probe of the same
number is in the map or on the wire. The code then overwrites the entry (line
564), and the earlier probe has no outcome. With 2^32 and 2^16 numbers and one
probe per pair and second this takes years and 18 hours; the entry is gone
after at most 40 seconds. `reused` names the probes concerned and the properties
except them. The runs make a cursor wrap, but have too few probes for a pair
to come round to a key in use; that case is the theorems'.

### ProbeLedger

The daemon without threads, map and buffer, in four actions: a probe is fired
(`Fire`), decided as answered or lost (`Answer`, `Lose`), and handed to the
sink, which stores it or does not (`Hand`). `ImplementsLedger` is the mapping:
`fired <- nSent`, and a probe is answered or lost from the moment a thread has
taken it from the map and holds its row, wherever the row goes from there
(`Answered`, `Lost`: the rows in hands, buffer, batches, table); it is handed
over when the sink has stored or dropped it. So a sweep that takes a probe rx
has in its hands, a batch that is lost between buffer and sink, or a row that
changes on the way is not a step of the ledger.

### PgSink and SinkInterface

`SinkInterface` is the abstract sink: callers begin, rows are stored all at
once or not at all, a call ends as "counted" only when they are stored, as
"dropped" or as "raised". The daemon cannot tell the first two apart: after the
second `OperationalError` `flush` prints that it drops the rows and returns
normally (lines 263-264, `GiveUp`), while any other exception, and one raised
in the except clause, leaves it (`Raise`). A batch is a list of pages of rows
and may hold a row twice, or one that another batch holds too: the daemon itself
reports one loss from the sweep and from the `sendto` handler. `ON CONFLICT DO
NOTHING` stores such a row once and `len(rows)` counts it twice (line 254), so
that `total` counts entries of the lists and not rows of the table. Two
transactions with the same row wait for one another (`Waits`, external).
`PgSink` is `flush` line by line:
`self.conn` is read twice per attempt (`Enter`, `Cursor`), rows go in pages
(`ExecPage`), the `with` block ends in `Commit`, `CommitFails` or `Rollback`,
`total` is read and written (`Load`, `Store`), and the except clause closes,
sleeps and reconnects (`Close`, `Connect`). The environment stops and restarts
the server, fails statements, loses the answer of a commit, and calls
`close()` at any time. `split` records the batches whose cursor turned out to
be on another connection than their `with` block, which takes two threads and
a failure: the one has reconnected between the other's two readings. The
properties except them, and `split` says exactly how far the sink's promise
goes. psycopg2 is external: a closed connection raises
`InterfaceError`, a server that has gone away `OperationalError`, and from
version 2.9 a connection can be entered by one `with` block at a time
(`RejectsReentry`). `KeepsPromise` is the refinement, with
`stored <- db`, `busy <-` the threads that are not idle, and so on.

### XdpPath

A frame is the fields the program reads. `Matches` is the header walk of
`probe_xdp`, with the IPv6 extension headers as a sequence and the offset as a
fold over it; `Catch` and `Let` are the two verdicts; `OnEvent` is the callback.
`IsReply` and `Ordinary` define independently, from the formats of IP, which
frames the program is meant for. The phases are those of `bpf_setup` and
`bpf_teardown`, including the time between the attach and the first reader.

### RunForever

The script is one process that runs a call at a time, with `pc` at its sleeps
and commands; each daemon is a life cycle: `boot`, `bare` (program attached, no
signal handlers yet: `run` attaches before it installs them), `serving`,
`leaving`, `dead`. `Detach` is `ip link set ... xdp off || true` (lines 104 and
195): it may fail, or leave a program attached in generic mode; `stuck` records
that it did. A daemon's own detaching may fail as well, since `bpf_teardown`
does not look at what `bpf_xdp_detach` answers. `overlap` records that the
latest start found a daemon running. `status` and `tail` only read and are left
out.

### Sampling

What `ProbeDaemon` takes as given: `Pairs` is `parse_target` (as a fold over the
parts) and the expansion in `__init__`, `Accepted` the checks of `main`;
`LoopEnds`, `RoundStarts`, `Fire`, `RoundEnds`, `WaitTimesOut`, `WaitIsWoken`
are `_sender_loop` and `_tick`. The clock may move at any point of the loop.
`missed` records that a round has ended after the next deadline, which
re-anchors it; the burst may have been too long, or the wake-up an interval
late. Every behaviour of the timer is one of `ProbeDaemon`'s sender, which may
start a round at any time.

### ImportSamples

Each importer is a record: where it is (`file`, `insert`, `rollback`,
`commit`), the files to come, the lines of the file in hand that are still to
be inserted, its counts and its open transaction. A line is its kind (blank,
bad JSON, bad field, mismatch, bad `rtt_ms`, undecodable, refused by the
server) and its key. `Waits` and `Deadlocked` are PostgreSQL's unique index
seen from two open transactions. `FileError` is the except clause of the loop;
`CommitFails` is the commit, which is outside it.

### PullFromWorkspace

`Copy` is a turn of either loop (for directories, the rsync), `Commit` is
`git add -A` and `git commit`, `GitPush` the push; `CopyFails`, `RsyncFails`
and `Fails` are a command that fails or a kill, `Edit` the workspace. An
item's `stamp` is there because rsync compares times and git does not, so that
a touched directory is a change to the script and none to git. rsync decides
by size and modification time (line 120); an edit that keeps both, which it
would not see, is not modelled: `Edit` always gives a new stamp.

### MC modules

`MCProbeDaemon`, `MCPgSink`, `MCXdpPath`, `MCSampling`, `MCImportSamples` and
`MCPullFromWorkspace` define the values of the constants that a `.cfg` cannot
write (records, sequences, functions). `RunForever` needs none.

### Proof modules

One for each component: `ProbeDaemonProofs`, `PgSinkProofs`, `XdpPathProofs`,
`RunForeverProofs`, `SamplingProofs`, `ImportSamplesProofs` and
`PullFromWorkspaceProofs`. `FoldLemmas` has what those about recursive data
share: what `FoldLeft`, `FoldSeq` and `FlattenSeq` compute.

## 3. The runs

| Run | Specification | Properties | Distinct states |
|---|---|---|---|
| `daemon_mixed` | `Spec` | `TypeOK`, `BufferBound`, `NoContradiction`, `Accounted`, `CleanExit`, `PolledIsKept`, `ImplementsLedger` | 1,493,352 |
| `daemon_live` | `LiveSpec` | `ProbeResolved`, `ShutdownCompletes` | 297,663 |
| `sink` | `FairSpec` | `TypeOK`, `WholeBatches`, `TotalIsHonest`, `FlushReturns`, `KeepsPromise` | 594,200 |
| `xdp_frames` | `Spec` | `TypeOK`, `NoSilentDrop`, `HostTrafficSpared`, `OneRowPerProbe`, `OkWasCaught`, `LeftOnlyWhenFull` | 56,459 |
| `launcher` | `Spec` | `StopLeavesNothing`, `OnlyLatestStays`, `ServingHasItsProgram` | 764 |
| `sampling` | `FairSpec` | `TypeOK`, `ProbesWhatWasAsked`, `NoBackToBack`, `NoDriftUnlessMissed`, `EachPairOncePerRound`, `DurationEnds` | 97,325 |
| `importer` | `FairSpec` | `TypeOK`, `WholeFiles`, `NoFileMissed`, `ReportedIsHonest`, `RunsEnd` | 146,098 |
| `mirror` | `Spec` | `TypeOK`, `DoneMeansPublished`, `PushPublishesAll`, `TornIsRepaired` | 973,336 |

The four runs that are expected to be violated are in section 5.

Bounds, and why they are enough:

* **Daemon.** Two probes (`MaxProbes`): two are the least at which rows of
  different probes meet in one buffer and one batch. `daemon_mixed` has a TCP
  and an ICMP pair, so all three threads work, and two arriving replies
  (`MaxReplies`): a reply and its copy, or the replies of both probes. A batch
  is two rows, so that a row can meet a buffer that is full while its flusher is
  on the way. Timeouts of one tick make every order of timeout, sweep and reply
  possible; larger ones only put more ticks between. Where a time is 0
  (`BatchInterval` in both runs, the time an answered entry is kept and the
  sweep's in `daemon_live`) the flush, the eviction or the sweep may come at
  once or, since main may take any time to get there, later. The TCP cursor
  starts one below its width, so it wraps at the first probe. `daemon_live` has
  ICMP on both families and one reply: the sender's error path and rx both hold
  rows, and one row alone never fills a batch.
* **Sink.** Two threads, three batches, two of them of two pages (so that they
  can be cut in the middle), one row twice in a page and two rows in two batches
  in opposite order, a `close()` at any time, and two faults: one per attempt.
  Two are also what it takes for one thread to replace the connection while the
  other is between its two readings of it and then to fail itself.
* **XDP.** 24 frames around every limit of the walk (8 and 9 extension
  headers, 256 and 264 bytes, one byte short of a TCP header, header lengths of
  4, 5 and 6 words), three arrivals through a ring of two slots, so that it
  fills up, drains and fills again.
* **Launcher.** Three daemons: one that leaves late, one that replaces it, and
  a third started after either of them or after a stop.
* **Sampling.** Every `--target` that can be made of up to three parts (both
  families, two IPv4 addresses, an empty and a bad part), targets named twice,
  one refusal of each kind; intervals of -1, 0, 2 and 3 and rounds up to the
  clock's reading of 7 (`MaxClock`), which leaves room for three rounds, an
  overrun of more than one interval and a late wake-up after it.
* **Importer.** Two importers, three runs (`MaxStarts`), so that a run can
  repeat a run that was cut off while another is in progress; one kill, server
  stop, failed statement or lost commit answer (`MaxFaults`); chunks of two
  rows, so that a file has a full and a partial chunk; two files that share
  keys in opposite order, one with a key twice, one with a bad round trip
  time, one the server refuses, one empty, one with another name.
* **Mirror.** One file and one directory (the two are compared in different
  ways), two bodies, three runs with any options, two faults, two edits: a run
  that leaves work behind, one that finds it, one after.

### Fairness

* `LiveSpec`: weak fairness of main's own steps, of main's row code and of
  `Tick`, nothing else. Main is always running and libbpf's poll returns within
  200 ms (line 971); the locks are held for a few statements; main's own
  statements are assumed to be answered or to break the connection. The sender
  and rx may hang for ever: the joins have timeouts (lines 1000, 1002) and the
  threads are daemon threads. The one step of main that need not come is
  `sink.close()` (line 1021) while another thread is in a statement, because
  psycopg2 makes it wait for that thread (`MainUnhindered`). So
  `ShutdownCompletes` has `SinkReturns` as its hypothesis: no thread stays in
  `sink.flush` for good. Without it TLC shows main waiting in `close()` for ever
  behind a statement that hangs. `ProbeResolved` cannot hold for rows in
  the hands of a thread that hangs and has `RowsMove` as its hypothesis: a
  thread inside the row code goes on. Packets need not be sent and sockets need
  not be read even then.
* `PgSink!FairSpec`: each thread inside `flush` goes on. The server owes
  nothing; it may stay down.
* `Sampling!FairSpec`: the sender is scheduled and time passes. No signal is
  assumed.
* `ImportSamples!FairSpec`: every call of an importer returns, which for an
  `INSERT` that waits on another transaction means that PostgreSQL detects
  deadlocks (`deadlock_timeout`, on by default). The server may stay down.

## 4. What is proved

Every invariant and every action property the passing runs check, and both
refinements, are theorems. They hold for any target list, widths, batch size,
timeouts, ring size, frames, command lines, files, and numbers of probes,
replies, arrivals, batches, daemons, threads of the sink, importers, runs and
faults.

| Theorem | Module | States |
|---|---|---|
| `TypeCorrect` | `ProbeDaemonProofs` | `Spec => []TypeOK` |
| `BufferBounded` | `ProbeDaemonProofs` | `Spec => []BufferBound` |
| `OneOutcome` | `ProbeDaemonProofs` | `Spec => []NoContradiction` |
| `NoneForgotten` | `ProbeDaemonProofs` | `Spec => []Accounted` |
| `DaemonImplementsLedger` | `ProbeDaemonProofs` | `Spec => ImplementsLedger` |
| `ShutdownLosesNothing` | `ProbeDaemonProofs` | `Spec => []CleanExit` |
| `PolledProbesAreAnswered` | `ProbeDaemonProofs` | `Spec => []PolledIsKept` |
| `SinkTypeCorrect` | `PgSinkProofs` | `Spec => []TypeOK` |
| `BatchesAreWhole` | `PgSinkProofs` | `Spec => []WholeBatches`, given `SafeEntry` |
| `TotalCountsStoredRows` | `PgSinkProofs` | `Spec => []TotalIsHonest`, given `SafeEntry` |
| `SinkImplementsInterface` | `PgSinkProofs` | `Spec => KeepsPromise`, given `SafeEntry` |
| `EveryDropHasItsEvent` | `XdpPathProofs` | `Spec => []NoSilentDrop` |
| `RepeatsAddNoRow` | `XdpPathProofs` | `Spec => []OneRowPerProbe` |
| `OkRowsWereCaught` | `XdpPathProofs` | `Spec => []OkWasCaught` |
| `XdpTypeCorrect` | `XdpPathProofs` | `Spec => []TypeOK` |
| `OnlyTailsAreTaken` | `XdpPathProofs` | every dropped frame is a reply or a later IPv4 fragment |
| `HostKeepsItsTraffic` | `XdpPathProofs` | `Spec => []HostTrafficSpared`, given `NoIpv4Tails` |
| `RepliesWaitForRoomOnly` | `XdpPathProofs` | `Spec => LeftOnlyWhenFull` |
| `StopCleansUp` | `RunForeverProofs` | `Spec => []StopLeavesNothing` |
| `LatestOnly` | `RunForeverProofs` | `Spec => []OnlyLatestStays` |
| `ServesWithItsProgram` | `RunForeverProofs` | `Spec => []ServingHasItsProgram` |
| `RoundsAreApart` | `SamplingProofs` | `Spec => []NoBackToBack` |
| `DeadlinesKeepTheGrid` | `SamplingProofs` | `Spec => []NoDriftUnlessMissed` |
| `SamplingTypeCorrect` | `SamplingProofs` | `Spec => []TypeOK` |
| `OneSamplePerRound` | `SamplingProofs` | `Spec => []EachPairOncePerRound` |
| `TargetsAreProbed` | `SamplingProofs` | `Spec => []ProbesWhatWasAsked` |
| `FilesAreWhole` | `ImportSamplesProofs` | `Spec => []WholeFiles` |
| `CountsAddUp` | `ImportSamplesProofs` | `Spec => []ReportedIsHonest` |
| `ImportTypeCorrect` | `ImportSamplesProofs` | `Spec => []TypeOK` |
| `FilesAreGivenOnce` | `ImportSamplesProofs` | what `ExpandFiles` yields |
| `NothingIsMissed` | `ImportSamplesProofs` | `Spec => []NoFileMissed` |
| `MirrorTypeCorrect` | `PullFromWorkspaceProofs` | `Spec => []TypeOK` |
| `GoodRunsPublish` | `PullFromWorkspaceProofs` | `Spec => []DoneMeansPublished` |
| `PushesAreWhole` | `PullFromWorkspaceProofs` | `Spec => []PushPublishesAll` |
| `TornItemsAreRepaired` | `PullFromWorkspaceProofs` | `Spec => []TornIsRepaired` |

### Assumptions

The named assumptions of the modules (`PairsAssumption`, `SeqAssumption`,
`TimingAssumption`, `NoneAssumption`, `BatchesAssumption`, `XdpAssumption`,
`LauncherAssumption`, `SamplingAssumption`, `ImportAssumption`,
`MirrorAssumption`) say what kind of value a constant is. Two of their conjuncts
say more: an IPv4 frame has no IPv6 extension headers; and a later fragment of
an IPv6 datagram has a fragment header, since nothing else makes it one.

Two theorems' hypotheses are conditions under which the code is right, and are
named where they are used:

* `SafeEntry` (`BatchesAreWhole`, `TotalCountsStoredRows`,
  `SinkImplementsInterface`): no two threads are in the `with` block of one
  connection. psycopg2 refuses the second entry from version 2.9 on
  (`RejectsReentry`, the value the runs give it), and a sink with one thread
  needs no refusal. Under an older psycopg2 one thread's commit stores half of
  another's batch.
* `NoIpv4Tails` (`HostKeepsItsTraffic`): no later fragment of an IPv4 datagram
  arrives. The run `xdp_fragment` shows that the property is false otherwise;
  `OnlyTailsAreTaken` needs no hypothesis and says that those fragments are
  the only frames taken by mistake.

### The arguments

* **`TypeInv` = `TypeOK` /\ `InRound`.** The type invariant alone is not
  inductive: `SenderFire` indexes `Pairs` with `idx`, which is in range only
  because `_tick` tested it and because the sender comes back from the row
  code to that test. `InRound` says so, and that a probe has been counted when
  it is being sent, since the loss row of a failed send has the number
  `nSent - 1`.
* **`BufferBound`** is inductive over `TypeInv`. A thread that saw the full
  buffer under the lock stays committed (`pc = "swap"`) in every step but its
  own swap, which empties the buffer; a row that takes the buffer to the batch
  size or beyond commits one more thread.
* **`Ledger`** is the inductive invariant behind `OneOutcome` and
  `NoneForgotten`: it says who may still write a row of a probe. A thread holds
  rows only inside the row code, and a batch only in `sink.flush` (`InHand`), so
  that nothing it holds is overwritten. Entries of `pending` have distinct
  numbers below `nSent` (`Filed`); rows are of probes that were fired, and a
  loss has no round trip time (`Counted`). A probe that waits has no row yet
  (`Unreported`), so the row of the thread that ends its wait is its first.
  The exception is the sender's error handler, which writes its loss row
  whether or not the entry is still there; `Fresh` says that a probe between
  its insertion and its `sendto` cannot have an ok row, because replies are of
  probes that were sent (`OnlySent`), so a row that is there already is the
  same loss. `Reports(R)` is the shape most steps have (the rows `R` are
  written, one for each probe that stops waiting), and `ReportsKeepLedger` does
  the work for all of them; only `SenderFire` and `SendFails` are proved by
  themselves. A probe whose key is used again while in use is outside both
  properties (`reused`), as it is in the runs.
* **`DaemonImplementsLedger`** needs no invariant beyond `TypeInv` and `Ledger`.
  A step that reports leaves the rows that are there, outside `reused`, as they
  are (`NothingTakenBack`), and the probes it reports are open in the ledger
  (`ReportedIsOpen`, from `Unreported`). `Decides(R)`, which the steps that
  reply, sweep and clear up all have, says that `R` is one ok row or only
  losses, so the step is an `Answer` or a `Lose` (`DecisionStep`). The row code
  is a `Hand`, when a batch leaves a thread for the sink, or a stutter
  (`RowStepImplements`); `SenderFire` is a `Fire` that strikes off the probes
  on the key it takes; `SendFails` is a `Lose`, or a stutter where a sweep was
  there first, since `Fresh` makes the two losses the same row.
* **`Shutdown`** (for `ShutdownLosesNothing`) follows the finally block. A
  thread whose join is over has ended or is in `abandoned` (`SenderJoined`,
  `RxJoined`), and neither comes back. So with both joined nothing files a probe
  after the final sweep has cleared the map, and nothing buffers a row after
  main's last swap (`NothingComesLate`). With `Accounted` from `Ledger` the rows
  can then only be with the sink. `Ending` and `Closing` tell the two last
  flushes apart: the one that the rows of the final sweep may trigger and the
  unconditional one after it.
* **`InTime`** (for `PolledProbesAreAnswered`): `PolledIsKept` speaks of rows
  and is not inductive, because what row a probe gets depends on what is on the
  ring. `HeardIsQueued` says it: a TCP probe that still waits although its reply
  came in time has that reply on the ring, and no poll has come back since. A
  poll comes back with the ring drained, so that none that has been heard in
  time waits any longer, and a sweep makes losses only of those that wait.
  `MatchedIsOk` covers the entries kept for their TTL, and `NotHeardYet` the
  sender's error handler, whose probe nothing can have answered.
* **`Core`** of the sink. `Exclusive` (one thread in a `with` block, the only
  place `SafeEntry` is used) and `Origin` (the open transaction of a connection
  has rows of the thread inside it only, but for split batches) make a commit
  store one batch; `Own` (the pages so far are in the transaction or were stored
  before) and `SameConn` make it the whole batch, also when a first attempt was
  stored and its answer lost; `Committed` carries that to the normal return.
  `Apart` keeps two threads off one batch. `Honest`, for `TotalIsHonest`, bounds
  `total` and what any thread has read of it by the number of list entries whose
  rows are stored and that are in no flush under way: the entries a thread is
  about to count are not among them, so that the unlocked `total +=` may lose
  counts but never counts an entry twice. Entries are what is counted because
  batches may share rows; they are apart by their place (`EntriesApart`).
  `SinkImplementsInterface` is the same `Core`, step by step.
* **`XdpInv`** = types, `InOrder` (the dropped frames are, in order, the
  handled events and then the ring), `RowsAnswered` (a row's probe is matched
  and had an event) and `OneRowPerProbe`. `RowsAnswered` is why a new row
  cannot repeat an old one: its probe was not matched.
* **`CaughtInv`** adds that what was dropped matched. That a match is a reply
  (`MatchesAreReplies`) and an ordinary reply a match (`RepliesAreMatched`) are
  facts about the walk alone: the offset `probe_xdp` adds up from the fixed
  header is the sum over the chain (`UpperAtIsSum`, by induction over any number
  of headers), and its two limits, headers and bytes, are those of `Ordinary`.
* **`LauncherInv`** = `TypeOK`, `Cleared` (what a call has established at each
  of its labels: after `pkill` the daemons left are leaving, after `pkill -9`
  there are none), `OnlyLatestStays` and `StopLeavesNothing`. For
  `ServesWithItsProgram` it is joined by `OneDaemon`, which a start with no
  daemon alive establishes and every other step keeps.
* **`TimerInv`** = types, `Fresh` (nothing has started before the loop),
  `OnGrid`, `Between` and `NoBackToBack`. `NoBackToBack` speaks of three starts
  and is not inductive: two rounds may be close together, after a late wake-up.
  `Between` has what is missing: every deadline lies between the two starts
  around it, because a round starts at or after its deadline and the deadline
  after it is either one interval on from the old one or, when that has
  passed, one interval on from now. `OnGrid` counts deadlines against rounds.
* **`Sampled`** = `TypeOK`, `NothingYet`, `Expanded` (the pairs are the expansion
  of accepted arguments) and `Filled`: within a burst the pairs before `idx`
  have the count of this round and the others that of the last one.
  `EachPairOncePerRound` is what is left of it when `idx` has passed the end.
  `TargetsAreProbed` is then about `Pairs` alone: reading a target part by part
  yields the one address named per family or a refusal (`AddressesMean`,
  `ParsesIff`), and the expansion has every probe as often as it was named, each
  TCP probe followed by its ICMP probe (`PairsMean`, `OccurrencesAdd`).
* **`ImportInv`** = `Own` of every importer, `Apart` and `Table`. `Own` ties an
  open transaction to the file it comes from: its keys are not in the table,
  and as long as the connection is alive the keys of the rows passed so far are
  in the transaction or in the table; the counts are the size of the
  transaction. `Apart` is what waiting for another's key achieves: no key is in
  two transactions, so the commit of one (`Committed`) cannot break another's
  `Own`. `Table` has `WholeFiles` and `ReportedIsHonest`, and that the keys of the
  table are apart, which the counting needs.
* **`ThroughInv`**: the files a run is through with and that are not whole in the
  table (`Lost`) are no more than its errors, as long as it has not been
  aborted. A file leaves the list by its commit, after which its keys are in the
  table (from `Own` of `ImportInv`) and stay there, or by `FileError`, which
  counts it. At the summary the list is empty and every file given is one the
  run is through with.
* **`FilesAreGivenOnce`** is about `ExpandFiles` alone, by induction along its
  folds: the loop that leaves out what came before keeps, of the first `k`
  files met, each one once and in the order of its first place (`FirstOnes`).
* **`MirrorInv`** = types, `Copying` (what has been gone through holds what was
  found there, unless an rsync was masked), `Clean` (a run that found nothing
  different so far has the tree that is on the remote, if it began with that),
  `Pushing` (what is about to be pushed is the tree) and the properties
  themselves, which speak of the end of a run and have to outlast the edits
  after it.

Recursive definitions. The induction theorems of the library take an operator as
a parameter and cannot be used. `FoldLemmas` does without them: the natural
numbers are well-founded (`NatLessThanWellFounded`, `WFMin`, whose argument is a
set), so that a set with 0 and every successor is all of an interval (`UpTo`),
and likewise for the subsets of a finite set (`EverySubset`). A fold is a
recursive function, hence a `CHOOSE`: it obeys its equation if some function
does (`FoldExists`), and is then determined (`StepsAgree`). `FoldLeftValues`,
`FoldType`, `FlattenValues` and `FlattenType` are what the components' proofs
cite. Filtering in `ImportSamples` is a `FoldLeft` over `AddMatching` and
`AddUnseen`, as the loops of `expand_files` are, and not `SelectSeq`, whose
definition the prover does not expand.

Only model-checked are the liveness properties (`ProbeResolved`,
`ShutdownCompletes`, `FlushReturns`, `DurationEnds`, `RunsEnd`), which rest on
fairness and ENABLED, and the runs that are expected to be violated.

## 5. Where code and documentation differ

Four runs are expected to be violated. Each checks a sentence of the
repository against what the code does:

* `daemon_window` (`OkWithinWindow`): "mark probe as loss if no SA within this
  window" (line 1061), but a reply after the timeout and before the next sweep
  is ok, because `_on_event` does not look at the deadline.
* `sink_retry` (`LossIsRetried`): "retry once on connection loss" (line 247),
  but `_connect()` in the except clause raises when the server is still down a
  second after the loss, and `flush` ends without its second attempt.
* `xdp_fragment` (`HostTrafficSpared` with a later fragment among the frames):
  the program's header lists what must hold for a drop, but the IPv4 branch
  does not look at the fragment offset, so that payload is read as a TCP
  header.
* `launcher_restart` (`EndsWithExactlyOne`): "so we always end up with exactly
  one" (run_forever.sh:94), but the old daemon has one second to go and its
  joins alone may take four.

Observed while modelling, and visible by changing a `.cfg` or a property:

* The second `with self.conn` of a concurrent flush raises `ProgrammingError`,
  which the retry does not catch: its rows are given up without any fault.
* After a reconnection that failed, `self.conn` is the closed connection. Every
  later flush raises `InterfaceError` at its `with` block, which the retry does
  not catch either, so that nothing reconnects when the server is back.
* After two `OperationalError`s `flush` returns normally although the rows are
  dropped (lines 263-264), and `total` counts a row twice that is in its list
  twice (line 254).
* Without `SinkReturns`, `ShutdownCompletes` is violated: `sink.close()` waits
  behind a statement that hangs in an abandoned thread.
* "exact per-pair sampling period = interval_ms (no drift)" (line 720) holds
  while every round ends before the next deadline. Besides the burst overrun
  line 754 speaks of, a wake-up that is late by an interval re-anchors the
  deadline (lines 752-759) and reports an overrun without a long burst;
  `NoDriftUnlessMissed` excepts both.
* The detaching of the launcher may fail unnoticed (run_forever.sh:195): after
  `stop` a program without a reader may stay, until the next daemon replaces it.
* Without the exception `split`, `WholeBatches` and `KeepsPromise` are violated
  with two threads and two faults: a thread's cursor can be on a connection that
  another thread commits or rolls back.
* With a full ring a reply goes to the hub's TCP stack (`XDP_PASS`,
  `bpf/probe_xdp.bpf.c:203`), the exception `LeftOnlyWhenFull` makes.
* An echo reply that waits in its socket while rx is inside `sink.flush` can be
  swept as a loss, which `PolledIsKept` rules out for the ring only.
* Without the exceptions `behind` and `masked`, `DoneMeansPublished` is
  violated: after a push that failed, the next run finds nothing changed, says
  so and exits with 0 (`pull_from_workspace.sh:141-144`), and the commit stays
  where it is until the next change. A torn rsync is committed and pushed
  (line 120).
* A run of the importer that loses the connection ends with a traceback and no
  summary: `conn.rollback()` raises in the except clause (line 207), and the
  commit is outside the try (line 217).

## 6. What is not modelled, and the plan

Not modelled:

* The `OSError` that ends the rx loop: a thread that ends like that is one that
  hangs, as far as the others can see, and hanging is allowed for.
* The statistics counters: they are printed and nothing depends on them.
* The byte level: the ICMP checksum, the layout of the event record, the bytes
  of a raw socket before `_handle_icmp_reply` has taken identifier and sequence
  number from them. These are computations over headers of fixed shape, with no
  state and no order of events; a model of them would be the code again.
* scapy's and the kernel's routing; `status` and `tail`, which only read.
* The aggregation views, which are queries; dashboards, compose file, Makefile,
  and the one-shot scripts, which have no state of their own.
* Statements that hang for ever in main: outside the fairness assumed.
* What the primary key alone guarantees (one row per key), whoever writes.
* An edit of the mirrored workspace that keeps size and modification time.

Order of the work, most important first; all of it is done:

1. `ProbeDaemon` and its runs; `TypeCorrect`, `BufferBounded`, `OneOutcome`,
   `NoneForgotten`.
2. `SinkInterface`, `PgSink`.
3. `XdpPath` and its theorems.
4. `RunForever` and its theorems.
5. `ProbeLedger`, and `ProbeDaemon` shown to implement it, as a property of
   `daemon_mixed` and as a theorem.
6. `Sampling` and its theorems; `ImportSamples` and its theorems.
7. `PullFromWorkspace`.
8. `ShutdownLosesNothing` and `PolledProbesAreAnswered`.
9. The theorems about `PgSink`, its refinement of `SinkInterface` last.
10. The theorems about `PullFromWorkspace`; `OneSamplePerRound`.
11. `FoldLemmas`, and what rests on it: `HostKeepsItsTraffic`,
    `RepliesWaitForRoomOnly`, `TargetsAreProbed`, `FilesAreGivenOnce`,
    `NothingIsMissed`.

What could follow: a bound on how late a loss may be declared, which needs the
time main can spend in `sink.flush` as a constant.
