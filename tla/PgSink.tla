---------------------------------- MODULE PgSink ----------------------------------
(***************************************************************************)
(* class PgSink of hub_probe/probe_daemon.py: flush() with its retry, and  *)
(* the psycopg2 connection all threads share through self.conn.            *)
(*                                                                         *)
(* self.conn is read twice in an attempt: once by "with self.conn", which  *)
(* also commits or rolls back that connection at the end, and once by      *)
(* self.conn.cursor(), on which the rows are inserted.  psycopg2 and the   *)
(* server are modelled from this use: a connection the client closed or    *)
(* found broken raises InterfaceError, a server that has gone away raises  *)
(* OperationalError, and only the latter is caught.                        *)
(***************************************************************************)
EXTENDS Naturals, Sequences, FiniteSets, Functions

CONSTANTS
  Threads,          (* threads that flush                                   *)
  Batches,          (* what they flush: a list of batches, each a list of   *)
                    (* pages (page_size = 500), each a list of rows, which  *)
                    (* may be in it twice or be in another batch as well    *)
  RejectsReentry,   (* psycopg2 2.9 and later: a connection can be entered  *)
                    (* by one "with" block at a time                        *)
  MayClose,         (* whether sink.close() may be called                   *)
  MaxFaults         (* bound of the model: server and statement failures    *)

Page(b, p) == Range(Batches[b][p])
RowsOf(b)  == UNION {Page(b, p) : p \in DOMAIN Batches[b]}
AllRows    == UNION {RowsOf(b) : b \in DOMAIN Batches}

(* The entries of the list of rows flush is called with, len(rows) of them. *)
Entries(b) ==
  UNION {{<<b, p, i>> : i \in DOMAIN Batches[b][p]} : p \in DOMAIN Batches[b]}
Row(e) == Batches[e[1]][e[2]][e[3]]

ASSUME BatchesAssumption ==
  /\ Batches \in Seq(Seq(Seq(AllRows)))
  /\ \A b \in DOMAIN Batches : Batches[b] # << >>
  /\ RejectsReentry \in BOOLEAN
  /\ MayClose \in BOOLEAN
  /\ MaxFaults \in Nat

VARIABLES
  conns,    (* the connections made so far; open: the client may use it,    *)
            (* alive: the server end exists, entered: inside a with block,  *)
            (* txn: rows inserted and not committed                         *)
  conn,     (* self.conn, an index of conns                                 *)
  up,       (* the server accepts connections                               *)
  db,       (* the committed rows of probe_sample                           *)
  total,    (* self.total                                                   *)
  pc, batch, attempt, page,
  mine,     (* the connection of the thread's with block                    *)
  on,       (* the connection of its cursor                                 *)
  exc,      (* the exception leaving its with block                         *)
  seen,     (* the value of total a thread has read                         *)
  outcome,  (* how its latest flush ended: "counted" and "dropped" are      *)
            (* normal returns, "raised" an exception                        *)
  next,     (* the next batch to be flushed                                 *)
  shut,     (* close() was called                                           *)
  split,    (* history: batches whose cursor is not on the connection of    *)
            (* their with block                                             *)
  faults

vars == <<conns, conn, up, db, total, pc, batch, attempt, page, mine, on, exc,
          seen, outcome, next, shut, split, faults>>
server == <<up, db>>
frame  == <<next, shut, split>>
local  == <<batch, attempt, page, mine, on, exc, seen, outcome>>

NewConn == [open |-> TRUE, alive |-> TRUE, entered |-> FALSE, txn |-> {}]

At(t, label) == pc[t] = label
Goto(t, label) == pc' = [pc EXCEPT ![t] = label]
Put(c, field, value) == conns' = [conns EXCEPT ![c][field] = value]
Fault == faults < MaxFaults /\ faults' = faults + 1

(* Mutant: every exception is caught and the batch counted all the same.   *)
RaiseSwallowed(t) == Goto(t, "load") /\ UNCHANGED outcome
(* An exception other than OperationalError leaves flush; so does one      *)
(* raised inside the except clause.                                        *)
Raise(t) ==
  /\ outcome' = [outcome EXCEPT ![t] = "raised"]
  /\ Goto(t, "idle")

(* After the second OperationalError: flush prints that it drops the rows  *)
(* and returns normally.                                                   *)
GiveUp(t) ==
  /\ outcome' = [outcome EXCEPT ![t] = "dropped"]
  /\ Goto(t, "idle")

Init ==
  /\ conns = <<NewConn>>
  /\ conn = 1
  /\ up = TRUE
  /\ db = {}
  /\ total = 0
  /\ pc = [t \in Threads |-> "idle"]
  /\ batch = [t \in Threads |-> 0]
  /\ attempt = [t \in Threads |-> 0]
  /\ page = [t \in Threads |-> 1]
  /\ mine = [t \in Threads |-> 1]
  /\ on = [t \in Threads |-> 1]
  /\ exc = [t \in Threads |-> "none"]
  /\ seen = [t \in Threads |-> 0]
  /\ outcome = [t \in Threads |-> "none"]
  /\ next = 1
  /\ shut = FALSE
  /\ split = {}
  /\ faults = 0

-----------------------------------------------------------------------------
(* flush(rows): the attempts.                                              *)

Flush(t) ==
  /\ At(t, "idle")
  /\ next <= Len(Batches)
  /\ batch' = [batch EXCEPT ![t] = next]
  /\ next' = next + 1
  /\ attempt' = [attempt EXCEPT ![t] = 0]
  /\ outcome' = [outcome EXCEPT ![t] = "none"]
  /\ Goto(t, "enter")
  /\ UNCHANGED <<conns, conn, server, total, page, mine, on, exc, seen, shut,
                 split, faults>>

CanEnter(c) == conns[c].open /\ ~(RejectsReentry /\ conns[c].entered)

(* with self.conn                                                          *)
Enter(t) ==
  /\ At(t, "enter")
  /\ \/ /\ CanEnter(conn)
        /\ Put(conn, "entered", TRUE)
        /\ mine' = [mine EXCEPT ![t] = conn]
        /\ Goto(t, "cursor")
        /\ UNCHANGED outcome
     \/ /\ ~CanEnter(conn)
        /\ Raise(t)
        /\ UNCHANGED <<conns, mine>>
  /\ UNCHANGED <<conn, server, total, batch, attempt, page, on, exc, seen,
                 frame, faults>>

(* self.conn.cursor()                                                      *)
Cursor(t) ==
  /\ At(t, "cursor")
  /\ on' = [on EXCEPT ![t] = conn]
  /\ page' = [page EXCEPT ![t] = 1]
  /\ split' = IF conn = mine[t] THEN split ELSE split \cup {batch[t]}
  /\ IF conns[conn].open
     THEN Goto(t, "exec") /\ UNCHANGED exc
     ELSE Goto(t, "rollback") /\ exc' = [exc EXCEPT ![t] = "other"]
  /\ UNCHANGED <<conns, conn, server, total, batch, attempt, mine, seen,
                 outcome, next, shut, faults>>

(* Mutant: autocommit, every page a transaction of its own.                *)
InsertAutocommit(c, rows) == db' = db \cup rows /\ UNCHANGED conns
(* ON CONFLICT DO NOTHING: rows that are already stored are skipped.       *)
Insert(c, rows) ==
  Put(c, "txn", conns[c].txn \cup (rows \ db)) /\ UNCHANGED db

(* A row of the page is in another transaction that is still open: the     *)
(* statement waits until that one ends.                                    *)
Waits(t) ==
  /\ At(t, "exec")
  /\ \E c \in DOMAIN conns \ {on[t]} :
       conns[c].txn \cap Page(batch[t], page[t]) # {}

(* One page of execute_values.                                             *)
ExecPage(t) ==
  /\ At(t, "exec")
  /\ conns[on[t]].open /\ conns[on[t]].alive
  /\ ~Waits(t)
  /\ Insert(on[t], Page(batch[t], page[t]))
  /\ page' = [page EXCEPT ![t] = @ + 1]
  /\ IF page[t] = Len(Batches[batch[t]]) THEN Goto(t, "commit") ELSE UNCHANGED pc
  /\ UNCHANGED <<conn, up, total, batch, attempt, mine, on, exc, seen,
                 outcome, frame, faults>>

(* The statement fails: the connection was closed by another thread, the   *)
(* server end has gone, the server refuses or cancels the statement, or    *)
(* takes two that wait to wait for each other (DeadlockDetected, an        *)
(* OperationalError).                                                      *)
ExecFails(t) ==
  LET c == on[t]
  IN  /\ At(t, "exec")
      /\ \/ /\ ~conns[c].open
            /\ exc' = [exc EXCEPT ![t] = "other"]
            /\ UNCHANGED <<conns, faults>>
         \/ /\ conns[c].open /\ ~conns[c].alive
            /\ Put(c, "open", FALSE)
            /\ exc' = [exc EXCEPT ![t] = "operational"]
            /\ UNCHANGED faults
         \/ /\ conns[c].open /\ conns[c].alive
            /\ \E e \in {"other", "operational"} : exc' = [exc EXCEPT ![t] = e]
            /\ Fault
            /\ UNCHANGED conns
         \/ /\ conns[c].open /\ conns[c].alive
            /\ Waits(t) /\ \E s \in Threads \ {t} : Waits(s)
            /\ exc' = [exc EXCEPT ![t] = "operational"]
            /\ UNCHANGED <<conns, faults>>
      /\ Goto(t, "rollback")
      /\ UNCHANGED <<conn, server, total, batch, attempt, page, mine, on, seen,
                     outcome, frame>>

(* __exit__ with an exception.  rollback() on a connection that is no      *)
(* longer open raises InterfaceError, which takes the exception's place;   *)
(* releases that let the first exception through are allowed for.          *)
Rollback(t) ==
  LET c == mine[t]
      handled == exc[t] = "operational"
  IN  /\ At(t, "rollback")
      /\ conns' = [conns EXCEPT ![c].entered = FALSE, ![c].txn = {}]
      /\ \/ handled /\ Goto(t, "close") /\ UNCHANGED outcome
         \/ (~handled \/ ~conns[c].open) /\ Raise(t)
      /\ UNCHANGED <<conn, server, total, batch, attempt, page, mine, on, exc,
                     seen, frame, faults>>

(* __exit__ without one: commit the connection of the with block.          *)
Commit(t) ==
  LET c == mine[t]
  IN  /\ At(t, "commit")
      /\ conns[c].open /\ conns[c].alive
      /\ db' = db \cup conns[c].txn
      /\ conns' = [conns EXCEPT ![c].entered = FALSE, ![c].txn = {}]
      /\ Goto(t, "load")
      /\ UNCHANGED <<conn, up, total, local, frame, faults>>

(* The commit fails: InterfaceError on a closed connection, otherwise      *)
(* OperationalError, after which the rows may be stored or not.            *)
CommitFails(t) ==
  LET c == mine[t]
  IN  /\ At(t, "commit")
      /\ \/ /\ ~conns[c].open
            /\ Raise(t)
            /\ conns' = [conns EXCEPT ![c].entered = FALSE]
            /\ UNCHANGED <<db, faults>>
         \/ /\ conns[c].open /\ ~conns[c].alive
            /\ conns' = [conns EXCEPT ![c].entered = FALSE, ![c].open = FALSE]
            /\ Goto(t, "close")
            /\ UNCHANGED <<db, outcome, faults>>
         \/ /\ conns[c].open /\ conns[c].alive
            /\ Fault
            /\ db' = db \cup conns[c].txn
            /\ conns' = [conns EXCEPT ![c].entered = FALSE, ![c].open = FALSE,
                                      ![c].alive = FALSE, ![c].txn = {}]
            /\ Goto(t, "close")
            /\ UNCHANGED outcome
      /\ UNCHANGED <<conn, up, total, batch, attempt, page, mine, on, exc, seen,
                     frame>>

(* self.total += len(rows) is a read and a write.                          *)
Load(t) ==
  /\ At(t, "load")
  /\ seen' = [seen EXCEPT ![t] = total]
  /\ Goto(t, "store")
  /\ UNCHANGED <<conns, conn, server, total, batch, attempt, page, mine, on,
                 exc, outcome, frame, faults>>

(* Mutant: the rows of every attempt are counted.                          *)
CountPerAttempt(t) == (attempt[t] + 1) * Cardinality(Entries(batch[t]))
(* len(rows): a row that is in the list twice counts twice.                *)
Count(t) == Cardinality(Entries(batch[t]))

Store(t) ==
  /\ At(t, "store")
  /\ total' = seen[t] + Count(t)
  /\ outcome' = [outcome EXCEPT ![t] = "counted"]
  /\ Goto(t, "idle")
  /\ UNCHANGED <<conns, conn, server, batch, attempt, page, mine, on, exc, seen,
                 frame, faults>>

(* The except clause: self.conn.close(), a second's sleep, _connect().     *)
Close(t) ==
  /\ At(t, "close")
  /\ conns' = [conns EXCEPT ![conn].open = FALSE, ![conn].alive = FALSE,
                            ![conn].txn = {}]
  /\ Goto(t, "connect")
  /\ UNCHANGED <<conn, server, total, local, frame, faults>>

TriesForever(t) == TRUE   \* mutant: the attempts are not bounded
TriesLeft(t) == attempt[t] = 0

(* Mutant: _connect() is tried until the server is back.                   *)
KeepsConnecting(t) == UNCHANGED <<outcome, pc>>
(* The exception of a refused _connect() is raised in the except clause.   *)
Refused(t) == Raise(t)

(* _connect() also runs after the last attempt, before the rows are given  *)
(* up, and serves the next flush.                                          *)
Connect(t) ==
  /\ At(t, "connect")
  /\ \/ /\ up
        /\ conns' = Append(conns, NewConn)
        /\ conn' = Len(conns) + 1
        /\ IF TriesLeft(t)
           THEN /\ attempt' = [attempt EXCEPT ![t] = @ + 1]
                /\ Goto(t, "enter")
                /\ UNCHANGED outcome
           ELSE GiveUp(t) /\ UNCHANGED attempt
     \/ /\ ~up
        /\ Refused(t)
        /\ UNCHANGED <<conns, conn, attempt>>
  /\ UNCHANGED <<server, total, batch, page, mine, on, exc, seen, frame, faults>>

Step(t) ==
  Enter(t) \/ Cursor(t) \/ ExecPage(t) \/ ExecFails(t) \/ Rollback(t)
    \/ Commit(t) \/ CommitFails(t) \/ Load(t) \/ Store(t) \/ Close(t)
    \/ Connect(t)

-----------------------------------------------------------------------------
(* close(), called by main at the end whatever the other threads do.       *)
SinkClose ==
  /\ MayClose
  /\ ~shut
  /\ shut' = TRUE
  /\ conns' = [conns EXCEPT ![conn].open = FALSE, ![conn].alive = FALSE,
                            ![conn].txn = {}]
  /\ UNCHANGED <<conn, server, total, pc, local, next, split, faults>>

(* The server stops, and with it the open transactions; it comes back.     *)
ServerDown ==
  /\ up
  /\ Fault
  /\ up' = FALSE
  /\ conns' = [c \in DOMAIN conns |->
                 [conns[c] EXCEPT !.alive = FALSE, !.txn = {}]]
  /\ UNCHANGED <<conn, db, total, pc, local, frame>>

ServerUp ==
  /\ ~up
  /\ up' = TRUE
  /\ UNCHANGED <<conns, conn, db, total, pc, local, frame, faults>>

Quiet ==
  /\ next > Len(Batches)
  /\ \A t \in Threads : At(t, "idle")
  /\ UNCHANGED vars

Next ==
  \/ \E t \in Threads : Flush(t) \/ Step(t)
  \/ SinkClose \/ ServerDown \/ ServerUp \/ Quiet

Spec == Init /\ [][Next]_vars

(* Every call of psycopg2 returns: the server answers or the connection    *)
(* breaks.                                                                 *)
FairSpec == Spec /\ \A t \in Threads : WF_vars(Step(t))

-----------------------------------------------------------------------------
(* self.conn is a connection that was made, and an attempt is the first or *)
(* the second.                                                             *)
TypeOK ==
  /\ conns \in Seq([open : BOOLEAN, alive : BOOLEAN, entered : BOOLEAN,
                    txn : SUBSET AllRows])
  /\ conn \in DOMAIN conns
  /\ up \in BOOLEAN
  /\ db \subseteq AllRows
  /\ total \in Nat
  /\ pc \in [Threads -> {"idle", "enter", "cursor", "exec", "rollback", "commit",
                         "load", "store", "close", "connect"}]
  /\ attempt \in [Threads -> {0, 1}]
  /\ \A t \in Threads : mine[t] \in DOMAIN conns /\ on[t] \in DOMAIN conns
  /\ outcome \in [Threads -> {"none", "counted", "dropped", "raised"}]

(* A batch is stored whole or not at all, pages, retries, restarts and     *)
(* lost answers notwithstanding (one transaction for all its pages): every *)
(* row of the table came with all the rows of a batch.  The exception,     *)
(* here and below: another thread has replaced self.conn between the two   *)
(* readings of it, which takes a failure of its own.                       *)
WholeBatches ==
  \A r \in db : \E b \in DOMAIN Batches :
    r \in RowsOf(b) /\ (b \in split \/ RowsOf(b) \subseteq db)

(* sink_total, which the log reports, counts each entry of the lists flush *)
(* was called with at most once, and only when its row is in the table:    *)
(* neither a retried batch twice nor a failed one.  It is no count of the  *)
(* table's rows: of two entries with one key (a loss the sweep and the     *)
(* sendto handler both report) one is stored and both are counted.         *)
StoredEntries ==
  {e \in UNION {Entries(b) : b \in 1 .. next - 1} : Row(e) \in db}
TotalIsHonest == split = {} => total <= Cardinality(StoredEntries)

(* flush comes back: at most two attempts, however the server behaves.     *)
FlushReturns ==
  \A t \in Threads : (pc[t] # "idle") ~> (pc[t] = "idle")

(* What flush keeps to until a batch is split: it stores all the rows it   *)
(* was given at once or none of them, nothing else, and counts them only   *)
(* when they are stored.  A normal return alone says less: the call may    *)
(* have dropped its rows.                                                  *)
Promise == INSTANCE SinkInterface WITH
  Callers <- Threads,
  Rows    <- AllRows,
  stored  <- db,
  busy    <- {t \in Threads : pc[t] # "idle"},
  request <- [t \in Threads |-> IF batch[t] = 0 THEN {} ELSE RowsOf(batch[t])],
  result  <- outcome
KeepsPromise ==
  Promise!Init /\ [][split' = {} => [Promise!Next]_Promise!sinkVars]_vars

(* "retry once on connection loss" (and the message of the last line, that *)
(* rows are dropped "after retry"): a flush whose attempt has met an       *)
(* OperationalError does not end before its second attempt.                *)
LossIsRetried ==
  [][\A t \in Threads :
       pc[t] \in {"close", "connect"} /\ pc'[t] = "idle" => attempt[t] = 1]_vars

=============================================================================
