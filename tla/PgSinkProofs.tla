------------------------------- MODULE PgSinkProofs -------------------------------
(***************************************************************************)
(* Proofs about PgSink, for every value of its constants: any number of    *)
(* threads, batches, pages and failures.                                   *)
(***************************************************************************)
EXTENDS PgSink, FiniteSetTheorems, SequenceTheorems, TLAPS

Connection == [open : BOOLEAN, alive : BOOLEAN, entered : BOOLEAN,
               txn : SUBSET AllRows]

Labels == {"idle", "enter", "cursor", "exec", "rollback", "commit", "load",
           "store", "close", "connect"}

(***************************************************************************)
(* What TypeOK needs to be inductive: the batches and pages the threads    *)
(* are at are there.                                                       *)
(***************************************************************************)
Ranges ==
  /\ next \in 1 .. Len(Batches) + 1
  /\ batch \in [Threads -> Nat] /\ page \in [Threads -> Nat \ {0}]
  /\ mine \in [Threads -> Nat] /\ on \in [Threads -> Nat]
  /\ seen \in [Threads -> Nat]
  /\ split \subseteq 1 .. next - 1

Place(t) ==
  /\ batch[t] < next
  /\ pc[t] # "idle" => batch[t] > 0
  /\ pc[t] = "exec" => page[t] <= Len(Batches[batch[t]])
  /\ pc[t] = "commit" => page[t] = Len(Batches[batch[t]]) + 1

Local == Ranges /\ \A t \in Threads : Place(t)

TypeInv == TypeOK /\ Local

-----------------------------------------------------------------------------
(* The batches and their pages.                                            *)
LEMMA BatchFacts ==
  /\ Len(Batches) \in Nat /\ DOMAIN Batches = 1 .. Len(Batches)
  /\ \A b \in DOMAIN Batches :
       /\ Len(Batches[b]) \in Nat \ {0}
       /\ DOMAIN Batches[b] = 1 .. Len(Batches[b])
       /\ \A p \in DOMAIN Batches[b] : Page(b, p) \subseteq RowsOf(b)
       /\ RowsOf(b) \subseteq AllRows
       /\ \A r \in RowsOf(b) : \E p \in DOMAIN Batches[b] : r \in Page(b, p)
<1>1. Batches \in Seq(Seq(Seq(AllRows)))
  BY BatchesAssumption
<1>2. Len(Batches) \in Nat /\ DOMAIN Batches = 1 .. Len(Batches)
  BY <1>1, LenProperties
<1>3. ASSUME NEW b \in DOMAIN Batches
      PROVE  /\ Len(Batches[b]) \in Nat \ {0}
             /\ DOMAIN Batches[b] = 1 .. Len(Batches[b])
  <2>1. Batches[b] \in Seq(Seq(AllRows)) /\ Batches[b] # << >>
    BY <1>1, <1>2, ElementOfSeq, BatchesAssumption
  <2>. QED
    BY <2>1, LenProperties, EmptySeq
<1>4. ASSUME NEW b \in DOMAIN Batches
      PROVE  /\ \A p \in DOMAIN Batches[b] : Page(b, p) \subseteq RowsOf(b)
             /\ \A r \in RowsOf(b) : \E p \in DOMAIN Batches[b] : r \in Page(b, p)
             /\ RowsOf(b) \subseteq AllRows
  BY DEF RowsOf, AllRows
<1>. QED
  BY <1>2, <1>3, <1>4

(* A list of rows is finite: what it has entries for, it has finitely many. *)
LEMMA EntriesFinite ==
  ASSUME NEW b \in DOMAIN Batches
  PROVE  IsFiniteSet(Entries(b)) /\ Cardinality(Entries(b)) \in Nat
<1> DEFINE on_page(p) == {<<b, p, i>> : i \in DOMAIN Batches[b][p]}
<1>1. DOMAIN Batches[b] = 1 .. Len(Batches[b]) /\ Len(Batches[b]) \in Nat
  BY BatchFacts
<1>2. ASSUME NEW p \in DOMAIN Batches[b]
      PROVE  IsFiniteSet(on_page(p))
  <2>1. Batches[b] \in Seq(Seq(AllRows))
    BY BatchesAssumption, ElementOfSeq, LenProperties
  <2>2. Batches[b][p] \in Seq(AllRows)
    BY <1>1, <2>1, ElementOfSeq
  <2>3. DOMAIN Batches[b][p] = 1 .. Len(Batches[b][p]) /\ Len(Batches[b][p]) \in Nat
    BY <2>2, LenProperties
  <2>4. IsFiniteSet(DOMAIN Batches[b][p])
    BY <2>3, FS_Interval
  <2> DEFINE f == [i \in DOMAIN Batches[b][p] |-> <<b, p, i>>]
  <2>5. f \in Surjection(DOMAIN Batches[b][p], on_page(p))
    BY DEF Surjection
  <2>. QED
    BY <2>4, <2>5, FS_Surjection
<1>3. IsFiniteSet({on_page(p) : p \in DOMAIN Batches[b]})
  <2>1. IsFiniteSet(DOMAIN Batches[b])
    BY <1>1, FS_Interval
  <2> DEFINE g == [p \in DOMAIN Batches[b] |-> on_page(p)]
  <2>2. g \in Surjection(DOMAIN Batches[b], {on_page(p) : p \in DOMAIN Batches[b]})
    BY DEF Surjection
  <2>. QED
    BY <2>1, <2>2, FS_Surjection
<1>4. IsFiniteSet(UNION {on_page(p) : p \in DOMAIN Batches[b]})
  <2>1. \A T \in {on_page(p) : p \in DOMAIN Batches[b]} : IsFiniteSet(T)
    BY <1>2
  <2> HIDE DEF on_page
  <2>. QED
    BY <1>3, <2>1, FS_UNION
<1>. QED
  BY <1>4, FS_CardinalityType DEF Entries

(* Entries of two batches are two entries, whatever their rows.            *)
LEMMA EntriesApart == \A b, c : b # c => Entries(b) \cap Entries(c) = {}
<1>1. \A b : \A e \in Entries(b) : e[1] = b
  BY DEF Entries
<1>. QED
  BY <1>1

(* The connection c changes: whether it is open, alive and entered, and    *)
(* the rows of its transaction.                                            *)
Becomes(c, open, alive, entered, txn) ==
  /\ conns' \in Seq(Connection) /\ DOMAIN conns' = DOMAIN conns
  /\ \A d \in DOMAIN conns : d # c => conns'[d] = conns[d]
  /\ conns'[c].open <=> open
  /\ conns'[c].alive <=> alive
  /\ conns'[c].entered <=> entered
  /\ conns'[c].txn = txn

(* The connections are connections.                                        *)
LEMMA ConnFacts ==
  ASSUME TypeOK
  PROVE  /\ conns \in Seq(Connection) /\ DOMAIN conns = 1 .. Len(conns)
         /\ Len(conns) \in Nat
         /\ \A c \in DOMAIN conns : conns[c] \in Connection
<1>1. conns \in Seq(Connection) /\ DOMAIN conns = 1 .. Len(conns) /\ Len(conns) \in Nat
  BY LenProperties DEF TypeOK, Connection
<1>. QED
  BY <1>1, ElementOfSeq

(* Writing one element of the list of connections.                         *)
LEMMA Changed ==
  ASSUME TypeOK, NEW c \in DOMAIN conns, NEW new \in Connection,
         conns' = [conns EXCEPT ![c] = new]
  PROVE  Becomes(c, new.open, new.alive, new.entered, new.txn)
<1>1. conns \in Seq(Connection) /\ DOMAIN conns = 1 .. Len(conns)
  BY ConnFacts
<1>2. conns' \in Seq(Connection)
  BY <1>1, ExceptSeq
<1>3. conns'[c] = new /\ \A d \in DOMAIN conns : d # c => conns'[d] = conns[d]
  BY <1>1
<1>4. DOMAIN conns' = DOMAIN conns
  BY <1>1
<1> HIDE DEF Connection
<1>. QED
  BY <1>2, <1>3, <1>4 DEF Becomes

(* What each of the updates in the code does to a connection.              *)
LEMMA Updates ==
  ASSUME TypeOK, NEW c \in DOMAIN conns, NEW rows \in SUBSET AllRows
  PROVE
    /\ Put(c, "entered", TRUE) =>
         Becomes(c, conns[c].open, conns[c].alive, TRUE,
                 conns[c].txn)
    /\ Put(c, "open", FALSE) =>
         Becomes(c, FALSE, conns[c].alive, conns[c].entered,
                 conns[c].txn)
    /\ Put(c, "txn", rows) =>
         Becomes(c, conns[c].open, conns[c].alive, conns[c].entered,
                 rows)
    /\ conns' = [conns EXCEPT ![c].entered = FALSE, ![c].txn = {}] =>
         Becomes(c, conns[c].open, conns[c].alive, FALSE,
                 {})
    /\ conns' = [conns EXCEPT ![c].entered = FALSE] =>
         Becomes(c, conns[c].open, conns[c].alive, FALSE,
                 conns[c].txn)
    /\ conns' = [conns EXCEPT ![c].entered = FALSE, ![c].open = FALSE] =>
         Becomes(c, FALSE, conns[c].alive, FALSE,
                 conns[c].txn)
    /\ conns' = [conns EXCEPT ![c].entered = FALSE, ![c].open = FALSE,
                       ![c].alive = FALSE, ![c].txn = {}] =>
         Becomes(c, FALSE, FALSE, FALSE,
                 {})
    /\ conns' = [conns EXCEPT ![c].open = FALSE, ![c].alive = FALSE,
                       ![c].txn = {}] =>
         Becomes(c, FALSE, FALSE, conns[c].entered,
                 {})
<1>1. conns[c] \in Connection
  BY ConnFacts
<1>2. ASSUME Put(c, "entered", TRUE)
      PROVE  Becomes(c, conns[c].open, conns[c].alive, TRUE,
                     conns[c].txn)
  <2> DEFINE new == [conns[c] EXCEPT !["entered"] = TRUE]
  <2>1. new \in Connection
    BY <1>1 DEF Connection
  <2>2. /\ (new.open <=> conns[c].open) /\ (new.alive <=> conns[c].alive)
        /\ (new.entered <=> TRUE) /\ new.txn = conns[c].txn
    BY <1>1 DEF Connection
  <2>3. conns' = [conns EXCEPT ![c] = new]
    BY <1>2 DEF Put
  <2> HIDE DEF new
  <2>. QED
    BY <2>1, <2>2, <2>3, Changed DEF Becomes
<1>3. ASSUME Put(c, "open", FALSE)
      PROVE  Becomes(c, FALSE, conns[c].alive, conns[c].entered,
                     conns[c].txn)
  <2> DEFINE new == [conns[c] EXCEPT !["open"] = FALSE]
  <2>1. new \in Connection
    BY <1>1 DEF Connection
  <2>2. /\ (new.open <=> FALSE) /\ (new.alive <=> conns[c].alive)
        /\ (new.entered <=> conns[c].entered) /\ new.txn = conns[c].txn
    BY <1>1 DEF Connection
  <2>3. conns' = [conns EXCEPT ![c] = new]
    BY <1>3 DEF Put
  <2> HIDE DEF new
  <2>. QED
    BY <2>1, <2>2, <2>3, Changed DEF Becomes
<1>4. ASSUME Put(c, "txn", rows)
      PROVE  Becomes(c, conns[c].open, conns[c].alive, conns[c].entered,
                     rows)
  <2> DEFINE new == [conns[c] EXCEPT !["txn"] = rows]
  <2>1. new \in Connection
    BY <1>1 DEF Connection
  <2>2. /\ (new.open <=> conns[c].open) /\ (new.alive <=> conns[c].alive)
        /\ (new.entered <=> conns[c].entered) /\ new.txn = rows
    BY <1>1 DEF Connection
  <2>3. conns' = [conns EXCEPT ![c] = new]
    BY <1>4 DEF Put
  <2> HIDE DEF new
  <2>. QED
    BY <2>1, <2>2, <2>3, Changed DEF Becomes
<1>5. ASSUME conns' = [conns EXCEPT ![c].entered = FALSE, ![c].txn = {}]
      PROVE  Becomes(c, conns[c].open, conns[c].alive, FALSE,
                     {})
  <2> DEFINE new == [conns[c] EXCEPT !.entered = FALSE, !.txn = {}]
  <2>1. new \in Connection
    BY <1>1 DEF Connection
  <2>2. /\ (new.open <=> conns[c].open) /\ (new.alive <=> conns[c].alive)
        /\ (new.entered <=> FALSE) /\ new.txn = {}
    BY <1>1 DEF Connection
  <2>3. conns' = [conns EXCEPT ![c] = new]
    BY <1>5
  <2> HIDE DEF new
  <2>. QED
    BY <2>1, <2>2, <2>3, Changed DEF Becomes
<1>6. ASSUME conns' = [conns EXCEPT ![c].entered = FALSE]
      PROVE  Becomes(c, conns[c].open, conns[c].alive, FALSE,
                     conns[c].txn)
  <2> DEFINE new == [conns[c] EXCEPT !.entered = FALSE]
  <2>1. new \in Connection
    BY <1>1 DEF Connection
  <2>2. /\ (new.open <=> conns[c].open) /\ (new.alive <=> conns[c].alive)
        /\ (new.entered <=> FALSE) /\ new.txn = conns[c].txn
    BY <1>1 DEF Connection
  <2>3. conns' = [conns EXCEPT ![c] = new]
    BY <1>6
  <2> HIDE DEF new
  <2>. QED
    BY <2>1, <2>2, <2>3, Changed DEF Becomes
<1>7. ASSUME conns' = [conns EXCEPT ![c].entered = FALSE, ![c].open = FALSE]
      PROVE  Becomes(c, FALSE, conns[c].alive, FALSE,
                     conns[c].txn)
  <2> DEFINE new == [conns[c] EXCEPT !.entered = FALSE, !.open = FALSE]
  <2>1. new \in Connection
    BY <1>1 DEF Connection
  <2>2. /\ (new.open <=> FALSE) /\ (new.alive <=> conns[c].alive)
        /\ (new.entered <=> FALSE) /\ new.txn = conns[c].txn
    BY <1>1 DEF Connection
  <2>3. conns' = [conns EXCEPT ![c] = new]
    BY <1>7
  <2> HIDE DEF new
  <2>. QED
    BY <2>1, <2>2, <2>3, Changed DEF Becomes
<1>8. ASSUME conns' = [conns EXCEPT ![c].entered = FALSE, ![c].open = FALSE,
                                  ![c].alive = FALSE, ![c].txn = {}]
      PROVE  Becomes(c, FALSE, FALSE, FALSE,
                     {})
  <2> DEFINE new == [conns[c] EXCEPT !.entered = FALSE, !.open = FALSE,
                                     !.alive = FALSE, !.txn = {}]
  <2>1. new \in Connection
    BY <1>1 DEF Connection
  <2>2. /\ (new.open <=> FALSE) /\ (new.alive <=> FALSE)
        /\ (new.entered <=> FALSE) /\ new.txn = {}
    BY <1>1 DEF Connection
  <2>3. conns' = [conns EXCEPT ![c] = new]
    BY <1>8
  <2> HIDE DEF new
  <2>. QED
    BY <2>1, <2>2, <2>3, Changed DEF Becomes
<1>9. ASSUME conns' = [conns EXCEPT ![c].open = FALSE, ![c].alive = FALSE,
                                  ![c].txn = {}]
      PROVE  Becomes(c, FALSE, FALSE, conns[c].entered,
                     {})
  <2> DEFINE new == [conns[c] EXCEPT !.open = FALSE, !.alive = FALSE, !.txn = {}]
  <2>1. new \in Connection
    BY <1>1 DEF Connection
  <2>2. /\ (new.open <=> FALSE) /\ (new.alive <=> FALSE)
        /\ (new.entered <=> conns[c].entered) /\ new.txn = {}
    BY <1>1 DEF Connection
  <2>3. conns' = [conns EXCEPT ![c] = new]
    BY <1>9
  <2> HIDE DEF new
  <2>. QED
    BY <2>1, <2>2, <2>3, Changed DEF Becomes
<1>. QED
  BY <1>2, <1>3, <1>4, <1>5, <1>6, <1>7, <1>8, <1>9

(* Where a step leaves the connections is typed; so are their transactions. *)
LEMMA BecomesTyped ==
  ASSUME TypeOK, NEW c \in DOMAIN conns, NEW open, NEW alive, NEW entered, NEW txn,
         Becomes(c, open, alive, entered, txn)
  PROVE  /\ conns' \in Seq([open : BOOLEAN, alive : BOOLEAN, entered : BOOLEAN,
                            txn : SUBSET AllRows])
         /\ DOMAIN conns' = DOMAIN conns
BY DEF Becomes, Connection

(* The rows the transactions hold are rows.                                *)
LEMMA TxnTyped == ASSUME TypeOK PROVE \A c \in DOMAIN conns : conns[c].txn \subseteq AllRows
BY ConnFacts DEF Connection

(* A thread goes to a label, or leaves flush without its rows.             *)
LEMMA Goes ==
  ASSUME TypeOK, NEW t \in Threads
  PROVE  /\ \A label \in Labels :
              Goto(t, label) => /\ pc' \in [Threads -> Labels] /\ pc'[t] = label
                                /\ \A u \in Threads : u # t => pc'[u] = pc[u]
         /\ Raise(t) \/ GiveUp(t) =>
              /\ outcome' \in [Threads -> {"none", "counted", "dropped", "raised"}]
              /\ pc' \in [Threads -> Labels] /\ pc'[t] = "idle"
              /\ \A u \in Threads : u # t => /\ pc'[u] = pc[u]
                                             /\ outcome'[u] = outcome[u]
<1>1. pc \in [Threads -> Labels]
  BY DEF TypeOK, Labels
<1>2. ASSUME NEW label \in Labels, Goto(t, label)
      PROVE  /\ pc' \in [Threads -> Labels] /\ pc'[t] = label
             /\ \A u \in Threads : u # t => pc'[u] = pc[u]
  BY <1>1, <1>2 DEF Goto
<1>3. ASSUME Raise(t) \/ GiveUp(t)
      PROVE  /\ outcome' \in [Threads -> {"none", "counted", "dropped", "raised"}]
             /\ Goto(t, "idle")
             /\ \A u \in Threads : u # t => outcome'[u] = outcome[u]
  BY <1>3 DEF Raise, GiveUp, TypeOK
<1>4. "idle" \in Labels
  BY DEF Labels
<1>. QED
  BY <1>2, <1>3, <1>4

(* The places of the other threads, which a step of t leaves where they are. *)
LEMMA OthersInPlace ==
  ASSUME NEW t, \A u \in Threads : Place(u), next' >= next, next \in Nat, next' \in Nat,
         batch \in [Threads -> Nat],
         \A u \in Threads : u # t => /\ pc'[u] = pc[u] /\ batch'[u] = batch[u]
                                     /\ page'[u] = page[u]
  PROVE  \A u \in Threads : u # t => Place(u)'
<1> SUFFICES ASSUME NEW u \in Threads, u # t PROVE Place(u)'
  OBVIOUS
<1>1. Place(u) /\ pc'[u] = pc[u] /\ batch'[u] = batch[u] /\ page'[u] = page[u]
  OBVIOUS
<1>2. batch[u] \in Nat
  OBVIOUS
<1>. QED
  BY <1>1, <1>2 DEF Place

(* At first no thread is in a flush.                                       *)
LEMMA InitTypeInv == Init => TypeInv
<1> SUFFICES ASSUME Init PROVE TypeInv
  OBVIOUS
<1>1. NewConn \in Connection
  BY DEF NewConn, Connection
<1>2. conns \in Seq(Connection) /\ DOMAIN conns = {1}
  BY <1>1 DEF Init
<1>3. TypeOK
  BY <1>2 DEF Init, TypeOK, Connection
<1>4. Ranges
  BY BatchFacts DEF Init, Ranges
<1>5. \A t \in Threads : Place(t)
  BY DEF Init, Place
<1>. QED
  BY <1>3, <1>4, <1>5 DEF TypeInv, Local

(* The start of a flush.                                                   *)
LEMMA FlushTyped ==
  ASSUME TypeInv, NEW t \in Threads, Flush(t)
  PROVE  /\ TypeInv' /\ next \in DOMAIN Batches /\ next' = next + 1
         /\ batch'[t] = next /\ pc[t] = "idle" /\ pc'[t] = "enter"
         /\ outcome'[t] = "none"
         /\ \A u \in Threads : u # t => /\ batch'[u] = batch[u] /\ pc'[u] = pc[u]
                                        /\ outcome'[u] = outcome[u]
<1>0. TypeOK /\ Ranges /\ \A u \in Threads : Place(u)
  BY DEF TypeInv, Local
<1>1. TypeOK'
  BY <1>0 DEF Flush, Goto, TypeOK, server
<1>2. next \in 1 .. Len(Batches) /\ next' = next + 1
  BY <1>0, BatchFacts DEF Flush, Ranges
<1>3. next' \in 1 .. Len(Batches) + 1 /\ split' \subseteq 1 .. next' - 1
  BY <1>0, <1>2, BatchFacts DEF Flush, Ranges
<1>4. \A u \in Threads : /\ batch'[u] = IF u = t THEN next ELSE batch[u]
                         /\ outcome'[u] = IF u = t THEN "none" ELSE outcome[u]
  BY <1>0 DEF Flush, Ranges, TypeOK
<1>5. batch' \in [Threads -> Nat] /\ UNCHANGED <<page, mine, on, seen>>
  BY <1>0, <1>2 DEF Flush, Ranges
<1>6. pc'[t] = "enter" /\ \A u \in Threads : u # t => pc'[u] = pc[u]
  BY <1>0, Goes DEF Flush, Labels
<1>7. Ranges'
  BY <1>0, <1>3, <1>5 DEF Ranges
<1>8. \A u \in Threads : u # t => Place(u)'
  <2>1. \A u \in Threads : u # t => /\ pc'[u] = pc[u] /\ batch'[u] = batch[u]
                                    /\ page'[u] = page[u]
    BY <1>4, <1>5, <1>6
  <2>2. next \in Nat /\ next' \in Nat /\ next' >= next /\ batch \in [Threads -> Nat]
    BY <1>0, <1>2, BatchFacts DEF Ranges
  <2>. QED
    BY <1>0, <2>1, <2>2, OthersInPlace
<1>9. Place(t)'
  BY <1>2, <1>4, <1>6, BatchFacts DEF Place
<1>10. pc[t] = "idle" /\ next \in DOMAIN Batches
  BY <1>2, BatchFacts DEF Flush, At
<1>. QED
  BY <1>1, <1>2, <1>4, <1>6, <1>7, <1>8, <1>9, <1>10 DEF TypeInv, Local

(* A step of t that goes to none of the two labels where pages count.      *)
LEMMA PlacesKept ==
  ASSUME TypeInv, NEW t \in Threads, pc[t] # "idle", Ranges',
         UNCHANGED <<next, batch, page>>,
         pc'[t] \notin {"exec", "commit"}, \A u \in Threads : u # t => pc'[u] = pc[u]
  PROVE  Local'
<1>1. Ranges /\ \A u \in Threads : Place(u)
  BY DEF TypeInv, Local
<1>2. next \in Nat /\ batch \in [Threads -> Nat] /\ page \in [Threads -> Nat \ {0}]
  BY <1>1, BatchFacts DEF Ranges
<1>3. \A u \in Threads : u # t => Place(u)'
  BY <1>1, <1>2, OthersInPlace
<1>4. Place(t)'
  BY <1>1 DEF Place
<1>. QED
  BY <1>3, <1>4 DEF Local

(* Entering the with block.                                                *)
LEMMA EnterTyped == ASSUME TypeInv, NEW t \in Threads, Enter(t) PROVE TypeInv'
<1>0. TypeOK /\ Ranges /\ conn \in DOMAIN conns /\ conn \in Nat
  BY ConnFacts DEF TypeInv, TypeOK, Local
<1>1. /\ pc' \in [Threads -> Labels] /\ pc'[t] \in {"cursor", "idle"}
      /\ \A u \in Threads : u # t => pc'[u] = pc[u]
      /\ outcome' \in [Threads -> {"none", "counted", "dropped", "raised"}]
  BY <1>0, Goes DEF Enter, Labels, TypeOK
<1>2. mine' \in [Threads -> Nat] /\ \A u \in Threads : mine'[u] \in DOMAIN conns
  BY <1>0 DEF Enter, Ranges, TypeOK
<1>3. /\ conns' \in Seq([open : BOOLEAN, alive : BOOLEAN, entered : BOOLEAN,
                         txn : SUBSET AllRows])
      /\ DOMAIN conns' = DOMAIN conns
  <2>1. CASE Put(conn, "entered", TRUE)
    BY <1>0, <2>1, Updates, BecomesTyped
  <2>2. CASE UNCHANGED conns
    BY <1>0, <2>2 DEF TypeOK
  <2>. QED
    BY <2>1, <2>2 DEF Enter
<1>4. TypeOK'
  BY <1>0, <1>1, <1>2, <1>3 DEF Enter, TypeOK, server, Labels
<1>5. Ranges'
  BY <1>0, <1>2 DEF Enter, Ranges, frame
<1>6. Local'
  BY <1>1, <1>5, PlacesKept DEF Enter, At, frame
<1>. QED
  BY <1>4, <1>6 DEF TypeInv

(* The batch and the pages of a thread that is in a flush.                 *)
LEMMA InFlush ==
  ASSUME TypeInv, NEW t \in Threads, pc[t] # "idle"
  PROVE  batch[t] \in 1 .. next - 1 /\ batch[t] \in DOMAIN Batches
<1>1. next \in 1 .. Len(Batches) + 1 /\ batch[t] \in Nat /\ Place(t)
  BY DEF TypeInv, Local, Ranges
<1>. QED
  BY <1>1, BatchFacts DEF Place

(* Taking the cursor.                                                      *)
LEMMA CursorTyped == ASSUME TypeInv, NEW t \in Threads, Cursor(t) PROVE TypeInv'
<1>0. TypeOK /\ Ranges /\ conn \in DOMAIN conns /\ conn \in Nat /\ pc[t] = "cursor"
  BY ConnFacts DEF TypeInv, TypeOK, Local, Cursor, At
<1>1. /\ pc' \in [Threads -> Labels] /\ pc'[t] \in {"exec", "rollback"}
      /\ \A u \in Threads : u # t => pc'[u] = pc[u]
  BY <1>0, Goes DEF Cursor, Labels
<1>2. on' \in [Threads -> Nat] /\ \A u \in Threads : on'[u] \in DOMAIN conns
  BY <1>0 DEF Cursor, Ranges, TypeOK
<1>3. /\ page' \in [Threads -> Nat \ {0}] /\ page'[t] = 1
      /\ \A u \in Threads : u # t => page'[u] = page[u]
  BY <1>0 DEF Cursor, Ranges
<1>4. batch[t] \in 1 .. next - 1 /\ batch[t] \in DOMAIN Batches
  BY <1>0, InFlush
<1>5. TypeOK'
  BY <1>0, <1>1, <1>2 DEF Cursor, TypeOK, server, Labels
<1>6. Ranges'
  BY <1>0, <1>2, <1>3, <1>4 DEF Cursor, Ranges
<1>7. next \in Nat /\ batch \in [Threads -> Nat] /\ UNCHANGED <<next, batch>>
  BY <1>0, BatchFacts DEF Ranges, Cursor
<1>8. \A u \in Threads : u # t => Place(u)'
  BY <1>1, <1>3, <1>7, OthersInPlace DEF TypeInv, Local
<1>9. Place(t)'
  <2>1. Len(Batches[batch[t]]) \in Nat \ {0}
    BY <1>4, BatchFacts
  <2>2. batch[t] < next /\ batch[t] > 0
    BY <1>4, <1>7
  <2>. QED
    BY <1>1, <1>3, <1>7, <2>1, <2>2 DEF Place
<1>. QED
  BY <1>5, <1>6, <1>8, <1>9 DEF TypeInv, Local

(* A page is inserted.                                                     *)
LEMMA ExecPageTyped ==
  ASSUME TypeInv, NEW t \in Threads, ExecPage(t)
  PROVE  /\ TypeInv'
         /\ batch[t] \in 1 .. next - 1 /\ batch[t] \in DOMAIN Batches
         /\ page[t] \in DOMAIN Batches[batch[t]]
         /\ page'[t] = page[t] + 1 /\ \A u \in Threads : u # t => page'[u] = page[u]
         /\ pc[t] = "exec" /\ pc'[t] \in {"exec", "commit"}
         /\ \A u \in Threads : u # t => pc'[u] = pc[u]
         /\ Becomes(on[t], conns[on[t]].open, conns[on[t]].alive,
                    conns[on[t]].entered,
                    conns[on[t]].txn \cup (Page(batch[t], page[t]) \ db))
<1>0. TypeOK /\ Ranges /\ Place(t) /\ on[t] \in DOMAIN conns /\ pc[t] = "exec"
  BY DEF TypeInv, TypeOK, Local, ExecPage, At
<1>1. batch[t] \in 1 .. next - 1 /\ batch[t] \in DOMAIN Batches
  BY <1>0, InFlush
<1>2. page[t] \in DOMAIN Batches[batch[t]] /\ Len(Batches[batch[t]]) \in Nat
  BY <1>0, <1>1, BatchFacts DEF Place, Ranges
<1>3. Becomes(on[t], conns[on[t]].open, conns[on[t]].alive, conns[on[t]].entered,
              conns[on[t]].txn \cup (Page(batch[t], page[t]) \ db))
  <2>1. conns[on[t]].txn \cup (Page(batch[t], page[t]) \ db) \in SUBSET AllRows
    BY <1>0, <1>1, <1>2, BatchFacts, TxnTyped
  <2>2. Put(on[t], "txn", conns[on[t]].txn \cup (Page(batch[t], page[t]) \ db))
    BY DEF ExecPage, Insert
  <2>. QED
    BY <1>0, <2>1, <2>2, Updates
<1>4. /\ conns' \in Seq([open : BOOLEAN, alive : BOOLEAN, entered : BOOLEAN,
                         txn : SUBSET AllRows])
      /\ DOMAIN conns' = DOMAIN conns
  BY <1>0, <1>3, BecomesTyped
<1>5. /\ pc' \in [Threads -> Labels]
      /\ pc'[t] = IF page[t] = Len(Batches[batch[t]]) THEN "commit" ELSE "exec"
      /\ \A u \in Threads : u # t => pc'[u] = pc[u]
  <2>1. pc \in [Threads -> Labels] /\ "commit" \in Labels
    BY <1>0 DEF TypeOK, Labels
  <2>. QED
    BY <1>0, <2>1, Goes DEF ExecPage
<1>6. /\ page' \in [Threads -> Nat \ {0}] /\ page'[t] = page[t] + 1
      /\ \A u \in Threads : u # t => page'[u] = page[u]
  BY <1>0 DEF ExecPage, Ranges
<1>7. TypeOK'
  BY <1>0, <1>4, <1>5 DEF ExecPage, TypeOK, Labels, Insert
<1>8. next \in Nat /\ batch \in [Threads -> Nat] /\ UNCHANGED <<next, batch>>
  BY <1>0, BatchFacts DEF Ranges, ExecPage, frame
<1>9. Ranges'
  BY <1>0, <1>6 DEF ExecPage, Ranges, frame
<1>10. \A u \in Threads : u # t => Place(u)'
  <2>1. /\ next' >= next /\ next' \in Nat /\ \A u \in Threads : Place(u)
        /\ \A u \in Threads : u # t => /\ pc'[u] = pc[u] /\ batch'[u] = batch[u]
                                       /\ page'[u] = page[u]
    BY <1>5, <1>6, <1>8 DEF TypeInv, Local
  <2>. QED
    BY <1>8, <2>1, OthersInPlace
<1>11. Place(t)'
  <2>1. page[t] \in 1 .. Len(Batches[batch[t]])
    BY <1>1, <1>2, BatchFacts
  <2>2. batch[t] < next /\ batch[t] > 0
    BY <1>1, <1>8
  <2>. QED
    BY <1>2, <1>5, <1>6, <1>8, <2>1, <2>2 DEF Place
<1>. QED
  BY <1>0, <1>1, <1>2, <1>3, <1>5, <1>6, <1>7, <1>9, <1>10, <1>11
     DEF TypeInv, Local

(* The steps that leave an attempt, but for Load and Connect: no batch and *)
(* no page changes, and the connections are only written to.               *)
LEMMA LeaveTyped ==
  ASSUME TypeInv, NEW t \in Threads,
         ExecFails(t) \/ Rollback(t) \/ Commit(t) \/ CommitFails(t) \/ Close(t)
  PROVE  TypeInv'
<1>0. /\ TypeOK /\ Ranges /\ conn \in DOMAIN conns /\ on[t] \in DOMAIN conns
      /\ mine[t] \in DOMAIN conns /\ {} \in SUBSET AllRows
  BY DEF TypeInv, TypeOK, Local
<1>1. pc[t] # "idle"
  BY DEF ExecFails, Rollback, Commit, CommitFails, Close, At
<1>2. /\ pc' \in [Threads -> Labels] /\ pc'[t] \notin {"exec", "commit"}
      /\ \A u \in Threads : u # t => pc'[u] = pc[u]
      /\ outcome' \in [Threads -> {"none", "counted", "dropped", "raised"}]
  <2>1. outcome \in [Threads -> {"none", "counted", "dropped", "raised"}]
    BY <1>0 DEF TypeOK
  <2>2. \/ \E label \in {"rollback", "close", "load", "connect"} :
             Goto(t, label) /\ UNCHANGED outcome
        \/ Raise(t)
    BY DEF ExecFails, Rollback, Commit, CommitFails, Close, local
  <2>. QED
    BY <1>0, <2>1, <2>2, Goes DEF Labels
<1>3. /\ conns' \in Seq([open : BOOLEAN, alive : BOOLEAN, entered : BOOLEAN,
                         txn : SUBSET AllRows])
      /\ DOMAIN conns' = DOMAIN conns
  <2>1. \/ UNCHANGED conns
        \/ \E c \in DOMAIN conns :
             \/ Put(c, "open", FALSE)
             \/ conns' = [conns EXCEPT ![c].entered = FALSE, ![c].txn = {}]
             \/ conns' = [conns EXCEPT ![c].entered = FALSE]
             \/ conns' = [conns EXCEPT ![c].entered = FALSE, ![c].open = FALSE]
             \/ conns' = [conns EXCEPT ![c].entered = FALSE, ![c].open = FALSE,
                                       ![c].alive = FALSE, ![c].txn = {}]
             \/ conns' = [conns EXCEPT ![c].open = FALSE, ![c].alive = FALSE,
                                       ![c].txn = {}]
    BY <1>0 DEF ExecFails, Rollback, Commit, CommitFails, Close
  <2>2. CASE UNCHANGED conns
    BY <1>0, <2>2 DEF TypeOK
  <2>3. ASSUME NEW c \in DOMAIN conns, NEW open, NEW alive, NEW entered, NEW txn,
               Becomes(c, open, alive, entered, txn)
        PROVE  /\ conns' \in Seq([open : BOOLEAN, alive : BOOLEAN, entered : BOOLEAN,
                                  txn : SUBSET AllRows])
               /\ DOMAIN conns' = DOMAIN conns
    BY <1>0, <2>3, BecomesTyped
  <2>. QED
    BY <1>0, <2>1, <2>2, <2>3, Updates
<1>4. db' \subseteq AllRows
  BY <1>0, TxnTyped DEF ExecFails, Rollback, Commit, CommitFails, Close, TypeOK, server
<1>5. UNCHANGED <<conn, up, total, attempt, mine, on, next, batch, page, seen, split>>
  BY DEF ExecFails, Rollback, Commit, CommitFails, Close, server, local, frame
<1>6. TypeOK'
  BY <1>0, <1>2, <1>3, <1>4, <1>5 DEF TypeOK, Labels
<1>7. Local'
  BY <1>0, <1>1, <1>2, <1>5, PlacesKept DEF Ranges
<1>. QED
  BY <1>6, <1>7 DEF TypeInv

(* The read and the write of total.                                        *)
LEMMA CountTyped ==
  ASSUME TypeInv, NEW t \in Threads, Load(t) \/ Store(t) PROVE TypeInv'
<1>0. TypeOK /\ Ranges
  BY DEF TypeInv, Local
<1>1. /\ pc' \in [Threads -> Labels] /\ pc'[t] \in {"store", "idle"}
      /\ \A u \in Threads : u # t => pc'[u] = pc[u]
      /\ pc[t] # "idle"
  BY <1>0, Goes DEF Load, Store, Labels, At
<1>2. seen' \in [Threads -> Nat] /\ total' \in Nat
      /\ outcome' \in [Threads -> {"none", "counted", "dropped", "raised"}]
  <2>1. CASE Load(t)
    BY <1>0, <2>1 DEF Load, Ranges, TypeOK
  <2>2. CASE Store(t)
    <3>1. batch[t] \in DOMAIN Batches
      BY <1>1, InFlush
    <3>2. Count(t) \in Nat
      BY <3>1, EntriesFinite DEF Count
    <3>. QED
      BY <1>0, <2>2, <3>2 DEF Store, Ranges, TypeOK
  <2>. QED
    BY <2>1, <2>2
<1>3. TypeOK'
  BY <1>0, <1>1, <1>2 DEF Load, Store, TypeOK, server, Labels
<1>4. Ranges'
  BY <1>0, <1>2 DEF Load, Store, Ranges, frame
<1>5. Local'
  BY <1>1, <1>4, PlacesKept DEF Load, Store, frame
<1>. QED
  BY <1>3, <1>5 DEF TypeInv

(* A new connection: the ones there are stay.                              *)
LEMMA Appended ==
  ASSUME TypeOK, conns' = Append(conns, NewConn)
  PROVE  /\ conns' \in Seq([open : BOOLEAN, alive : BOOLEAN, entered : BOOLEAN,
                            txn : SUBSET AllRows])
         /\ DOMAIN conns' = 1 .. Len(conns) + 1 /\ DOMAIN conns \subseteq DOMAIN conns'
         /\ \A c \in DOMAIN conns : conns'[c] = conns[c]
         /\ \A c \in DOMAIN conns' : c \notin DOMAIN conns => conns'[c] = NewConn
<1>1. NewConn \in Connection
  BY DEF NewConn, Connection
<1>2. conns \in Seq(Connection) /\ DOMAIN conns = 1 .. Len(conns) /\ Len(conns) \in Nat
  BY ConnFacts
<1> HIDE DEF NewConn
<1>3. /\ conns' \in Seq(Connection) /\ Len(conns') = Len(conns) + 1
      /\ \A i \in 1 .. Len(conns) : conns'[i] = conns[i]
      /\ conns'[Len(conns) + 1] = NewConn
  BY <1>1, <1>2, AppendProperties
<1>4. DOMAIN conns' = 1 .. Len(conns) + 1
  BY <1>3, LenProperties
<1>. QED
  BY <1>2, <1>3, <1>4 DEF Connection

(* The except clause reconnects; the types, and where each thread stands,  *)
(* remain.                                                                 *)
LEMMA ConnectTyped == ASSUME TypeInv, NEW t \in Threads, Connect(t) PROVE TypeInv'
<1>0. TypeOK /\ Ranges
  BY DEF TypeInv, Local
<1>1. /\ pc' \in [Threads -> Labels] /\ pc'[t] \in {"enter", "idle"}
      /\ \A u \in Threads : u # t => pc'[u] = pc[u]
      /\ pc[t] # "idle"
      /\ outcome' \in [Threads -> {"none", "counted", "dropped", "raised"}]
  BY <1>0, Goes DEF Connect, Refused, Labels, At, TypeOK
<1>2. attempt' \in [Threads -> {0, 1}]
  <2>1. attempt \in [Threads -> {0, 1}]
    BY <1>0 DEF TypeOK
  <2>2. \/ attempt[t] = 0 /\ attempt' = [attempt EXCEPT ![t] = attempt[t] + 1]
        \/ UNCHANGED attempt
    BY DEF Connect, TriesLeft
  <2>. QED
    BY <2>1, <2>2
<1>3. /\ conns' \in Seq([open : BOOLEAN, alive : BOOLEAN, entered : BOOLEAN,
                         txn : SUBSET AllRows])
      /\ conn' \in DOMAIN conns' /\ DOMAIN conns \subseteq DOMAIN conns'
  <2>1. CASE conns' = Append(conns, NewConn) /\ conn' = Len(conns) + 1
    BY <1>0, <2>1, Appended, ConnFacts
  <2>2. CASE UNCHANGED <<conns, conn>>
    BY <1>0, <2>2 DEF TypeOK
  <2>. QED
    BY <2>1, <2>2 DEF Connect
<1>4. TypeOK'
  BY <1>0, <1>1, <1>2, <1>3 DEF Connect, TypeOK, server, Labels
<1>5. Ranges'
  BY <1>0 DEF Connect, Ranges, frame
<1>6. Local'
  BY <1>1, <1>5, PlacesKept DEF Connect, frame
<1>. QED
  BY <1>4, <1>6 DEF TypeInv

(* What the server's going away does to the connections.                   *)
LEMMA AllDown ==
  ASSUME TypeOK, ServerDown
  PROVE  /\ conns' \in Seq([open : BOOLEAN, alive : BOOLEAN, entered : BOOLEAN,
                            txn : SUBSET AllRows])
         /\ DOMAIN conns' = DOMAIN conns
         /\ \A c \in DOMAIN conns :
              /\ conns'[c].open <=> conns[c].open
              /\ ~conns'[c].alive /\ conns'[c].txn = {}
              /\ conns'[c].entered <=> conns[c].entered
<1>1. /\ conns \in Seq(Connection) /\ DOMAIN conns = 1 .. Len(conns)
      /\ Len(conns) \in Nat /\ \A c \in DOMAIN conns : conns[c] \in Connection
  BY ConnFacts
<1>2. ASSUME NEW c \in DOMAIN conns
      PROVE  /\ [conns[c] EXCEPT !.alive = FALSE, !.txn = {}] \in Connection
             /\ [conns[c] EXCEPT !.alive = FALSE, !.txn = {}].open <=> conns[c].open
             /\ ~[conns[c] EXCEPT !.alive = FALSE, !.txn = {}].alive
             /\ [conns[c] EXCEPT !.alive = FALSE, !.txn = {}].txn = {}
             /\ [conns[c] EXCEPT !.alive = FALSE, !.txn = {}].entered <=> conns[c].entered
  BY <1>1 DEF Connection
<1>3. /\ conns' \in [1 .. Len(conns) -> Connection]
      /\ \A c \in DOMAIN conns :
           conns'[c] = [conns[c] EXCEPT !.alive = FALSE, !.txn = {}]
  BY <1>1, <1>2 DEF ServerDown
<1>4. conns' \in Seq(Connection) /\ DOMAIN conns' = DOMAIN conns
  <2>1. \A S : Seq(S) = UNION {[1 .. n -> S] : n \in Nat}
    BY SeqDef
  <2> HIDE DEF Connection
  <2>2. conns' \in Seq(Connection)
    BY <1>1, <1>3, <2>1
  <2>. QED
    BY <1>1, <1>3, <2>2
<1>. QED
  BY <1>2, <1>3, <1>4 DEF Connection

(* What is not a step of flush: no thread moves.                           *)
LEMMA EnvironmentTyped ==
  ASSUME TypeInv, SinkClose \/ ServerDown \/ ServerUp \/ UNCHANGED vars
  PROVE  TypeInv'
<1>0. TypeOK /\ Ranges /\ conn \in DOMAIN conns /\ {} \in SUBSET AllRows
  BY DEF TypeInv, Local, TypeOK
<1>1. UNCHANGED <<conn, db, total, pc, batch, attempt, page, mine, on, seen, outcome,
                  next, split>>
  BY DEF SinkClose, ServerDown, ServerUp, vars, local, frame, server
<1>2. /\ conns' \in Seq([open : BOOLEAN, alive : BOOLEAN, entered : BOOLEAN,
                         txn : SUBSET AllRows])
      /\ DOMAIN conns' = DOMAIN conns
  <2>1. CASE SinkClose
    <3>1. Becomes(conn, FALSE, FALSE, conns[conn].entered, {})
      BY <1>0, <2>1, Updates DEF SinkClose
    <3>. QED
      BY <1>0, <3>1, BecomesTyped
  <2>2. CASE ServerDown
    BY <1>0, <2>2, AllDown
  <2>3. CASE UNCHANGED conns
    BY <1>0, <2>3 DEF TypeOK
  <2>. QED
    BY <2>1, <2>2, <2>3 DEF ServerUp, vars
<1>3. up' \in BOOLEAN
  BY <1>0 DEF SinkClose, ServerDown, ServerUp, vars, server, TypeOK
<1>4. TypeOK'
  BY <1>0, <1>1, <1>2, <1>3 DEF TypeOK
<1>5. Ranges' /\ \A t \in Threads : Place(t)'
  BY <1>1 DEF TypeInv, Local, Ranges, Place
<1>. QED
  BY <1>4, <1>5 DEF TypeInv, Local

(* Every step of the sink keeps it typed.                                  *)
LEMMA TypeStep == TypeInv /\ [Next]_vars => TypeInv'
<1> SUFFICES ASSUME TypeInv, [Next]_vars PROVE TypeInv'
  OBVIOUS
<1>1. CASE \E t \in Threads : Flush(t) \/ Step(t)
  <2>1. PICK t \in Threads : Flush(t) \/ Step(t)
    BY <1>1
  <2>. QED
    BY <2>1, FlushTyped, EnterTyped, CursorTyped, ExecPageTyped, LeaveTyped,
       CountTyped, ConnectTyped DEF Step
<1>2. CASE SinkClose \/ ServerDown \/ ServerUp \/ UNCHANGED vars
  BY <1>2, EnvironmentTyped
<1>. QED
  BY <1>1, <1>2 DEF Next, Quiet

(***************************************************************************)
(* self.conn is a connection that was made, whoever replaced it, and a     *)
(* flush makes its first or its second attempt.                            *)
(***************************************************************************)
THEOREM SinkTypeCorrect == Spec => []TypeOK
<1>1. TypeInv => TypeOK
  BY DEF TypeInv
<1>. QED
  BY <1>1, InitTypeInv, TypeStep, PTL DEF Spec

-----------------------------------------------------------------------------
(***************************************************************************)
(* The inductive invariant of the sink's safety.  It holds when no two     *)
(* threads can be in the same with block: psycopg2 refuses the second, or  *)
(* there is no second thread.  Where both fail, one thread's commit is     *)
(* another's, and the properties are false.                                *)
(***************************************************************************)
SafeEntry == RejectsReentry \/ \A s, t \in Threads : s = t

Inside(t)  == pc[t] \in {"cursor", "exec", "rollback", "commit"}
Working(t) == pc[t] \in {"exec", "rollback", "commit"}

(* What has been closed is gone, and with it its transaction.              *)
DeadIsEmpty ==
  \A c \in DOMAIN conns :
    /\ ~conns[c].open => ~conns[c].alive
    /\ ~conns[c].alive => conns[c].txn = {}

(* One thread in a with block.                                             *)
Exclusive ==
  \A t \in Threads : Inside(t) =>
    /\ conns[mine[t]].entered
    /\ \A s \in Threads : Inside(s) /\ mine[s] = mine[t] => s = t

(* A batch is flushed by one thread.                                       *)
Apart == \A s, t \in Threads : s # t /\ batch[s] = batch[t] => batch[s] = 0

(* What a connection's transaction holds was put there by the thread in    *)
(* its with block, unless the batch was split.                             *)
Origin ==
  \A c \in DOMAIN conns : \A r \in conns[c].txn :
    \E b \in 1 .. next - 1 :
      /\ r \in RowsOf(b)
      /\ b \in split \/ \E t \in Threads : Working(t) /\ mine[t] = c /\ batch[t] = b

SameConn ==
  \A t \in Threads :
    pc[t] \in {"exec", "commit"} /\ batch[t] \notin split => on[t] = mine[t]

(* The pages that were inserted are in the transaction or were stored      *)
(* before.                                                                 *)
PagesSoFar(t) == UNION {Page(batch[t], p) : p \in 1 .. page[t] - 1}
Own ==
  \A t \in Threads :
    pc[t] \in {"exec", "commit"} /\ batch[t] \notin split /\ conns[mine[t]].alive
      => PagesSoFar(t) \subseteq db \cup conns[mine[t]].txn

Committed ==
  \A t \in Threads :
    pc[t] \in {"load", "store"} /\ batch[t] \notin split => RowsOf(batch[t]) \subseteq db

Core ==
  /\ DeadIsEmpty /\ Exclusive /\ Apart /\ Origin /\ SameConn /\ Own
  /\ Committed /\ WholeBatches

(* At first there is nothing to keep apart.                                *)
LEMMA InitCore == Init => Core
<1> SUFFICES ASSUME Init PROVE Core
  OBVIOUS
<1>1. /\ \A t \in Threads : pc[t] = "idle" /\ batch[t] = 0
      /\ DOMAIN conns = {1} /\ conns[1] = NewConn /\ db = {}
  BY DEF Init
<1>2. DeadIsEmpty /\ Exclusive /\ Apart /\ Origin
  BY <1>1 DEF DeadIsEmpty, Exclusive, Apart, Origin, Inside, NewConn
<1>3. SameConn /\ Own /\ Committed /\ WholeBatches
  BY <1>1 DEF SameConn, Own, Committed, WholeBatches
<1>. QED
  BY <1>2, <1>3 DEF Core

(***************************************************************************)
(* Most steps take on nothing: they leave an attempt, lose connections and *)
(* transactions, or make a new connection.                                 *)
(***************************************************************************)
Fades(t) ==
  /\ DOMAIN conns \subseteq DOMAIN conns'
  /\ \A c \in DOMAIN conns :
       /\ conns'[c].txn = conns[c].txn \/ conns'[c].txn = {}
       /\ conns'[c].alive => conns[c].alive
       /\ ~conns'[c].open => ~conns'[c].alive
       /\ ~conns'[c].alive => conns'[c].txn = {}
       /\ \/ conns[c].entered /\ ~conns'[c].entered
          \/ conns'[c].alive /\ conns'[c].txn # conns[c].txn
          => t \in Threads /\ c = mine[t] /\ Inside(t) /\ ~Inside(t)'
  /\ \A c \in DOMAIN conns' :
       c \notin DOMAIN conns =>
         conns'[c].open /\ conns'[c].alive /\ conns'[c].txn = {}

Retreats(t) ==
  /\ UNCHANGED <<db, split, next, batch, mine, on, page>>
  /\ \A u \in Threads : u # t => pc'[u] = pc[u]
  /\ t \in Threads =>
       /\ Inside(t)' => Inside(t)
       /\ pc'[t] \in {"exec", "commit"} => pc'[t] = pc[t]
       /\ pc'[t] \in {"load", "store"} => pc[t] \in {"load", "store"}
       /\ Working(t) /\ ~Working(t)' => conns'[mine[t]].txn = {}

(* Such steps keep everything.                                             *)
LEMMA RetreatKeeps ==
  ASSUME TypeInv, Core, NEW t, Fades(t), Retreats(t)
  PROVE  Core'
<1>0. /\ DeadIsEmpty /\ Exclusive /\ Apart /\ Origin /\ SameConn /\ Own
      /\ Committed /\ WholeBatches
  BY DEF Core
<1>1. UNCHANGED <<db, split, next, batch, mine, on, page>>
  BY DEF Retreats
<1>2. \A u \in Threads : mine[u] \in DOMAIN conns
  BY DEF TypeInv, TypeOK
<1>3. \A u \in Threads : /\ Inside(u)' => Inside(u)
                         /\ pc'[u] \in {"exec", "commit"} => pc'[u] = pc[u]
                         /\ pc'[u] \in {"load", "store"} => pc[u] \in {"load", "store"}
                         /\ Working(u) /\ ~Working(u)' => conns'[mine[u]].txn = {}
  BY DEF Retreats, Inside, Working
<1>4. DeadIsEmpty'
  BY DEF Fades, DeadIsEmpty
<1>5. \A u \in Threads : Inside(u)' =>
        /\ conns'[mine[u]].entered
        /\ conns'[mine[u]].alive => conns'[mine[u]].txn = conns[mine[u]].txn
        /\ conns'[mine[u]].alive => conns[mine[u]].alive
  <2> SUFFICES ASSUME NEW u \in Threads, Inside(u)'
               PROVE  /\ conns'[mine[u]].entered
                      /\ conns'[mine[u]].alive =>
                           conns'[mine[u]].txn = conns[mine[u]].txn
                      /\ conns'[mine[u]].alive => conns[mine[u]].alive
    OBVIOUS
  <2>1. Inside(u) /\ conns[mine[u]].entered /\ mine[u] \in DOMAIN conns
    BY <1>0, <1>2, <1>3 DEF Exclusive
  <2>2. ~(t \in Threads /\ mine[u] = mine[t] /\ Inside(t) /\ ~Inside(t)')
    BY <1>0, <2>1 DEF Exclusive
  <2>. QED
    BY <2>1, <2>2 DEF Fades
<1>6. Exclusive'
  BY <1>0, <1>1, <1>3, <1>5 DEF Exclusive
<1>7. Apart'
  BY <1>0, <1>1 DEF Apart
<1>8. Origin'
  <2> SUFFICES ASSUME NEW c \in DOMAIN conns', NEW r \in conns'[c].txn
               PROVE  \E b \in 1 .. next - 1 :
                        /\ r \in RowsOf(b)
                        /\ \/ b \in split
                           \/ \E u \in Threads : Working(u)' /\ mine[u] = c /\ batch[u] = b
    BY <1>1 DEF Origin
  <2>1. c \in DOMAIN conns /\ conns'[c].txn = conns[c].txn
    BY DEF Fades
  <2>2. PICK b \in 1 .. next - 1 :
          /\ r \in RowsOf(b)
          /\ \/ b \in split
             \/ \E u \in Threads : Working(u) /\ mine[u] = c /\ batch[u] = b
    BY <1>0, <2>1 DEF Origin
  <2>3. ASSUME NEW u \in Threads, Working(u), mine[u] = c PROVE Working(u)'
    BY <1>3, <2>3
  <2>. QED
    BY <2>2, <2>3
<1>9. SameConn'
  BY <1>0, <1>1, <1>3 DEF SameConn
<1>10. Own'
  <2> SUFFICES ASSUME NEW u \in Threads, pc'[u] \in {"exec", "commit"},
                      batch[u] \notin split, conns'[mine[u]].alive
               PROVE  PagesSoFar(u) \subseteq db \cup conns'[mine[u]].txn
    BY <1>1 DEF Own, PagesSoFar
  <2>1. Inside(u)' /\ pc[u] \in {"exec", "commit"}
    BY <1>3 DEF Inside
  <2>2. conns[mine[u]].alive /\ conns'[mine[u]].txn = conns[mine[u]].txn
    BY <1>5, <2>1
  <2>. QED
    BY <1>0, <2>1, <2>2 DEF Own
<1>11. Committed'
  BY <1>0, <1>1, <1>3 DEF Committed
<1>12. WholeBatches'
  BY <1>0, <1>1 DEF WholeBatches
<1>. QED
  BY <1>4, <1>6, <1>7, <1>8, <1>9, <1>10, <1>11, <1>12 DEF Core

(* One connection changes, and fades.                                      *)
LEMMA BecomesFades ==
  ASSUME Core, NEW t, NEW c \in DOMAIN conns,
         NEW open, NEW alive, NEW entered, NEW txn,
         Becomes(c, open, alive, entered, txn),
         txn = conns[c].txn \/ txn = {},
         alive => conns[c].alive, ~open => ~alive, ~alive => txn = {},
         (conns[c].entered /\ ~entered) \/ (alive /\ txn # conns[c].txn)
           => t \in Threads /\ c = mine[t] /\ Inside(t) /\ ~Inside(t)'
  PROVE  Fades(t)
BY DEF Becomes, Fades, Core, DeadIsEmpty

(* No connection changes, or only by a new one.                            *)
LEMMA SameFades ==
  ASSUME TypeOK, Core, NEW t, UNCHANGED conns \/ conns' = Append(conns, NewConn)
  PROVE  Fades(t)
<1>1. CASE UNCHANGED conns
  BY <1>1 DEF Fades, Core, DeadIsEmpty
<1>2. CASE conns' = Append(conns, NewConn)
  <2>1. /\ DOMAIN conns \subseteq DOMAIN conns'
        /\ \A c \in DOMAIN conns : conns'[c] = conns[c]
        /\ \A c \in DOMAIN conns' :
             c \notin DOMAIN conns =>
               conns'[c].open /\ conns'[c].alive /\ conns'[c].txn = {}
    BY <1>2, Appended DEF NewConn
  <2>. QED
    BY <2>1 DEF Fades, Core, DeadIsEmpty
<1>. QED
  BY <1>1, <1>2

(* A statement fails.                                                      *)
LEMMA ExecFailsCore ==
  ASSUME TypeInv, Core, NEW t \in Threads, ExecFails(t) PROVE Core'
<1>0. TypeOK /\ on[t] \in DOMAIN conns /\ DeadIsEmpty
  BY DEF TypeInv, TypeOK, Core
<1>1. /\ pc[t] = "exec" /\ pc'[t] = "rollback"
      /\ \A u \in Threads : u # t => pc'[u] = pc[u]
  BY <1>0, Goes DEF ExecFails, At, Labels
<1>2. Fades(t)
  <2>1. CASE UNCHANGED conns
    BY <1>0, <2>1, SameFades
  <2>2. CASE ~conns[on[t]].alive /\ Put(on[t], "open", FALSE)
    <3>1. Becomes(on[t], FALSE, conns[on[t]].alive, conns[on[t]].entered,
                  conns[on[t]].txn)
      BY <1>0, <2>2, Updates
    <3>. QED
      BY <1>0, <2>2, <3>1 DEF DeadIsEmpty, Becomes, Fades
  <2>. QED
    BY <2>1, <2>2 DEF ExecFails
<1>3. Retreats(t)
  BY <1>1 DEF ExecFails, Retreats, Inside, Working, server, frame
<1>. QED
  BY <1>2, <1>3, RetreatKeeps

(* The transaction is given up.                                            *)
LEMMA RollbackCore ==
  ASSUME TypeInv, Core, NEW t \in Threads, Rollback(t) PROVE Core'
<1>0. TypeOK /\ mine[t] \in DOMAIN conns /\ DeadIsEmpty /\ {} \in SUBSET AllRows
  BY DEF TypeInv, TypeOK, Core
<1>1. /\ pc[t] = "rollback" /\ pc'[t] \in {"close", "idle"}
      /\ \A u \in Threads : u # t => pc'[u] = pc[u]
  BY <1>0, Goes DEF Rollback, At, Labels
<1>2. Becomes(mine[t], conns[mine[t]].open, conns[mine[t]].alive, FALSE, {})
  BY <1>0, Updates DEF Rollback
<1>3. Inside(t) /\ ~Inside(t)'
  BY <1>1 DEF Inside
<1>4. Fades(t)
  BY <1>0, <1>2, <1>3 DEF DeadIsEmpty, Becomes, Fades
<1>5. Retreats(t)
  BY <1>1, <1>2 DEF Rollback, Retreats, Inside, Working, server, frame, Becomes
<1>. QED
  BY <1>4, <1>5, RetreatKeeps

(* A commit that fails for want of a connection: nothing is stored.        *)
LEMMA CommitFailsCore ==
  ASSUME TypeInv, Core, NEW t \in Threads, CommitFails(t),
         ~(conns[mine[t]].open /\ conns[mine[t]].alive)
  PROVE  Core'
<1>0. TypeOK /\ mine[t] \in DOMAIN conns /\ DeadIsEmpty /\ {} \in SUBSET AllRows
  BY DEF TypeInv, TypeOK, Core
<1>1. /\ pc[t] = "commit" /\ pc'[t] \in {"close", "idle"}
      /\ \A u \in Threads : u # t => pc'[u] = pc[u]
  BY <1>0, Goes DEF CommitFails, At, Labels
<1>2. ~conns[mine[t]].alive /\ conns[mine[t]].txn = {}
  BY <1>0 DEF DeadIsEmpty
<1>3. \/ Becomes(mine[t], conns[mine[t]].open, conns[mine[t]].alive, FALSE,
                 conns[mine[t]].txn)
      \/ Becomes(mine[t], FALSE, conns[mine[t]].alive, FALSE, conns[mine[t]].txn)
  BY <1>0, <1>2, Updates DEF CommitFails
<1>4. Inside(t) /\ ~Inside(t)'
  BY <1>1 DEF Inside
<1>5. Fades(t)
  BY <1>0, <1>2, <1>3, <1>4 DEF DeadIsEmpty, Becomes, Fades
<1>6. UNCHANGED <<db, split, next, batch, mine, on, page>>
  BY <1>2 DEF CommitFails, frame
<1>7. Retreats(t)
  BY <1>1, <1>2, <1>3, <1>6 DEF Retreats, Inside, Working, Becomes
<1>. QED
  BY <1>5, <1>7, RetreatKeeps

(* After the commit, and after a failed one.                               *)
LEMMA AfterCore ==
  ASSUME TypeInv, Core, NEW t \in Threads,
         Load(t) \/ Store(t) \/ Close(t) \/ Connect(t)
  PROVE  Core'
<1>0. TypeOK /\ conn \in DOMAIN conns /\ DeadIsEmpty /\ {} \in SUBSET AllRows
  BY DEF TypeInv, TypeOK, Core
<1>1. /\ \/ pc[t] = "load" /\ pc'[t] = "store"
         \/ pc[t] \in {"store", "close", "connect"} /\ pc'[t] \in {"idle", "connect", "enter"}
      /\ \A u \in Threads : u # t => pc'[u] = pc[u]
  BY <1>0, Goes DEF Load, Store, Close, Connect, Refused, At, Labels
<1>2. Fades(t)
  <2>1. CASE Close(t)
    <3>1. Becomes(conn, FALSE, FALSE, conns[conn].entered, {})
      BY <1>0, <2>1, Updates DEF Close
    <3>. QED
      BY <1>0, <3>1, BecomesFades
  <2>2. CASE ~Close(t)
    BY <1>0, <2>2, SameFades DEF Load, Store, Connect
  <2>. QED
    BY <2>1, <2>2
<1>3. UNCHANGED <<db, split, next, batch, mine, on, page>>
  BY DEF Load, Store, Close, Connect, server, frame, local
<1>4. Retreats(t)
  BY <1>1, <1>3 DEF Retreats, Inside, Working
<1>. QED
  BY <1>2, <1>4, RetreatKeeps

(* close(), the server and its restarts.                                   *)
LEMMA EnvironmentCore ==
  ASSUME TypeInv, Core, SinkClose \/ ServerDown \/ ServerUp \/ UNCHANGED vars
  PROVE  Core'
<1> DEFINE nobody == CHOOSE x : x \notin Threads
<1>0. TypeOK /\ conn \in DOMAIN conns /\ DeadIsEmpty /\ {} \in SUBSET AllRows
  BY DEF TypeInv, TypeOK, Core
<1>1. UNCHANGED <<db, split, next, batch, mine, on, page, pc>>
  BY DEF SinkClose, ServerDown, ServerUp, vars, local, frame, server
<1>2. Fades(nobody)
  <2>1. CASE SinkClose
    <3>1. Becomes(conn, FALSE, FALSE, conns[conn].entered, {})
      BY <1>0, <2>1, Updates DEF SinkClose
    <3> HIDE DEF nobody
    <3>. QED
      BY <1>0, <3>1, BecomesFades
  <2>2. CASE ServerDown
    <3> HIDE DEF nobody
    <3>. QED
      BY <1>0, <2>2, AllDown DEF Fades
  <2>3. CASE UNCHANGED conns
    <3> HIDE DEF nobody
    <3>. QED
      BY <1>0, <2>3, SameFades
  <2>. QED
    BY <2>1, <2>2, <2>3 DEF ServerUp, vars
<1> HIDE DEF nobody
<1>3. Retreats(nobody)
  BY <1>1 DEF Retreats, Inside, Working
<1>. QED
  BY <1>2, <1>3, RetreatKeeps

(* A flush starts.                                                         *)
LEMMA FlushCore == ASSUME TypeInv, Core, NEW t \in Threads, Flush(t) PROVE Core'
<1>0. /\ DeadIsEmpty /\ Exclusive /\ Apart /\ Origin /\ SameConn /\ Own
      /\ Committed /\ WholeBatches
      /\ next \in 1 .. Len(Batches) + 1 /\ \A u \in Threads : Place(u)
      /\ batch \in [Threads -> Nat]
  BY DEF Core, TypeInv, Local, Ranges
<1>1. /\ next' = next + 1 /\ batch'[t] = next /\ pc[t] = "idle" /\ pc'[t] = "enter"
      /\ \A u \in Threads : u # t => batch'[u] = batch[u] /\ pc'[u] = pc[u]
      /\ next \in Nat
  BY <1>0, FlushTyped, BatchFacts
<1>2. UNCHANGED <<conns, db, split, mine, on, page>>
  BY DEF Flush, server
<1>3. \A u \in Threads :
        pc'[u] # "enter" => u # t /\ pc'[u] = pc[u] /\ batch'[u] = batch[u]
  BY <1>1
<1>4. DeadIsEmpty'
  BY <1>0, <1>2 DEF DeadIsEmpty
<1>5. Exclusive'
  BY <1>0, <1>2, <1>3 DEF Exclusive, Inside
<1>6. Apart'
  <2>1. \A u \in Threads : batch[u] # next
    BY <1>0, <1>1 DEF Place
  <2>. QED
    BY <1>0, <1>1, <2>1 DEF Apart
<1>7. 1 .. next - 1 \subseteq 1 .. next' - 1
  BY <1>1
<1>8. Origin'
  <2> SUFFICES ASSUME NEW c \in DOMAIN conns, NEW r \in conns[c].txn
               PROVE  \E b \in 1 .. next' - 1 :
                        /\ r \in RowsOf(b)
                        /\ \/ b \in split
                           \/ \E u \in Threads :
                                Working(u)' /\ mine[u] = c /\ batch'[u] = b
    BY <1>2 DEF Origin
  <2>1. PICK b \in 1 .. next - 1 :
          /\ r \in RowsOf(b)
          /\ b \in split \/ \E u \in Threads : Working(u) /\ mine[u] = c /\ batch[u] = b
    BY <1>0 DEF Origin
  <2>2. \A u \in Threads : Working(u) => Working(u)' /\ batch'[u] = batch[u]
    BY <1>1 DEF Working
  <2>. QED
    BY <1>7, <2>1, <2>2
<1>9. SameConn'
  BY <1>0, <1>2, <1>3 DEF SameConn
<1>10. Own'
  BY <1>0, <1>2, <1>3 DEF Own, PagesSoFar
<1>11. Committed'
  BY <1>0, <1>2, <1>3 DEF Committed
<1>12. WholeBatches'
  BY <1>0, <1>2, <1>7 DEF WholeBatches
<1>. QED
  BY <1>4, <1>5, <1>6, <1>8, <1>9, <1>10, <1>11, <1>12 DEF Core

(* The with block is entered, by one thread at a time.                     *)
LEMMA EnterCore ==
  ASSUME TypeInv, Core, SafeEntry, NEW t \in Threads, Enter(t) PROVE Core'
<1>0. /\ TypeOK /\ conn \in DOMAIN conns /\ mine \in [Threads -> Nat]
      /\ \A u \in Threads : mine[u] \in DOMAIN conns
      /\ DeadIsEmpty /\ Exclusive /\ Apart /\ Origin /\ SameConn /\ Own
      /\ Committed /\ WholeBatches
  BY DEF TypeInv, TypeOK, Core, Local, Ranges
<1>1. UNCHANGED <<db, split, next, batch, on, page>> /\ pc[t] = "enter"
  BY DEF Enter, server, frame, At
<1>2. CASE CanEnter(conn) /\ Put(conn, "entered", TRUE)
           /\ mine' = [mine EXCEPT ![t] = conn] /\ Goto(t, "cursor")
  <2>1. Becomes(conn, conns[conn].open, conns[conn].alive, TRUE, conns[conn].txn)
    BY <1>0, <1>2, Updates
  <2>2. /\ pc'[t] = "cursor" /\ \A u \in Threads : u # t => pc'[u] = pc[u]
        /\ mine'[t] = conn /\ \A u \in Threads : u # t => mine'[u] = mine[u]
    BY <1>0, <1>2, Goes DEF Labels
  <2>3. /\ DOMAIN conns' = DOMAIN conns
        /\ \A c \in DOMAIN conns : /\ conns'[c].txn = conns[c].txn
                                   /\ conns'[c].alive <=> conns[c].alive
                                   /\ conns'[c].open <=> conns[c].open
                                   /\ conns[c].entered => conns'[c].entered
        /\ conns'[conn].entered
    BY <2>1 DEF Becomes
  <2>4. \A u \in Threads : u # t /\ Inside(u) => mine[u] # conn
    BY <1>0, <1>2 DEF SafeEntry, CanEnter, Exclusive
  <2>5. \A u \in Threads :
          pc'[u] # "cursor" => pc'[u] = pc[u] /\ mine'[u] = mine[u] /\ u # t
    BY <2>2
  <2>6. DeadIsEmpty'
    BY <1>0, <2>3 DEF DeadIsEmpty
  <2>7. Exclusive'
    BY <1>0, <2>2, <2>3, <2>4 DEF Exclusive, Inside
  <2>8. Apart'
    BY <1>0, <1>1 DEF Apart
  <2>9. Origin'
    <3>1. \A u \in Threads : Working(u) => Working(u)' /\ mine'[u] = mine[u]
      BY <1>1, <2>2 DEF Working
    <3>. QED
      BY <1>0, <1>1, <2>3, <3>1 DEF Origin
  <2>10. SameConn'
    BY <1>0, <1>1, <2>5 DEF SameConn
  <2>11. Own'
    BY <1>0, <1>1, <2>3, <2>5 DEF Own, PagesSoFar
  <2>12. Committed' /\ WholeBatches'
    BY <1>0, <1>1, <2>5 DEF Committed, WholeBatches
  <2>. QED
    BY <2>6, <2>7, <2>8, <2>9, <2>10, <2>11, <2>12 DEF Core
<1>3. CASE Raise(t) /\ UNCHANGED <<conns, mine>>
  <2>1. pc'[t] = "idle" /\ \A u \in Threads : u # t => pc'[u] = pc[u]
    BY <1>0, <1>3, Goes
  <2>2. Fades(t)
    BY <1>0, <1>3, SameFades
  <2>3. Retreats(t)
    BY <1>1, <1>3, <2>1 DEF Retreats, Inside, Working
  <2>. QED
    BY <2>2, <2>3, RetreatKeeps
<1>. QED
  BY <1>2, <1>3 DEF Enter

(* The cursor is taken: from self.conn, which may be another connection by *)
(* now.                                                                    *)
LEMMA CursorCore ==
  ASSUME TypeInv, Core, NEW t \in Threads, Cursor(t) PROVE Core'
<1>0. /\ TypeOK /\ page \in [Threads -> Nat \ {0}] /\ on \in [Threads -> Nat]
      /\ DeadIsEmpty /\ Exclusive /\ Apart /\ Origin /\ SameConn /\ Own
      /\ Committed /\ WholeBatches
  BY DEF TypeInv, Core, Local, Ranges
<1>1. /\ pc[t] = "cursor" /\ pc'[t] \in {"exec", "rollback"}
      /\ \A u \in Threads : u # t => pc'[u] = pc[u]
  BY <1>0, Goes DEF Cursor, Labels, At
<1>2. /\ page'[t] = 1 /\ \A u \in Threads : u # t => page'[u] = page[u]
      /\ on'[t] = conn /\ \A u \in Threads : u # t => on'[u] = on[u]
  BY <1>0 DEF Cursor
<1>3. /\ UNCHANGED <<db, conns, mine, next, batch>>
      /\ split \subseteq split' /\ (batch[t] \notin split' => conn = mine[t])
  BY DEF Cursor, server
<1>4. DeadIsEmpty' /\ Apart'
  BY <1>0, <1>3 DEF DeadIsEmpty, Apart
<1>5. Exclusive'
  BY <1>0, <1>1, <1>3 DEF Exclusive, Inside
<1>6. Origin'
  <2>1. \A u \in Threads : Working(u) => Working(u)'
    BY <1>1 DEF Working
  <2>. QED
    BY <1>0, <1>3, <2>1 DEF Origin
<1>7. SameConn'
  BY <1>0, <1>1, <1>2, <1>3 DEF SameConn
<1>8. Own'
  <2>1. PagesSoFar(t)' = {}
    BY <1>2 DEF PagesSoFar
  <2>2. \A u \in Threads : u # t => PagesSoFar(u)' = PagesSoFar(u)
    BY <1>2, <1>3 DEF PagesSoFar
  <2>. QED
    BY <1>0, <1>1, <1>3, <2>1, <2>2 DEF Own
<1>9. Committed'
  BY <1>0, <1>1, <1>3 DEF Committed
<1>10. WholeBatches'
  BY <1>0, <1>3 DEF WholeBatches
<1>. QED
  BY <1>4, <1>5, <1>6, <1>7, <1>8, <1>9, <1>10 DEF Core

(* A page goes to the transaction of the cursor's connection.              *)
LEMMA ExecPageCore ==
  ASSUME TypeInv, Core, NEW t \in Threads, ExecPage(t) PROVE Core'
<1> DEFINE rows == Page(batch[t], page[t])
<1>0. /\ TypeOK /\ on[t] \in DOMAIN conns /\ page \in [Threads -> Nat \ {0}]
      /\ \A u \in Threads : mine[u] \in DOMAIN conns
      /\ DeadIsEmpty /\ Exclusive /\ Apart /\ Origin /\ SameConn /\ Own
      /\ Committed /\ WholeBatches
  BY DEF TypeInv, TypeOK, Core, Local, Ranges
<1>1. /\ batch[t] \in 1 .. next - 1 /\ batch[t] \in DOMAIN Batches
      /\ page[t] \in DOMAIN Batches[batch[t]]
      /\ page'[t] = page[t] + 1 /\ \A u \in Threads : u # t => page'[u] = page[u]
      /\ pc[t] = "exec" /\ pc'[t] \in {"exec", "commit"}
      /\ \A u \in Threads : u # t => pc'[u] = pc[u]
  BY ExecPageTyped
<1>2. /\ DOMAIN conns' = DOMAIN conns
      /\ \A c \in DOMAIN conns :
           /\ conns[c].txn \subseteq conns'[c].txn
           /\ conns'[c].alive <=> conns[c].alive
           /\ conns'[c].open <=> conns[c].open
           /\ conns'[c].entered <=> conns[c].entered
           /\ c # on[t] => conns'[c].txn = conns[c].txn
      /\ conns'[on[t]].txn = conns[on[t]].txn \cup (rows \ db)
  <2>1. Becomes(on[t], conns[on[t]].open, conns[on[t]].alive, conns[on[t]].entered,
                conns[on[t]].txn \cup (rows \ db))
    BY ExecPageTyped
  <2>. QED
    BY <1>0, <2>1 DEF Becomes
<1>3. UNCHANGED <<db, split, next, batch, mine, on>> /\ conns[on[t]].alive
      /\ conns[on[t]].open
  BY DEF ExecPage, Insert, frame
<1>4. rows \subseteq RowsOf(batch[t])
  BY <1>1, BatchFacts
<1> HIDE DEF rows
<1>5. \A u \in Threads : /\ pc'[u] \in {"exec", "commit"} <=> pc[u] \in {"exec", "commit"}
                         /\ Inside(u)' <=> Inside(u)
                         /\ Working(u)' <=> Working(u)
                         /\ pc[u] \notin {"exec", "commit"} => pc'[u] = pc[u]
  BY <1>1 DEF Inside, Working
<1>6. DeadIsEmpty'
  BY <1>0, <1>2, <1>3 DEF DeadIsEmpty
<1>7. Exclusive'
  BY <1>0, <1>2, <1>3, <1>5 DEF Exclusive
<1>8. Apart' /\ WholeBatches'
  BY <1>0, <1>3 DEF Apart, WholeBatches
<1>9. SameConn'
  BY <1>0, <1>3, <1>5 DEF SameConn
<1>10. Origin'
  <2> SUFFICES ASSUME NEW c \in DOMAIN conns, NEW r \in conns'[c].txn
               PROVE  \E b \in 1 .. next - 1 :
                        /\ r \in RowsOf(b)
                        /\ \/ b \in split
                           \/ \E u \in Threads : Working(u) /\ mine[u] = c /\ batch[u] = b
    BY <1>2, <1>3, <1>5 DEF Origin
  <2>1. CASE r \in conns[c].txn
    BY <1>0, <2>1 DEF Origin
  <2>2. CASE r \notin conns[c].txn
    <3>1. c = on[t] /\ r \in RowsOf(batch[t])
      BY <1>2, <1>4, <2>2
    <3>2. batch[t] \in split \/ mine[t] = c
      BY <1>0, <1>1, <3>1 DEF SameConn
    <3>3. Working(t)
      BY <1>1 DEF Working
    <3>. QED
      BY <1>1, <3>1, <3>2, <3>3
  <2>. QED
    BY <2>1, <2>2
<1>11. Own'
  <2> SUFFICES ASSUME NEW u \in Threads, pc[u] \in {"exec", "commit"},
                      batch[u] \notin split, conns[mine[u]].alive
               PROVE  PagesSoFar(u)' \subseteq db \cup conns'[mine[u]].txn
    BY <1>0, <1>2, <1>3, <1>5 DEF Own
  <2>1. PagesSoFar(u) \subseteq db \cup conns'[mine[u]].txn
    BY <1>0, <1>2 DEF Own
  <2>2. CASE u # t
    BY <1>1, <1>3, <2>1, <2>2 DEF PagesSoFar
  <2>3. CASE u = t
    <3>1. on[t] = mine[t]
      BY <1>0, <1>1, <2>3 DEF SameConn
    <3>2. PagesSoFar(t)' \subseteq PagesSoFar(t) \cup rows
      BY <1>0, <1>1, <1>3 DEF PagesSoFar, rows
    <3>. QED
      BY <1>2, <2>1, <2>3, <3>1, <3>2
  <2>. QED
    BY <2>2, <2>3
<1>12. Committed'
  BY <1>0, <1>1, <1>3, <1>5 DEF Committed
<1>. QED
  BY <1>6, <1>7, <1>8, <1>9, <1>10, <1>11, <1>12 DEF Core

(* The transaction of the with block is stored: by a commit, or by one of  *)
(* which no answer came.                                                   *)
Stores(t) ==
  /\ At(t, "commit")
  /\ conns[mine[t]].open /\ conns[mine[t]].alive
  /\ db' = db \cup conns[mine[t]].txn
  /\ \/ Commit(t)
     \/ CommitFails(t) /\ Goto(t, "close")

(* What storing does to the variables.                                     *)
LEMMA StoreFacts ==
  ASSUME TypeInv, NEW t \in Threads, Stores(t)
  PROVE  /\ pc[t] = "commit" /\ pc'[t] \in {"load", "close"}
         /\ \A u \in Threads : u # t => pc'[u] = pc[u]
         /\ UNCHANGED <<split, next, batch, mine, on, page, outcome>>
         /\ DOMAIN conns' = DOMAIN conns
         /\ \A c \in DOMAIN conns : c # mine[t] => conns'[c] = conns[c]
         /\ conns'[mine[t]].txn = {}
         /\ ~conns'[mine[t]].open => ~conns'[mine[t]].alive
<1>0. TypeOK /\ mine[t] \in DOMAIN conns /\ {} \in SUBSET AllRows
  BY DEF TypeInv, TypeOK
<1>1. /\ pc[t] = "commit" /\ pc'[t] \in {"load", "close"}
      /\ \A u \in Threads : u # t => pc'[u] = pc[u]
  BY <1>0, Goes DEF Stores, Commit, At, Labels
<1>2. \/ Becomes(mine[t], conns[mine[t]].open, conns[mine[t]].alive, FALSE, {})
      \/ Becomes(mine[t], FALSE, FALSE, FALSE, {})
  BY <1>0, Updates DEF Stores, Commit, CommitFails
<1>3. UNCHANGED <<split, next, batch, mine, on, page>>
  BY DEF Stores, Commit, CommitFails, frame, local
<1>4. UNCHANGED outcome
  BY DEF Stores, Commit, CommitFails, local
<1>. QED
  BY <1>0, <1>1, <1>2, <1>3, <1>4 DEF Becomes, Stores

(* All of the thread's batch is stored, and nothing else but what was      *)
(* split.                                                                  *)
LEMMA StoredRows ==
  ASSUME TypeInv, Core, NEW t \in Threads, Stores(t)
  PROVE  /\ batch[t] \in DOMAIN Batches
         /\ batch[t] \notin split => RowsOf(batch[t]) \subseteq db'
         /\ \A r \in conns[mine[t]].txn :
              \E b \in 1 .. next - 1 : r \in RowsOf(b) /\ (b \in split \/ b = batch[t])
<1>0. /\ Exclusive /\ Origin /\ Own /\ Place(t) /\ mine[t] \in DOMAIN conns
      /\ page \in [Threads -> Nat \ {0}]
  BY DEF TypeInv, TypeOK, Core, Local, Ranges
<1>1. /\ pc[t] = "commit" /\ conns[mine[t]].alive
      /\ db' = db \cup conns[mine[t]].txn
  BY DEF Stores, At
<1>2. batch[t] \in DOMAIN Batches
  BY <1>1, InFlush
<1>3. ASSUME batch[t] \notin split PROVE RowsOf(batch[t]) \subseteq db'
  <2>1. PagesSoFar(t) \subseteq db'
    BY <1>0, <1>1, <1>3 DEF Own
  <2>2. page[t] = Len(Batches[batch[t]]) + 1
    BY <1>0, <1>1 DEF Place
  <2>3. /\ Len(Batches[batch[t]]) \in Nat
        /\ DOMAIN Batches[batch[t]] = 1 .. Len(Batches[batch[t]])
        /\ \A r \in RowsOf(batch[t]) :
             \E p \in DOMAIN Batches[batch[t]] : r \in Page(batch[t], p)
    BY <1>2, BatchFacts
  <2>4. 1 .. page[t] - 1 = DOMAIN Batches[batch[t]]
    BY <2>2, <2>3
  <2>. QED
    BY <2>1, <2>3, <2>4 DEF PagesSoFar
<1>4. ASSUME NEW r \in conns[mine[t]].txn
      PROVE  \E b \in 1 .. next - 1 : r \in RowsOf(b) /\ (b \in split \/ b = batch[t])
  <2>1. PICK b \in 1 .. next - 1 :
          /\ r \in RowsOf(b)
          /\ \/ b \in split
             \/ \E u \in Threads : Working(u) /\ mine[u] = mine[t] /\ batch[u] = b
    BY <1>0 DEF Origin
  <2>2. Inside(t) /\ \A u \in Threads : Working(u) => Inside(u)
    BY <1>1 DEF Inside, Working
  <2>3. \A u \in Threads : Working(u) /\ mine[u] = mine[t] => u = t
    BY <1>0, <2>2 DEF Exclusive
  <2>. QED
    BY <2>1, <2>3
<1>. QED
  BY <1>2, <1>3, <1>4

(* A transaction that is stored is one whole batch, all of it in one       *)
(* connection.                                                             *)
LEMMA StoreCore == ASSUME TypeInv, Core, NEW t \in Threads, Stores(t) PROVE Core'
<1>0. /\ mine[t] \in DOMAIN conns /\ \A u \in Threads : mine[u] \in DOMAIN conns
      /\ DeadIsEmpty /\ Exclusive /\ Apart /\ Origin /\ SameConn /\ Own
      /\ Committed /\ WholeBatches /\ next \in 1 .. Len(Batches) + 1
  BY DEF TypeInv, TypeOK, Core, Local, Ranges
<1>1. /\ pc[t] = "commit" /\ pc'[t] \in {"load", "close"}
      /\ \A u \in Threads : u # t => pc'[u] = pc[u]
      /\ UNCHANGED <<split, next, batch, mine, on, page>>
      /\ DOMAIN conns' = DOMAIN conns
      /\ \A c \in DOMAIN conns : c # mine[t] => conns'[c] = conns[c]
      /\ conns'[mine[t]].txn = {}
      /\ ~conns'[mine[t]].open => ~conns'[mine[t]].alive
  BY StoreFacts
<1>2. db' = db \cup conns[mine[t]].txn /\ db \subseteq db'
  BY DEF Stores
<1>3. \A u \in Threads : Inside(u) /\ u # t => mine[u] # mine[t]
  BY <1>0, <1>1 DEF Exclusive, Inside
<1>4. \A u \in Threads : Inside(u)' => u # t /\ Inside(u)
  BY <1>1 DEF Inside
<1>5. DeadIsEmpty'
  BY <1>0, <1>1 DEF DeadIsEmpty
<1>6. Exclusive'
  BY <1>0, <1>1, <1>3, <1>4 DEF Exclusive
<1>7. Apart'
  BY <1>0, <1>1 DEF Apart
<1>8. Origin'
  <2>1. \A u \in Threads : Working(u) /\ u # t => Working(u)'
    BY <1>1 DEF Working
  <2>2. \A c \in DOMAIN conns : c # mine[t] =>
          \A u \in Threads : Working(u) /\ mine[u] = c => Working(u)'
    BY <2>1
  <2>. QED
    BY <1>0, <1>1, <2>2 DEF Origin
<1>9. SameConn'
  BY <1>0, <1>1 DEF SameConn
<1>10. Own'
  <2> SUFFICES ASSUME NEW u \in Threads, pc'[u] \in {"exec", "commit"},
                      batch[u] \notin split, conns'[mine[u]].alive
               PROVE  PagesSoFar(u) \subseteq db' \cup conns'[mine[u]].txn
    BY <1>1 DEF Own, PagesSoFar
  <2>1. u # t /\ Inside(u) /\ pc[u] \in {"exec", "commit"}
    BY <1>1 DEF Inside
  <2>2. conns'[mine[u]] = conns[mine[u]]
    BY <1>0, <1>1, <1>3, <2>1
  <2>. QED
    BY <1>0, <1>2, <2>1, <2>2 DEF Own
<1>11. Committed'
  BY <1>0, <1>1, <1>2, StoredRows DEF Committed
<1>12. WholeBatches'
  <2> SUFFICES ASSUME NEW r \in db'
               PROVE  \E b \in DOMAIN Batches :
                        r \in RowsOf(b) /\ (b \in split \/ RowsOf(b) \subseteq db')
    BY <1>1 DEF WholeBatches
  <2>1. CASE r \in db
    BY <1>0, <1>2, <2>1 DEF WholeBatches
  <2>2. CASE r \in conns[mine[t]].txn
    <3>1. PICK b \in 1 .. next - 1 : r \in RowsOf(b) /\ (b \in split \/ b = batch[t])
      BY <2>2, StoredRows
    <3>2. b \in DOMAIN Batches
      BY <1>0, BatchFacts
    <3>. QED
      BY <3>1, <3>2, StoredRows
  <2>. QED
    BY <1>2, <2>1, <2>2
<1>. QED
  BY <1>5, <1>6, <1>7, <1>8, <1>9, <1>10, <1>11, <1>12 DEF Core

(* Every step keeps the invariant.                                         *)
LEMMA CoreStep ==
  ASSUME TypeInv, Core, SafeEntry, [Next]_vars PROVE Core'
<1>1. CASE \E t \in Threads : Flush(t) \/ Step(t)
  <2>1. PICK t \in Threads : Flush(t) \/ Step(t)
    BY <1>1
  <2>2. CASE Commit(t)
    <3>1. Stores(t)
      BY <2>2 DEF Commit, Stores
    <3>. QED
      BY <3>1, StoreCore
  <2>3. CASE CommitFails(t) /\ conns[mine[t]].open /\ conns[mine[t]].alive
    <3>1. Stores(t)
      BY <2>3 DEF CommitFails, Stores
    <3>. QED
      BY <3>1, StoreCore
  <2>4. CASE CommitFails(t) /\ ~(conns[mine[t]].open /\ conns[mine[t]].alive)
    BY <2>4, CommitFailsCore
  <2>5. CASE Flush(t) \/ Enter(t) \/ Cursor(t) \/ ExecPage(t)
    BY <2>5, FlushCore, EnterCore, CursorCore, ExecPageCore
  <2>6. CASE ExecFails(t) \/ Rollback(t) \/ Load(t) \/ Store(t) \/ Close(t) \/ Connect(t)
    BY <2>6, ExecFailsCore, RollbackCore, AfterCore
  <2>. QED
    BY <2>1, <2>2, <2>3, <2>4, <2>5, <2>6 DEF Step
<1>2. CASE SinkClose \/ ServerDown \/ ServerUp \/ UNCHANGED vars
  BY <1>2, EnvironmentCore
<1>. QED
  BY <1>1, <1>2 DEF Next, Quiet

(***************************************************************************)
(* A batch is in the table whole or not at all: all its pages are in one   *)
(* transaction, which nobody else puts rows in or commits.                 *)
(***************************************************************************)
THEOREM BatchesAreWhole == ASSUME SafeEntry PROVE Spec => []WholeBatches
<1>1. Init => TypeInv /\ Core
  BY InitTypeInv, InitCore
<1>2. TypeInv /\ Core /\ [Next]_vars => (TypeInv /\ Core)'
  BY SafeEntry, TypeStep, CoreStep
<1>3. TypeInv /\ Core => WholeBatches
  BY DEF Core
<1>. QED
  BY <1>1, <1>2, <1>3, PTL DEF Spec

-----------------------------------------------------------------------------
(***************************************************************************)
(* The count.  What total may have counted are the entries of the lists    *)
(* that were handed over, whose rows are stored and which are in no flush  *)
(* that is under way.                                                      *)
(***************************************************************************)
InFlight == UNION {Entries(batch[t]) : t \in {u \in Threads : pc[u] # "idle"}}
Settled  == StoredEntries \ InFlight

Honest ==
  split = {} =>
    /\ total <= Cardinality(Settled)
    /\ \A t \in Threads : pc[t] = "store" => seen[t] <= Cardinality(Settled)

(* The entries of the batches before the n-th are finitely many.           *)
LEMMA EntriesBefore ==
  ASSUME NEW n \in 1 .. Len(Batches) + 1,
         NEW S, S \subseteq UNION {Entries(b) : b \in 1 .. n - 1}
  PROVE  IsFiniteSet(S) /\ Cardinality(S) \in Nat
<1> DEFINE handed == {Entries(b) : b \in 1 .. n - 1}
<1>1. n - 1 \in Nat /\ \A b \in 1 .. n - 1 : b \in DOMAIN Batches
  BY BatchFacts
<1>2. IsFiniteSet(handed)
  <2>1. IsFiniteSet(1 .. n - 1)
    BY <1>1, FS_Interval
  <2> DEFINE f == [b \in 1 .. n - 1 |-> Entries(b)]
  <2>2. f \in Surjection(1 .. n - 1, handed)
    BY DEF Surjection
  <2>. QED
    BY <2>1, <2>2, FS_Surjection
<1>3. \A T \in handed : IsFiniteSet(T)
  BY <1>1, EntriesFinite
<1> HIDE DEF handed
<1>4. IsFiniteSet(UNION handed)
  BY <1>2, <1>3, FS_UNION
<1>. QED
  BY <1>4, FS_Subset, FS_CardinalityType DEF handed

(* So are those with a row in the table, before a step and after it.       *)
LEMMA StoredFinite ==
  /\ Ranges => \A S \in SUBSET StoredEntries : IsFiniteSet(S) /\ Cardinality(S) \in Nat
  /\ Ranges' => \A S \in SUBSET StoredEntries' : IsFiniteSet(S) /\ Cardinality(S) \in Nat
BY EntriesBefore DEF Ranges, StoredEntries

(* What is settled stays settled, but for the rows of a flush that starts. *)
LEMMA SettledGrows ==
  ASSUME db \subseteq db', UNCHANGED next,
         \A u \in Threads : pc'[u] # "idle" => pc[u] # "idle" /\ batch'[u] = batch[u]
  PROVE  Settled \subseteq Settled'
<1>1. InFlight' \subseteq InFlight
  BY DEF InFlight
<1>2. StoredEntries \subseteq StoredEntries'
  BY DEF StoredEntries
<1>. QED
  BY <1>1, <1>2 DEF Settled

(* More that is settled, and no more that is counted or about to be.       *)
LEMMA HonestKept ==
  ASSUME TypeOK, Ranges', Honest, split \subseteq split', Settled \subseteq Settled',
         UNCHANGED total,
         \A u \in Threads : pc'[u] = "store" =>
           \/ pc[u] = "store" /\ seen'[u] = seen[u]
           \/ seen'[u] = total,
         seen \in [Threads -> Nat]
  PROVE  Honest'
<1> SUFFICES ASSUME split' = {}
             PROVE  /\ total' <= Cardinality(Settled')
                    /\ \A u \in Threads :
                         pc'[u] = "store" => seen'[u] <= Cardinality(Settled')
  BY DEF Honest
<1>1. /\ IsFiniteSet(Settled') /\ Cardinality(Settled) \in Nat
      /\ Cardinality(Settled') \in Nat
  <2>1. Settled' \in SUBSET StoredEntries'
    BY DEF Settled
  <2>2. IsFiniteSet(Settled')
    BY <2>1, StoredFinite
  <2>. QED
    BY <2>2, FS_Subset, FS_CardinalityType
<1>2. Cardinality(Settled) <= Cardinality(Settled')
  BY <1>1, FS_Subset
<1>3. /\ total <= Cardinality(Settled)
      /\ \A u \in Threads : pc[u] = "store" => seen[u] <= Cardinality(Settled)
  BY DEF Honest
<1>4. total \in Nat
  BY DEF TypeOK
<1>. QED
  BY <1>1, <1>2, <1>3, <1>4

(* A flush that starts: its entries are in flight, and none of another.    *)
LEMMA FlushHonest ==
  ASSUME TypeInv, Honest, NEW t \in Threads, Flush(t) PROVE Honest'
<1>0. /\ TypeOK /\ seen \in [Threads -> Nat]
      /\ next \in 1 .. Len(Batches) + 1
  BY DEF TypeInv, Local, Ranges
<1>1. /\ TypeInv' /\ batch'[t] = next /\ next \in DOMAIN Batches /\ next' = next + 1
      /\ pc[t] = "idle" /\ pc'[t] = "enter"
      /\ \A u \in Threads : u # t => batch'[u] = batch[u] /\ pc'[u] = pc[u]
  BY FlushTyped
<1>2. UNCHANGED <<db, split, total, seen>>
  BY DEF Flush, server
<1>3. StoredEntries \subseteq StoredEntries' /\ StoredEntries \cap Entries(next) = {}
  <2>1. next \in Nat
    BY <1>0, BatchFacts
  <2>2. \A b \in 1 .. next - 1 : b # next /\ b \in 1 .. next' - 1
    BY <1>1, <2>1
  <2>. QED
    BY <1>2, <2>2, EntriesApart DEF StoredEntries
<1>4. InFlight' \subseteq InFlight \cup Entries(next)
  BY <1>1 DEF InFlight
<1>5. Settled \subseteq Settled'
  BY <1>3, <1>4 DEF Settled
<1>6. \A u \in Threads : pc'[u] = "store" => pc[u] = "store" /\ seen'[u] = seen[u]
  BY <1>1, <1>2
<1>. QED
  BY <1>0, <1>1, <1>2, <1>5, <1>6, HonestKept DEF TypeInv, Local

(* The rows of the flush that ends are settled with it, and were not before. *)
LEMMA StoreHonest ==
  ASSUME TypeInv, TypeInv', Core, Honest, NEW t \in Threads, Store(t) PROVE Honest'
<1> DEFINE mineRows == Entries(batch[t])
<1>0. /\ TypeOK /\ Ranges /\ Committed /\ Apart /\ seen \in [Threads -> Nat]
      /\ batch \in [Threads -> Nat] /\ \A u \in Threads : Place(u)
  BY DEF Core, TypeInv, Local, Ranges
<1>1. /\ pc[t] = "store" /\ pc'[t] = "idle"
      /\ \A u \in Threads : u # t => pc'[u] = pc[u]
      /\ UNCHANGED <<db, split, batch, seen, next>>
      /\ total' = seen[t] + Cardinality(mineRows)
  BY <1>0, Goes DEF Store, Labels, At, server, frame, Count
<1> SUFFICES ASSUME split = {}
             PROVE  /\ total' <= Cardinality(Settled')
                    /\ \A u \in Threads :
                         pc'[u] = "store" => seen'[u] <= Cardinality(Settled')
  BY <1>1 DEF Honest
<1>2. mineRows \subseteq StoredEntries
  <2>1. batch[t] \in 1 .. next - 1 /\ RowsOf(batch[t]) \subseteq db
    BY <1>0, <1>1, InFlush DEF Committed
  <2>2. \A e \in mineRows : Row(e) \in RowsOf(batch[t])
    BY DEF Entries, Row, RowsOf, Page, Range
  <2> HIDE DEF mineRows
  <2>3. mineRows \subseteq UNION {Entries(b) : b \in 1 .. next - 1}
    BY <2>1 DEF mineRows
  <2>. QED
    BY <2>1, <2>2, <2>3 DEF StoredEntries
<1>3. mineRows \cap Settled = {}
  BY <1>1 DEF Settled, InFlight
<1>4. mineRows \cap InFlight' = {}
  <2> SUFFICES ASSUME NEW u \in Threads, pc'[u] # "idle"
               PROVE  mineRows \cap Entries(batch[u]) = {}
    BY <1>1 DEF InFlight
  <2>1. u # t /\ pc[u] # "idle"
    BY <1>1
  <2>2. batch[u] > 0
    BY <2>1, <1>0 DEF Place
  <2>3. batch[u] # batch[t]
    BY <1>0, <2>1, <2>2 DEF Apart
  <2>. QED
    BY <2>3, EntriesApart
<1>5. Settled \subseteq Settled'
  BY <1>1, SettledGrows
<1> HIDE DEF mineRows
<1>6. Settled \cup mineRows \subseteq Settled'
  <2>1. StoredEntries' = StoredEntries
    BY <1>1 DEF StoredEntries
  <2>. QED
    BY <1>2, <1>4, <1>5, <2>1 DEF Settled
<1>7. IsFiniteSet(mineRows) /\ IsFiniteSet(Settled) /\ IsFiniteSet(Settled')
  <2>1. Settled \subseteq StoredEntries /\ Settled' \subseteq StoredEntries
    BY <1>1 DEF Settled, StoredEntries
  <2>. QED
    BY <1>0, <1>2, <2>1, StoredFinite
<1>8. /\ Cardinality(mineRows) \in Nat /\ Cardinality(Settled) \in Nat
      /\ Cardinality(Settled') \in Nat
      /\ Cardinality(Settled) <= Cardinality(Settled')
  BY <1>5, <1>7, FS_CardinalityType, FS_Subset
<1>9. Cardinality(Settled \cup mineRows) = Cardinality(Settled) + Cardinality(mineRows)
  <2>1. Settled \cap mineRows = {}
    BY <1>3
  <2>2. Cardinality(Settled \cup mineRows)
          = Cardinality(Settled) + Cardinality(mineRows)
              - Cardinality(Settled \cap mineRows)
    BY <1>7, FS_Union
  <2>. QED
    BY <1>8, <2>1, <2>2, FS_EmptySet
<1>10. Cardinality(Settled \cup mineRows) <= Cardinality(Settled')
  BY <1>6, <1>7, FS_Subset
<1>11. \A u \in Threads : pc[u] = "store" => seen[u] <= Cardinality(Settled)
  BY DEF Honest
<1>12. total' <= Cardinality(Settled')
  BY <1>0, <1>1, <1>8, <1>9, <1>10, <1>11
<1>13. \A u \in Threads : pc'[u] = "store" => seen'[u] <= Cardinality(Settled')
  <2> SUFFICES ASSUME NEW u \in Threads, pc'[u] = "store"
               PROVE  seen'[u] <= Cardinality(Settled')
    OBVIOUS
  <2>1. pc[u] = "store" /\ seen'[u] = seen[u] /\ seen[u] \in Nat
    BY <1>0, <1>1
  <2>. QED
    BY <1>8, <1>11, <2>1
<1>. QED
  BY <1>12, <1>13

(* The other steps count nothing.                                          *)
LEMMA OtherHonest ==
  ASSUME TypeInv, TypeInv', Honest, NEW t \in Threads,
         Enter(t) \/ Cursor(t) \/ ExecPage(t) \/ ExecFails(t) \/ Rollback(t)
           \/ Commit(t) \/ CommitFails(t) \/ Load(t) \/ Close(t) \/ Connect(t)
  PROVE  Honest'
<1>0. TypeOK /\ Ranges' /\ seen \in [Threads -> Nat] /\ pc \in [Threads -> Labels]
  BY DEF TypeInv, Local, Ranges, TypeOK, Labels
<1>1. pc[t] # "idle" /\ pc[t] # "store"
  BY DEF Enter, Cursor, ExecPage, ExecFails, Rollback, Commit, CommitFails, Load,
         Close, Connect, At
<1>2. \/ \E label \in Labels : Goto(t, label)
      \/ Raise(t) \/ GiveUp(t)
      \/ UNCHANGED pc
  BY DEF Enter, Cursor, ExecPage, ExecFails, Rollback, Commit, CommitFails, Load,
         Close, Connect, Labels, Refused
<1>3. \A u \in Threads : u # t => pc'[u] = pc[u]
  BY <1>0, <1>2, Goes
<1>4. UNCHANGED <<batch, total, next>> /\ split \subseteq split' /\ db \subseteq db'
  BY DEF Enter, Cursor, ExecPage, ExecFails, Rollback, Commit, CommitFails, Load,
         Close, Connect, server, local, frame, Insert
<1>5. Settled \subseteq Settled'
  <2>1. \A u \in Threads : pc'[u] # "idle" => pc[u] # "idle" /\ batch'[u] = batch[u]
    BY <1>1, <1>3, <1>4
  <2>. QED
    BY <1>4, <2>1, SettledGrows
<1>6. \A u \in Threads : pc'[u] = "store" =>
        \/ pc[u] = "store" /\ seen'[u] = seen[u]
        \/ seen'[u] = total
  <2>1. CASE Load(t)
    <3>1. seen'[t] = total /\ \A u \in Threads : u # t => seen'[u] = seen[u]
      BY <1>0, <2>1 DEF Load
    <3>. QED
      BY <1>3, <3>1
  <2>2. CASE ~Load(t)
    <3>1. UNCHANGED seen
      BY <2>2 DEF Enter, Cursor, ExecPage, ExecFails, Rollback, Commit, CommitFails,
                  Close, Connect, local
    <3>2. pc'[t] # "store"
      <4>1. \/ \E label \in Labels \ {"store"} : Goto(t, label)
            \/ Raise(t) \/ GiveUp(t)
            \/ UNCHANGED pc
        BY <2>2 DEF Enter, Cursor, ExecPage, ExecFails, Rollback, Commit,
                    CommitFails, Close, Connect, Labels, Refused
      <4>. QED
        BY <1>0, <1>1, <4>1, Goes
    <3>. QED
      BY <1>3, <3>1, <3>2
  <2>. QED
    BY <2>1, <2>2
<1>. QED
  BY <1>0, <1>4, <1>5, <1>6, HonestKept

(* At first nothing is counted.                                            *)
LEMMA InitHonest == Init => Honest
<1> SUFFICES ASSUME Init PROVE Honest
  OBVIOUS
<1>1. total = 0 /\ db = {} /\ \A t \in Threads : pc[t] = "idle"
  BY DEF Init
<1>2. Settled = {}
  BY <1>1 DEF Settled, StoredEntries
<1>. QED
  BY <1>1, <1>2, FS_EmptySet DEF Honest

(* So every step leaves what is counted within the rows that are settled.  *)
LEMMA HonestStep ==
  ASSUME TypeInv, Core, Honest, [Next]_vars PROVE Honest'
<1>0. TypeInv'
  BY TypeStep
<1>1. CASE \E t \in Threads : Flush(t) \/ Step(t)
  <2>1. PICK t \in Threads : Flush(t) \/ Step(t)
    BY <1>1
  <2>. QED
    BY <1>0, <2>1, FlushHonest, StoreHonest, OtherHonest DEF Step
<1>2. CASE SinkClose \/ ServerDown \/ ServerUp \/ UNCHANGED vars
  BY <1>2 DEF SinkClose, ServerDown, ServerUp, vars, local, frame, server,
              Honest, Settled, StoredEntries, InFlight
<1>. QED
  BY <1>1, <1>2 DEF Next, Quiet

(***************************************************************************)
(* sink_total counts each entry of the lists handed to flush at most once, *)
(* and only when its row is in the table.                                  *)
(***************************************************************************)
THEOREM TotalCountsStoredRows == ASSUME SafeEntry PROVE Spec => []TotalIsHonest
<1>1. Init => TypeInv /\ Core /\ Honest
  BY InitTypeInv, InitCore, InitHonest
<1>2. TypeInv /\ Core /\ Honest /\ [Next]_vars => (TypeInv /\ Core /\ Honest)'
  BY SafeEntry, TypeStep, CoreStep, HonestStep
<1>3. TypeInv /\ Core /\ Honest => TotalIsHonest
  <2> SUFFICES ASSUME TypeInv, Honest, split = {}
               PROVE  total <= Cardinality(StoredEntries)
    BY DEF TotalIsHonest
  <2>1. total \in Nat /\ Ranges /\ Settled \subseteq StoredEntries
    BY DEF TypeInv, TypeOK, Local, Settled
  <2>2. /\ IsFiniteSet(StoredEntries) /\ Cardinality(StoredEntries) \in Nat
        /\ Cardinality(Settled) \in Nat
    BY <2>1, StoredFinite
  <2>3. Cardinality(Settled) <= Cardinality(StoredEntries)
    BY <2>1, <2>2, FS_Subset
  <2>. QED
    BY <2>1, <2>2, <2>3 DEF Honest
<1>. QED
  BY <1>1, <1>2, <1>3, PTL DEF Spec

-----------------------------------------------------------------------------
(***************************************************************************)
(* The sink implements SinkInterface while no batch is split.              *)
(***************************************************************************)
Busy == {t \in Threads : pc[t] # "idle"}
Request == [t \in Threads |-> IF batch[t] = 0 THEN {} ELSE RowsOf(batch[t])]

(* The initial state is one of the interface.                              *)
LEMMA PromiseInit == Init => Promise!Init
BY DEF Init, Promise!Init

(* A flush begins.                                                         *)
LEMMA PromiseBegins ==
  ASSUME TypeInv, NEW t \in Threads, Flush(t) PROVE Promise!Next
<1>1. /\ next \in DOMAIN Batches /\ next \in Nat \ {0} /\ pc[t] = "idle"
      /\ batch'[t] = next /\ pc'[t] = "enter"
      /\ \A u \in Threads : u # t => batch'[u] = batch[u] /\ pc'[u] = pc[u]
  BY FlushTyped, BatchFacts
<1>2. Busy' = Busy \cup {t} /\ t \notin Busy
  BY <1>1 DEF Busy
<1>3. Request' = [Request EXCEPT ![t] = RowsOf(next)]
  BY <1>1 DEF Request
<1>4. RowsOf(next) \in SUBSET AllRows
  BY <1>1, BatchFacts
<1>5. outcome' = [outcome EXCEPT ![t] = "none"] /\ UNCHANGED db
  BY DEF Flush, server
<1>6. Promise!Begin(t)
  BY <1>2, <1>3, <1>4, <1>5 DEF Promise!Begin, Busy, Request
<1>. QED
  BY <1>6 DEF Promise!Next

(* A flush stores its rows, all of them.                                   *)
LEMMA PromiseStores ==
  ASSUME TypeInv, Core, NEW t \in Threads, Stores(t), split = {} PROVE Promise!Next
<1>1. /\ pc[t] = "commit" /\ pc'[t] \in {"load", "close"}
      /\ \A u \in Threads : u # t => pc'[u] = pc[u]
      /\ UNCHANGED <<batch, outcome>>
  BY StoreFacts
<1>2. batch[t] \in 1 .. next - 1 /\ next \in 1 .. Len(Batches) + 1
  BY <1>1, InFlush DEF TypeInv, Local, Ranges
<1>3. RowsOf(batch[t]) \subseteq db' /\ conns[mine[t]].txn \subseteq RowsOf(batch[t])
  BY StoredRows
<1>4. db' = db \cup RowsOf(batch[t])
  BY <1>3 DEF Stores
<1>5. t \in Busy /\ Busy' = Busy
  BY <1>1 DEF Busy
<1>6. Request[t] = RowsOf(batch[t]) /\ Request' = Request
  BY <1>1, <1>2, BatchFacts DEF Request
<1>7. Promise!Store(t)
  BY <1>1, <1>4, <1>5, <1>6 DEF Promise!Store, Busy, Request
<1>. QED
  BY <1>7 DEF Promise!Next

(* A flush ends: counted only with its rows stored.                        *)
LEMMA PromiseReturns ==
  ASSUME TypeInv, NEW t \in Threads, NEW r \in {"counted", "dropped", "raised"}, pc[t] # "idle",
         Goto(t, "idle"), outcome' = [outcome EXCEPT ![t] = r], UNCHANGED <<db, batch>>,
         r = "counted" => RowsOf(batch[t]) \subseteq db
  PROVE  Promise!Next
<1>1. pc'[t] = "idle" /\ \A u \in Threads : u # t => pc'[u] = pc[u]
  BY Goes DEF TypeInv, Labels
<1>2. t \in Busy /\ Busy' = Busy \ {t}
  BY <1>1 DEF Busy
<1>3. Request' = Request /\ (r = "counted" => Request[t] \subseteq db)
  BY DEF Request
<1>4. Promise!Return(t)
  BY <1>2, <1>3 DEF Promise!Return, Busy, Request
<1>. QED
  BY <1>4 DEF Promise!Next

(* The caller sees nothing of the rest.                                    *)
LEMMA PromiseStutters ==
  ASSUME UNCHANGED <<db, batch, outcome>>,
         \A u \in Threads : pc'[u] = "idle" <=> pc[u] = "idle"
  PROVE  UNCHANGED Promise!sinkVars
<1>1. Busy' = Busy /\ Request' = Request
  BY DEF Busy, Request
<1>. QED
  BY <1>1 DEF Promise!sinkVars, Busy, Request

(* A thread between its labels, or out of flush without its rows.          *)
LEMMA PromiseMoves ==
  ASSUME TypeInv, NEW t \in Threads, pc[t] # "idle", UNCHANGED <<db, batch>>,
         \/ \E label \in Labels \ {"idle"} : Goto(t, label) /\ UNCHANGED outcome
         \/ Raise(t) \/ GiveUp(t)
         \/ UNCHANGED <<pc, outcome>>
  PROVE  [Promise!Next]_Promise!sinkVars
<1>1. CASE Raise(t) \/ GiveUp(t)
  BY <1>1, PromiseReturns DEF Raise, GiveUp
<1>2. CASE \E label \in Labels \ {"idle"} : Goto(t, label) /\ UNCHANGED outcome
  <2>1. \A u \in Threads : pc'[u] = "idle" <=> pc[u] = "idle"
    BY <1>2, Goes DEF TypeInv
  <2>. QED
    BY <1>2, <2>1, PromiseStutters
<1>3. CASE UNCHANGED <<pc, outcome>>
  BY <1>3, PromiseStutters
<1>. QED
  BY <1>1, <1>2, <1>3

(* Every step is a step of the interface or none, while no batch is split. *)
LEMMA PromiseStep ==
  ASSUME TypeInv, Core, [Next]_vars, split' = {}
  PROVE  [Promise!Next]_Promise!sinkVars
<1>1. CASE \E t \in Threads : Flush(t) \/ Step(t)
  <2>1. PICK t \in Threads : Flush(t) \/ Step(t)
    BY <1>1
  <2>2. CASE Flush(t)
    BY <2>2, PromiseBegins
  <2>3. CASE Stores(t)
    <3>1. split = {}
      BY <2>3, StoreFacts
    <3>. QED
      BY <2>3, <3>1, PromiseStores
  <2>4. CASE Store(t)
    <3>1. RowsOf(batch[t]) \subseteq db
      BY <2>4 DEF Store, At, Core, Committed, frame
    <3>. QED
      BY <2>4, <3>1, PromiseReturns DEF Store, At, server
  <2>5. CASE CommitFails(t) /\ ~Stores(t)
    <3>1. UNCHANGED db /\ UNCHANGED batch /\ pc[t] # "idle"
      BY <2>5 DEF CommitFails, Stores, At
    <3>2. \/ \E label \in Labels \ {"idle"} : Goto(t, label) /\ UNCHANGED outcome
          \/ Raise(t)
      BY <2>5 DEF CommitFails, Labels
    <3>. QED
      BY <3>1, <3>2, PromiseMoves
  <2>6. CASE Enter(t) \/ Cursor(t) \/ ExecPage(t) \/ ExecFails(t) \/ Rollback(t)
               \/ Load(t) \/ Close(t) \/ Connect(t)
    <3>1. UNCHANGED <<db, batch>> /\ pc[t] # "idle"
      BY <2>6 DEF Enter, Cursor, ExecPage, ExecFails, Rollback, Load, Close, Connect,
                  At, server, local, Insert
    <3>2. \/ \E label \in Labels \ {"idle"} : Goto(t, label) /\ UNCHANGED outcome
          \/ Raise(t) \/ GiveUp(t)
          \/ UNCHANGED <<pc, outcome>>
      BY <2>6 DEF Enter, Cursor, ExecPage, ExecFails, Rollback, Load, Close, Connect,
                  local, Labels, Refused
    <3>. QED
      BY <3>1, <3>2, PromiseMoves
  <2>7. Commit(t) => Stores(t)
    BY DEF Commit, Stores
  <2>. QED
    BY <2>1, <2>2, <2>3, <2>4, <2>5, <2>6, <2>7 DEF Step
<1>2. CASE SinkClose \/ ServerDown \/ ServerUp \/ UNCHANGED vars
  BY <1>2, PromiseStutters DEF SinkClose, ServerDown, ServerUp, vars, local, frame, server
<1>. QED
  BY <1>1, <1>2 DEF Next, Quiet

(***************************************************************************)
(* Until a batch is split flush stores all of a batch or nothing, nothing  *)
(* else, and counts no batch that is not stored.                           *)
(***************************************************************************)
THEOREM SinkImplementsInterface == ASSUME SafeEntry PROVE Spec => KeepsPromise
<1>1. Init => TypeInv /\ Core /\ Promise!Init
  BY InitTypeInv, InitCore, PromiseInit
<1>2. TypeInv /\ Core /\ [Next]_vars => (TypeInv /\ Core)'
  BY SafeEntry, TypeStep, CoreStep
<1>3. TypeInv /\ Core /\ [Next]_vars =>
        [split' = {} => [Promise!Next]_Promise!sinkVars]_vars
  BY PromiseStep
<1>. QED
  BY <1>1, <1>2, <1>3, PTL DEF Spec, KeepsPromise

=============================================================================
