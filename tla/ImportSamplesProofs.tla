--------------------------- MODULE ImportSamplesProofs ---------------------------
(***************************************************************************)
(* What the importer does to the table, for any importers, files, command  *)
(* lines, chunk size and numbers of runs and faults: a file is stored      *)
(* whole or not at all, the counts it reports add up to the rows that were *)
(* added, a run is given what its arguments name, and one that reaches its *)
(* summary has missed no more files than it counted.                       *)
(***************************************************************************)
EXTENDS ImportSamples, FoldLemmas

Fields == {"at", "given", "todo", "left", "rowcount", "inserted", "txn", "alive",
           "errors", "exit"}
IsRun(r) == DOMAIN r = Fields /\ r = [f \in Fields |-> r[f]]

Inserting(r) == r.at \in {"insert", "commit"}

(* The rows of the file in hand that have been passed to the server.       *)
Passed(r) == {RowAt(Head(r.todo), i) : i \in Loading(Head(r.todo)) \ r.left}

OneEach(rows) == \A r, s \in rows : r.key = s.key => r = s

(* What an importer's run has to do with a table d.  The open transaction  *)
(* holds rows of the file in hand, with keys that are not in the table; as *)
(* long as the connection is alive, the keys of all rows passed so far are *)
(* in the one or the other, and the counts are those of the transaction.   *)
Own(r, d) ==
  /\ IsRun(r)
  /\ (~Inserting(r) \/ ~r.alive) => r.txn = {}
  /\ r.txn \subseteq RowsOf(Head(r.todo))
  /\ IsFiniteSet(r.txn)
  /\ OneEach(r.txn)
  /\ KeysOf(r.txn) \cap KeysOf(d) = {}
  /\ r.at = "commit" => r.left = {} /\ r.rowcount = 0
  /\ Inserting(r) =>
       /\ r.left \subseteq Loading(Head(r.todo))
       /\ r.rowcount \in Nat /\ r.inserted \in Nat
       /\ Loading(Head(r.todo)) = {} => r.inserted = 0
  /\ Inserting(r) /\ r.alive =>
       /\ KeysOf(Passed(r)) \subseteq KeysOf(d \cup r.txn)
       /\ r.rowcount + r.inserted = Cardinality(r.txn)

Table ==
  /\ IsFiniteSet(db)
  /\ OneEach(db)
  /\ WholeFiles
  /\ silent \subseteq db
  /\ ReportedIsHonest

(* ON CONFLICT waits for the other's transaction: no key is in two.        *)
Apart ==
  \A p, q \in Importers : p # q => KeysOf(run[p].txn) \cap KeysOf(run[q].txn) = {}

ImportInv ==
  /\ run = [p \in Importers |-> run[p]]
  /\ \A p \in Importers : Own(run[p], db)
  /\ Apart
  /\ Table

-----------------------------------------------------------------------------
(* A run with no open transaction that is not inserting, or has just       *)
(* opened its file.                                                        *)
Idle(r) ==
  /\ IsRun(r)
  /\ r.txn = {}
  /\ \/ ~Inserting(r)
     \/ /\ r.left = Loading(Head(r.todo)) /\ r.rowcount = 0 /\ r.inserted = 0
        /\ r.at = "commit" => r.left = {}

(* Such a run owns nothing, whatever the table.                            *)
LEMMA IdleOwns == ASSUME NEW r, NEW d, Idle(r) PROVE Own(r, d)
<1>1. IsFiniteSet({}) /\ Cardinality({}) = 0
  BY FS_EmptySet
<1>2. Inserting(r) => Passed(r) = {}
  BY DEF Idle, Inserting, Passed
<1> QED
  BY <1>1, <1>2 DEF Idle, Own, Inserting, OneEach, KeysOf

(* A step that puts one importer in such a state and leaves the table      *)
(* alone keeps the invariant.                                              *)
LEMMA IdleStep ==
  ASSUME ImportInv, NEW p \in Importers, NEW r, Idle(r), Set(p, r),
         UNCHANGED <<db, reported, silent>>
  PROVE  ImportInv'
<1>1. /\ run' = [run EXCEPT ![p] = r]
      /\ run' = [q \in Importers |-> run'[q]]
      /\ run'[p] = r /\ \A q \in Importers : q # p => run'[q] = run[q]
  BY DEF ImportInv, Set
<1>2. \A q \in Importers : Own(run'[q], db')
  BY <1>1, IdleOwns DEF ImportInv
<1>3. Apart'
  BY <1>1 DEF ImportInv, Apart, Idle, KeysOf
<1>4. Table'
  BY DEF ImportInv, Table, OneEach, WholeFiles, ReportedIsHonest
<1> QED
  BY <1>1, <1>2, <1>3, <1>4 DEF ImportInv

-----------------------------------------------------------------------------
(* The steps after which the importer has nothing in hand.                 *)

(* After these an importer has no open transaction.                        *)
LEMMA EmptyHanded ==
  ASSUME NEW r, IsRun(r)
  PROVE  /\ \A how : Idle(Ended(r, how))
         /\ Idle(NextFile(r)) /\ Idle(FileError(r))
BY DEF IsRun, Fields, Idle, Inserting, Ended, NextFile, FileError

(* A run begins with nothing in hand, or ends at once.                     *)
LEMMA StartKeeps == ASSUME ImportInv, NEW p \in Importers, Start(p) PROVE ImportInv'
<1>1. PICK call \in Calls :
        LET files == ExpandFiles(call.args)
            r == [NewRun EXCEPT !.given = files, !.todo = files]
        IN  Set(p, IF files = << >> \/ (~call.dry /\ ~up) THEN Ended(r, "aborted")
                   ELSE [r EXCEPT !.at = IF call.dry THEN "dry" ELSE "file"])
  BY DEF Start
<1> DEFINE files == ExpandFiles(call.args)
           r == [NewRun EXCEPT !.given = files, !.todo = files]
           s == [r EXCEPT !.at = IF call.dry THEN "dry" ELSE "file"]
<1>2. IsRun(r) /\ r.txn = {}
  <2> HIDE DEF files
  <2> QED  BY DEF NewRun, IsRun, Fields
<1>3. Idle(Ended(r, "aborted"))
  BY <1>2, EmptyHanded
<1>4. Idle(s)
  <2> HIDE DEF r
  <2> QED  BY <1>2 DEF Idle, IsRun, Fields, Inserting
<1>5. UNCHANGED <<db, reported, silent>>
  BY DEF Start
<1>6. Set(p, Ended(r, "aborted")) \/ Set(p, s)
  BY <1>1
<1> HIDE DEF r, s
<1> QED
  BY <1>3, <1>4, <1>5, <1>6, IdleStep

(* A dry run has no connection.                                            *)
LEMMA DryFileKeeps == ASSUME ImportInv, NEW p \in Importers, DryFile(p) PROVE ImportInv'
<1> DEFINE s == [run[p] EXCEPT !.todo = Tail(@)]
<1>1. IsRun(run[p]) /\ run[p].txn = {} /\ run[p].at = "dry"
  BY DEF DryFile, At, ImportInv, Own, Inserting
<1>2. Idle(s)
  BY <1>1 DEF Idle, IsRun, Fields, Inserting
<1>3. \E r \in {Ended(run[p], "dry"), Ended(run[p], "aborted"), s} : Set(p, r)
  BY DEF DryFile
<1>4. UNCHANGED <<db, reported, silent>>
  BY DEF DryFile
<1> HIDE DEF s
<1> QED
  BY <1>1, <1>2, <1>3, <1>4, EmptyHanded, IdleStep

(* A file that was read is yet to be inserted; one that was not is over.   *)
LEMMA OpenFileKeeps == ASSUME ImportInv, NEW p \in Importers, OpenFile(p) PROVE ImportInv'
<1> DEFINE f == Head(run[p].todo)
           s == [run[p] EXCEPT !.at = FirstStep(Loading(f)), !.left = Loading(f),
                               !.rowcount = 0, !.inserted = 0]
<1>1. IsRun(run[p]) /\ run[p].txn = {}
  BY DEF OpenFile, At, ImportInv, Own, Inserting
<1>2. Idle(s)
  BY <1>1 DEF Idle, IsRun, Fields, Inserting, FirstStep
<1>3. \E r \in {NextFile(run[p]), FileError(run[p]), s} : Set(p, r)
  BY DEF OpenFile
<1>4. UNCHANGED <<db, reported, silent>>
  BY DEF OpenFile
<1> HIDE DEF s
<1> QED
  BY <1>1, <1>2, <1>3, <1>4, EmptyHanded, IdleStep

(* A failed statement takes its transaction with it.                       *)
LEMMA StatementFailsKeeps ==
  ASSUME ImportInv, NEW p \in Importers, StatementFails(p) PROVE ImportInv'
<1> DEFINE s == [run[p] EXCEPT !.at = "rollback", !.txn = {}]
<1>1. IsRun(run[p])
  BY DEF ImportInv, Own
<1>2. Idle(s)
  BY <1>1 DEF Idle, IsRun, Fields, Inserting
<1>3. Set(p, s) /\ UNCHANGED <<db, reported, silent>>
  BY DEF StatementFails
<1> HIDE DEF s
<1> QED
  BY <1>2, <1>3, IdleStep

(* The ends of a file or of a run that commit nothing.                     *)
LEMMA EndsKeep ==
  ASSUME ImportInv, NEW p \in Importers, Rollback(p) \/ Finish(p) \/ Kill(p)
  PROVE  ImportInv'
<1>1. IsRun(run[p])
  BY DEF ImportInv, Own
<1>2. /\ UNCHANGED <<db, reported, silent>>
      /\ \/ Set(p, FileError(run[p]))
         \/ \E how \in {"aborted", "clean", "errors"} : Set(p, Ended(run[p], how))
  BY DEF Rollback, Finish, Kill
<1> QED
  BY <1>1, <1>2, EmptyHanded, IdleStep

-----------------------------------------------------------------------------
(* A row with a key that is neither in D nor in the transaction T.         *)
LEMMA OneMore ==
  ASSUME NEW T, NEW D, NEW x, OneEach(T), KeysOf(T) \cap KeysOf(D) = {},
         x.key \notin KeysOf(D \cup T)
  PROVE  OneEach(T \cup {x}) /\ KeysOf(T \cup {x}) \cap KeysOf(D) = {}
<1>1. x.key \notin KeysOf(D) /\ \A y \in T : y.key # x.key
  BY DEF KeysOf
<1>2. OneEach(T \cup {x})
  BY <1>1 DEF OneEach
<1>3. KeysOf(T \cup {x}) = KeysOf(T) \cup {x.key}
  BY DEF KeysOf
<1> QED
  BY <1>1, <1>2, <1>3

(* Inserting a row: it is in the table already, or in the transaction, or  *)
(* new to both and to every other transaction.                             *)
LEMMA InsertRowKeeps ==
  ASSUME ImportInv, NEW p \in Importers, InsertRow(p) PROVE ImportInv'
<1>1. PICK i \in run[p].left :
        LET r    == run[p]
            row  == RowAt(File(p), i)
            rest == r.left \ {i}
            new  == IsNew(p, row)
            n    == r.rowcount + (IF new THEN 1 ELSE 0)
            ends == rest = {} \/ Cardinality(Loading(File(p)) \ rest) % Chunk = 0
        IN  /\ At(p, "insert")
            /\ \A j \in r.left : i <= j
            /\ r.alive /\ row.fits
            /\ \A q \in Importers : ~Waits(p, q)
            /\ Set(p, [r EXCEPT !.txn = IF new THEN @ \cup {row} ELSE @,
                                !.left = rest,
                                !.rowcount = IF ends THEN 0 ELSE n,
                                !.inserted = IF ends THEN CountChunk(@, n) ELSE @,
                                !.at = IF rest = {} THEN "commit" ELSE @])
            /\ db' = TableMeanwhile(row)
            /\ UNCHANGED <<up, reported, silent, starts, faults>>
  BY DEF InsertRow
<1> DEFINE r    == run[p]
           row  == RowAt(Head(r.todo), i)
           rest == r.left \ {i}
           new  == row.key \notin KeysOf(db \cup r.txn)
           n    == r.rowcount + (IF new THEN 1 ELSE 0)
           ends == rest = {} \/ Cardinality(Loading(Head(r.todo)) \ rest) % Chunk = 0
           s    == [r EXCEPT !.txn = IF new THEN @ \cup {row} ELSE @,
                             !.left = rest,
                             !.rowcount = IF ends THEN 0 ELSE n,
                             !.inserted = IF ends THEN CountChunk(@, n) ELSE @,
                             !.at = IF rest = {} THEN "commit" ELSE @]
<1>2. Own(r, db) /\ r.at = "insert" /\ r.alive
  BY <1>1 DEF ImportInv, At
<1>3. Set(p, s) /\ UNCHANGED <<db, reported, silent>>
  BY <1>1 DEF IsNew, File, TableMeanwhile
<1>4. /\ IsRun(s)
      /\ s.txn = IF new THEN r.txn \cup {row} ELSE r.txn
      /\ s.left = rest /\ s.todo = r.todo /\ s.alive = r.alive
      /\ s.rowcount = IF ends THEN 0 ELSE n
      /\ s.inserted = IF ends THEN r.inserted + n ELSE r.inserted
      /\ s.at = IF rest = {} THEN "commit" ELSE "insert"
  <2>1. IsRun(r)
    BY <1>2 DEF Own
  <2> HIDE DEF r, row, rest, n, ends, new
  <2> QED
    BY <1>2, <2>1 DEF IsRun, Fields, CountChunk
<1>5. i \in Loading(Head(r.todo)) /\ row \in RowsOf(Head(r.todo))
  BY <1>2 DEF Own, Inserting, RowsOf
<1>6. /\ r.rowcount \in Nat /\ r.inserted \in Nat
      /\ r.rowcount + r.inserted = Cardinality(r.txn)
      /\ IsFiniteSet(r.txn) /\ OneEach(r.txn)
      /\ r.txn \subseteq RowsOf(Head(r.todo))
      /\ KeysOf(r.txn) \cap KeysOf(db) = {}
      /\ KeysOf(Passed(r)) \subseteq KeysOf(db \cup r.txn)
      /\ r.left \subseteq Loading(Head(r.todo))
  BY <1>2 DEF Own, Inserting
<1>7. new => row \notin r.txn /\ row.key \notin KeysOf(db) /\ row.key \notin KeysOf(r.txn)
  BY DEF KeysOf
<1>8. /\ IsFiniteSet(s.txn)
      /\ Cardinality(s.txn) = Cardinality(r.txn) + (IF new THEN 1 ELSE 0)
  <2> HIDE DEF s
  <2>1. CASE new
    <3>1. s.txn = r.txn \cup {row} /\ row \notin r.txn /\ IsFiniteSet(r.txn)
      BY <1>4, <1>6, <1>7, <2>1
    <3> HIDE DEF r, row
    <3> QED
      BY <2>1, <3>1, FS_AddElement, FS_CardinalityType
  <2>2. CASE ~new
    BY <1>4, <1>6, <2>2, FS_CardinalityType
  <2> QED
    BY <2>1, <2>2
<1>9. Passed(s) = Passed(r) \cup {row}
  BY <1>4, <1>5 DEF Passed
<1> HIDE DEF s
<1>10. Own(s, db)
  <2>1. OneEach(s.txn) /\ KeysOf(s.txn) \cap KeysOf(db) = {}
    <3>1. CASE new
      <4>1. /\ row.key \notin KeysOf(db \cup r.txn) /\ s.txn = r.txn \cup {row}
            /\ OneEach(r.txn) /\ KeysOf(r.txn) \cap KeysOf(db) = {}
        BY <1>4, <1>6, <3>1
      <4> HIDE DEF row, r
      <4>2. /\ OneEach(r.txn \cup {row})
            /\ KeysOf(r.txn \cup {row}) \cap KeysOf(db) = {}
        BY <4>1, OneMore
      <4> QED
        BY <4>1, <4>2
    <3>2. CASE ~new
      BY <1>4, <1>6, <3>2
    <3> QED
      BY <3>1, <3>2
  <2>2. KeysOf(Passed(s)) \subseteq KeysOf(db \cup s.txn)
    <3>1. r.txn \subseteq s.txn /\ row.key \in KeysOf(db \cup s.txn)
      BY <1>4 DEF KeysOf
    <3> HIDE DEF row, r
    <3> QED
      BY <1>6, <1>9, <3>1 DEF KeysOf
  <2>3. s.txn \subseteq RowsOf(Head(s.todo))
    BY <1>4, <1>5, <1>6
  <2>4. /\ s.rowcount \in Nat /\ s.inserted \in Nat
        /\ s.rowcount + s.inserted = Cardinality(s.txn)
        /\ s.at = "commit" => s.left = {} /\ s.rowcount = 0
    BY <1>4, <1>6, <1>8
  <2> QED
    BY <1>2, <1>4, <1>5, <1>6, <1>8, <2>1, <2>2, <2>3, <2>4 DEF Own, Inserting
<1>11. /\ run' = [q \in Importers |-> run'[q]]
       /\ run'[p] = s /\ \A q \in Importers : q # p => run'[q] = run[q]
  BY <1>3 DEF ImportInv, Set
<1>12. \A q \in Importers : q # p => row.key \notin KeysOf(run[q].txn)
  <2>1. row \in NextRow(p)
    BY <1>1 DEF NextRow, File
  <2> QED
    BY <1>1, <1>2, <2>1 DEF Waits, At, KeysOf
<1>13. Apart'
  BY <1>4, <1>11, <1>12 DEF ImportInv, Apart, KeysOf
<1>14. Table'
  BY <1>3 DEF ImportInv, Table, OneEach, WholeFiles, ReportedIsHonest
<1> QED
  BY <1>3, <1>10, <1>11, <1>13, <1>14 DEF ImportInv

-----------------------------------------------------------------------------
(* Commits: the rows of the open transaction join the table.               *)

(* Two finite sets that share nothing.                                     *)
LEMMA DisjointSum ==
  ASSUME NEW S, NEW T, IsFiniteSet(S), IsFiniteSet(T), S \cap T = {}
  PROVE  Cardinality(S \cup T) = Cardinality(S) + Cardinality(T)
<1>1. Cardinality(S) \in Nat /\ Cardinality(T) \in Nat /\ Cardinality(S \cap T) = 0
  BY FS_EmptySet, FS_CardinalityType
<1>2. Cardinality(S \cup T)
        = Cardinality(S) + Cardinality(T) - Cardinality(S \cap T)
  BY FS_Union
<1> QED
  BY <1>1, <1>2

(* Rows that another importer adds to the table leave a run as it is.      *)
LEMMA OwnWithMore ==
  ASSUME NEW r, NEW d, NEW e, Own(r, d), KeysOf(r.txn) \cap KeysOf(e) = {}
  PROVE  Own(r, d \cup e)
<1>1. KeysOf(r.txn) \cap KeysOf(d \cup e) = {}
  BY DEF Own, KeysOf
<1>2. KeysOf(d \cup r.txn) \subseteq KeysOf((d \cup e) \cup r.txn)
  BY DEF KeysOf
<1> QED
  BY <1>1, <1>2 DEF Own

(* What a transaction at its commit does to the table, whatever becomes of *)
(* the importer.                                                           *)
LEMMA Committed ==
  ASSUME ImportInv, NEW p \in Importers, run[p].at = "commit",
         db' = db \cup run[p].txn, NEW r, Idle(r), Set(p, r),
         \/ reported' = reported + run[p].inserted /\ UNCHANGED silent
              /\ (run[p].alive \/ Loading(File(p)) = {})
         \/ UNCHANGED reported /\ silent' = silent \cup run[p].txn
  PROVE  ImportInv'
<1> DEFINE t == run[p].txn
<1>1. Own(run[p], db)
  BY DEF ImportInv
<1>2. /\ run' = [q \in Importers |-> run'[q]]
      /\ run'[p] = r /\ \A q \in Importers : q # p => run'[q] = run[q]
  BY DEF ImportInv, Set
<1>3. \A q \in Importers : Own(run'[q], db')
  BY <1>2, IdleOwns, OwnWithMore DEF ImportInv, Apart
<1>4. Apart'
  BY <1>2 DEF ImportInv, Apart, Idle, KeysOf
<1>5. OneEach(db')
  BY <1>1 DEF ImportInv, Table, Own, OneEach, KeysOf
<1>6. WholeFiles'
  <2>1. ASSUME NEW row \in db' PROVE KeysOf(RowsOf(row.file)) \subseteq KeysOf(db')
    <3>1. CASE row \in db
      BY <3>1 DEF ImportInv, Table, WholeFiles, KeysOf
    <3>2. CASE row \in t
      <4>1. row.file = File(p) /\ run[p].alive
        BY <1>1, <3>2 DEF Own, RowsOf, RowAt, File
      <4>2. Passed(run[p]) = RowsOf(File(p))
        BY <1>1 DEF Own, Passed, RowsOf, File
      <4> QED
        BY <1>1, <4>1, <4>2 DEF Own, Inserting
    <3> QED
      BY <3>1, <3>2
  <2> QED
    BY <2>1 DEF WholeFiles
<1>7. IsFiniteSet(db) /\ IsFiniteSet(t) /\ silent \subseteq db /\ t \cap db = {}
  <2>1. IsFiniteSet(db) /\ silent \subseteq db
    BY DEF ImportInv, Table
  <2>2. IsFiniteSet(t) /\ KeysOf(t) \cap KeysOf(db) = {}
    BY <1>1 DEF Own
  <2> HIDE DEF t
  <2>3. t \cap db = {}
    BY <2>2 DEF KeysOf
  <2> QED
    BY <2>1, <2>2, <2>3
<1>8. IsFiniteSet(db') /\ silent' \subseteq db'
  BY <1>7, FS_Union
<1>9. ReportedIsHonest'
  <2>1. reported = Cardinality(db \ silent)
    BY DEF ImportInv, Table, ReportedIsHonest
  <2>2. CASE reported' = reported + run[p].inserted /\ UNCHANGED silent
               /\ (run[p].alive \/ Loading(File(p)) = {})
    <3>1. run[p].inserted = Cardinality(t)
      BY <1>1, <2>2, FS_EmptySet, FS_CardinalityType DEF Own, Inserting, File, RowsOf
    <3>2. db' \ silent' = (db \ silent) \cup t /\ (db \ silent) \cap t = {}
      BY <1>7, <2>2
    <3>3. IsFiniteSet(db \ silent)
      BY <1>7, FS_Difference
    <3>4. Cardinality(db' \ silent') = Cardinality(db \ silent) + Cardinality(t)
      BY <1>7, <3>2, <3>3, DisjointSum
    <3> QED
      BY <2>1, <2>2, <3>1, <3>4 DEF ReportedIsHonest
  <2>3. CASE UNCHANGED reported /\ silent' = silent \cup t
    <3>1. db' \ silent' = db \ silent
      BY <1>7, <2>3
    <3> QED
      BY <2>1, <2>3, <3>1 DEF ReportedIsHonest
  <2> QED
    BY <2>2, <2>3
<1> QED
  BY <1>2, <1>3, <1>4, <1>5, <1>6, <1>8, <1>9 DEF ImportInv, Table

(* A commit with its IMPORT line.                                          *)
LEMMA CommitKeeps == ASSUME ImportInv, NEW p \in Importers, Commit(p) PROVE ImportInv'
<1>1. Idle(NextFile(run[p]))
  BY EmptyHanded DEF ImportInv, Own
<1> QED
  BY <1>1, Committed DEF Commit, At

(* A commit that raises, done or not.                                      *)
LEMMA CommitFailsKeeps ==
  ASSUME ImportInv, NEW p \in Importers, CommitFails(p) PROVE ImportInv'
<1>1. Idle(Ended(run[p], "aborted"))
  BY EmptyHanded DEF ImportInv, Own
<1>2. CASE UNCHANGED <<db, silent>>
  BY <1>1, <1>2, IdleStep DEF CommitFails
<1>3. CASE db' = db \cup run[p].txn /\ silent' = silent \cup run[p].txn
  BY <1>1, <1>3, Committed DEF CommitFails, At
<1> QED
  BY <1>2, <1>3 DEF CommitFails

(* The server stops: every transaction is gone, and every connection.      *)
LEMMA ServerDownKeeps == ASSUME ImportInv, ServerDown PROVE ImportInv'
<1> DEFINE s(p) == [run[p] EXCEPT !.alive = FALSE, !.txn = {}]
<1>1. /\ run' = [p \in Importers |-> s(p)]
      /\ UNCHANGED <<db, reported, silent>>
  BY DEF ServerDown
<1>2. \A p \in Importers : Own(s(p), db)
  <2>1. IsFiniteSet({})
    BY FS_EmptySet
  <2> SUFFICES ASSUME NEW p \in Importers PROVE Own(s(p), db)
    OBVIOUS
  <2>2. Own(run[p], db)
    BY DEF ImportInv
  <2>3. /\ IsRun(s(p)) /\ s(p).txn = {} /\ s(p).alive = FALSE
        /\ \A f \in Fields \ {"txn", "alive"} : s(p)[f] = run[p][f]
    BY <2>2 DEF Own, IsRun, Fields
  <2> HIDE DEF s
  <2> QED
    BY <2>1, <2>2, <2>3 DEF Own, Inserting, Fields, OneEach, KeysOf
<1>3. \A p \in Importers : s(p).txn = {}
  BY DEF ImportInv, Own, IsRun, Fields
<1>4. Apart'
  <2> HIDE DEF s
  <2> QED  BY <1>1, <1>3 DEF Apart, KeysOf
<1>5. Table'
  BY <1>1 DEF ImportInv, Table, OneEach, WholeFiles, ReportedIsHonest
<1> HIDE DEF s
<1> QED
  BY <1>1, <1>2, <1>4, <1>5 DEF ImportInv

-----------------------------------------------------------------------------
(* At first the table is empty and no importer runs.                       *)
LEMMA ImportInit == Init => ImportInv
<1> SUFFICES ASSUME Init PROVE ImportInv
  OBVIOUS
<1>1. IsFiniteSet({}) /\ Cardinality({}) = 0
  BY FS_EmptySet
<1>2. Idle(NewRun)
  BY DEF Idle, IsRun, Fields, NewRun, Inserting
<1>3. NewRun.txn = {}
  BY DEF NewRun
<1>4. \A p \in Importers : Own(run[p], db)
  BY <1>2, IdleOwns DEF Init
<1>5. Apart
  BY <1>3 DEF Init, Apart, KeysOf
<1>6. Table
  BY <1>1 DEF Init, Table, OneEach, WholeFiles, ReportedIsHonest
<1> QED
  BY <1>4, <1>5, <1>6 DEF ImportInv, Init

(* The invariant is inductive.                                             *)
LEMMA ImportStep == ImportInv /\ [Next]_vars => ImportInv'
<1> SUFFICES ASSUME ImportInv, [Next]_vars PROVE ImportInv'
  OBVIOUS
<1>1. CASE \E p \in Importers : Start(p)
  BY <1>1, StartKeeps
<1>2. CASE \E p \in Importers : DryFile(p) \/ OpenFile(p) \/ InsertRow(p)
  BY <1>2, DryFileKeeps, OpenFileKeeps, InsertRowKeeps
<1>3. CASE \E p \in Importers : StatementFails(p) \/ Commit(p) \/ CommitFails(p)
  BY <1>3, StatementFailsKeeps, CommitKeeps, CommitFailsKeeps
<1>4. CASE \E p \in Importers : Rollback(p) \/ Finish(p) \/ Kill(p)
  BY <1>4, EndsKeep
<1>5. CASE ServerDown
  BY <1>5, ServerDownKeeps
<1>6. CASE ServerUp \/ Quiet \/ UNCHANGED vars
  BY <1>6 DEF ServerUp, Quiet, vars, ImportInv, Own, Apart, Table, OneEach,
              WholeFiles, ReportedIsHonest
<1> QED
  BY <1>1, <1>2, <1>3, <1>4, <1>5, <1>6 DEF Next, Step

(* A file is in the table whole or not at all: however importers, kills,   *)
(* server stops and lost commit answers interleave, a row is there only    *)
(* with the keys of all the rows of its file (main commits once per file). *)
THEOREM FilesAreWhole == Spec => []WholeFiles
<1>1. ImportInv => WholeFiles
  BY DEF ImportInv, Table
<1> QED
  BY <1>1, ImportInit, ImportStep, PTL DEF Spec

(* The "inserted" counts of all runs' IMPORT lines add up to the rows that *)
(* were added, but for commits that no line speaks of.                     *)
THEOREM CountsAddUp == Spec => []ReportedIsHonest
<1>1. ImportInv => ReportedIsHonest
  BY DEF ImportInv, Table
<1> QED
  BY <1>1, ImportInit, ImportStep, PTL DEF Spec

-----------------------------------------------------------------------------
(* What expand_files makes of the command line.                            *)

(* Scanning a directory takes one file after the other.                    *)
LEMMA MatchingValues ==
  ASSUME NEW s \in Seq(Files)
  PROVE  \E h \in [0 .. Len(s) -> Seq(Files)] :
           /\ h[0] = << >>
           /\ \A k \in 1 .. Len(s) : h[k] = AddMatching(h[k - 1], s[k])
           /\ FoldLeft(AddMatching, << >>, s) = h[Len(s)]
<1> DEFINE V == Seq(Files)
           n == Len(s)
           H == [x \in (1 .. n) \X V |-> AddMatching(x[2], s[x[1]])]
           iter == CHOOSE f : f = [t \in SUBSET (DOMAIN s) |->
                     IF t = {} THEN << >> ELSE AddMatching(f[t \ {Max(t)}], s[Max(t)])]
<1>1. n \in Nat /\ DOMAIN s = 1 .. n /\ << >> \in V
  OBVIOUS
<1>2. \A k \in 1 .. n : \A v \in V : AddMatching(v, s[k]) \in V
  BY DEF AddMatching
<1> HIDE DEF V
<1>3. H \in [(1 .. n) \X V -> V] /\ \A k \in 1 .. n, v \in V : H[<<k, v>>] = AddMatching(v, s[k])
  <2>1. \A x \in (1 .. n) \X V : AddMatching(x[2], s[x[1]]) \in V
    BY <1>2
  <2> QED
    BY <2>1
<1> HIDE DEF H, n
<1>4. PICK g \in [SUBSET (1 .. n) -> V] : IsLeftFold(g, n, << >>, H)
  BY <1>1, <1>3, FoldLeftExists
<1>5. ASSUME NEW t \in SUBSET (1 .. n), t # {}
      PROVE  Max(t) \in 1 .. n /\ t \ {Max(t)} \in SUBSET (1 .. n)
  BY <1>1, <1>5, MaxOfPrefix
<1>6. g = [t \in SUBSET (DOMAIN s) |->
             IF t = {} THEN << >> ELSE AddMatching(g[t \ {Max(t)}], s[Max(t)])]
  <2>1. ASSUME NEW t \in SUBSET (1 .. n)
        PROVE  g[t] = IF t = {} THEN << >> ELSE AddMatching(g[t \ {Max(t)}], s[Max(t)])
    BY <1>3, <1>4, <1>5 DEF IsLeftFold
  <2> QED
    BY <1>1, <2>1
<1>7. iter = [t \in SUBSET (DOMAIN s) |->
                IF t = {} THEN << >> ELSE AddMatching(iter[t \ {Max(t)}], s[Max(t)])]
  BY <1>6
<1>8. FoldLeft(AddMatching, << >>, s) = iter[DOMAIN s]
  BY Zenon DEF FoldLeft, MapThenFoldSet
<1> HIDE DEF iter
<1>9. LeftFoldsIn(iter, n, V, << >>, H)
  <2>1. iter[{}] = << >>
    BY <1>7
  <2>2. ASSUME NEW t \in SUBSET (1 .. n), t # {}, iter[t \ {Max(t)}] \in V
        PROVE  iter[t] = H[<<Max(t), iter[t \ {Max(t)}]>>]
    <3>1. iter[t] = AddMatching(iter[t \ {Max(t)}], s[Max(t)])
      BY <1>1, <1>7, <2>2
    <3>2. Max(t) \in 1 .. n
      BY <1>5, <2>2
    <3> QED
      BY <1>3, <2>2, <3>1, <3>2
  <2> QED
    BY <2>1, <2>2 DEF LeftFoldsIn
<1>10. StepsTo(iter[1 .. n], n, V, << >>, H)
  BY <1>1, <1>3, <1>9, FoldLeftValues
<1> QED
  <2>1. PICK h \in [0 .. n -> V] : Steps(h, n, << >>, H) /\ iter[1 .. n] = h[n]
    BY <1>10 DEF StepsTo
  <2>2. ASSUME NEW k \in 1 .. n PROVE h[k] = AddMatching(h[k - 1], s[k])
    <3>1. h[k - 1] \in V /\ h[k] = H[<<k, h[k - 1]>>]
      BY <1>1, <2>1 DEF Steps
    <3> QED
      BY <1>3, <3>1
  <2>3. h[0] = << >> /\ FoldLeft(AddMatching, << >>, s) = h[n]
    BY <1>1, <1>8, <2>1 DEF Steps
  <2> QED
    BY <2>2, <2>3 DEF n, V

(* The files of a scanned directory that match are files.                  *)
LEMMA MatchingType ==
  ASSUME NEW s \in Seq(Files) PROVE FoldLeft(AddMatching, << >>, s) \in Seq(Files)
<1>1. PICK h \in [0 .. Len(s) -> Seq(Files)] : FoldLeft(AddMatching, << >>, s) = h[Len(s)]
  BY MatchingValues
<1>2. Len(s) \in 0 .. Len(s)
  OBVIOUS
<1> QED
  BY <1>1, <1>2

(* Leaving out what came before does so too.                               *)
LEMMA UnseenValues ==
  ASSUME NEW s \in Seq(Files)
  PROVE  \E h \in [0 .. Len(s) -> Seq(Files)] :
           /\ h[0] = << >>
           /\ \A k \in 1 .. Len(s) : h[k] = AddUnseen(h[k - 1], s[k])
           /\ FoldLeft(AddUnseen, << >>, s) = h[Len(s)]
<1> DEFINE V == Seq(Files)
           n == Len(s)
           H == [x \in (1 .. n) \X V |-> AddUnseen(x[2], s[x[1]])]
           iter == CHOOSE f : f = [t \in SUBSET (DOMAIN s) |->
                     IF t = {} THEN << >> ELSE AddUnseen(f[t \ {Max(t)}], s[Max(t)])]
<1>1. n \in Nat /\ DOMAIN s = 1 .. n /\ << >> \in V
  OBVIOUS
<1>2. \A k \in 1 .. n : \A v \in V : AddUnseen(v, s[k]) \in V
  BY DEF AddUnseen
<1> HIDE DEF V
<1>3. H \in [(1 .. n) \X V -> V] /\ \A k \in 1 .. n, v \in V : H[<<k, v>>] = AddUnseen(v, s[k])
  <2>1. \A x \in (1 .. n) \X V : AddUnseen(x[2], s[x[1]]) \in V
    BY <1>2
  <2> QED
    BY <2>1
<1> HIDE DEF H, n
<1>4. PICK g \in [SUBSET (1 .. n) -> V] : IsLeftFold(g, n, << >>, H)
  BY <1>1, <1>3, FoldLeftExists
<1>5. ASSUME NEW t \in SUBSET (1 .. n), t # {}
      PROVE  Max(t) \in 1 .. n /\ t \ {Max(t)} \in SUBSET (1 .. n)
  BY <1>1, <1>5, MaxOfPrefix
<1>6. g = [t \in SUBSET (DOMAIN s) |->
             IF t = {} THEN << >> ELSE AddUnseen(g[t \ {Max(t)}], s[Max(t)])]
  <2>1. ASSUME NEW t \in SUBSET (1 .. n)
        PROVE  g[t] = IF t = {} THEN << >> ELSE AddUnseen(g[t \ {Max(t)}], s[Max(t)])
    BY <1>3, <1>4, <1>5 DEF IsLeftFold
  <2> QED
    BY <1>1, <2>1
<1>7. iter = [t \in SUBSET (DOMAIN s) |->
                IF t = {} THEN << >> ELSE AddUnseen(iter[t \ {Max(t)}], s[Max(t)])]
  BY <1>6
<1>8. FoldLeft(AddUnseen, << >>, s) = iter[DOMAIN s]
  BY Zenon DEF FoldLeft, MapThenFoldSet
<1> HIDE DEF iter
<1>9. LeftFoldsIn(iter, n, V, << >>, H)
  <2>1. iter[{}] = << >>
    BY <1>7
  <2>2. ASSUME NEW t \in SUBSET (1 .. n), t # {}, iter[t \ {Max(t)}] \in V
        PROVE  iter[t] = H[<<Max(t), iter[t \ {Max(t)}]>>]
    <3>1. iter[t] = AddUnseen(iter[t \ {Max(t)}], s[Max(t)])
      BY <1>1, <1>7, <2>2
    <3>2. Max(t) \in 1 .. n
      BY <1>5, <2>2
    <3> QED
      BY <1>3, <2>2, <3>1, <3>2
  <2> QED
    BY <2>1, <2>2 DEF LeftFoldsIn
<1>10. StepsTo(iter[1 .. n], n, V, << >>, H)
  BY <1>1, <1>3, <1>9, FoldLeftValues
<1> QED
  <2>1. PICK h \in [0 .. n -> V] : Steps(h, n, << >>, H) /\ iter[1 .. n] = h[n]
    BY <1>10 DEF StepsTo
  <2>2. ASSUME NEW k \in 1 .. n PROVE h[k] = AddUnseen(h[k - 1], s[k])
    <3>1. h[k - 1] \in V /\ h[k] = H[<<k, h[k - 1]>>]
      BY <1>1, <2>1 DEF Steps
    <3> QED
      BY <1>3, <3>1
  <2>3. h[0] = << >> /\ FoldLeft(AddUnseen, << >>, s) = h[n]
    BY <1>1, <1>8, <2>1 DEF Steps
  <2> QED
    BY <2>2, <2>3 DEF n, V

(* So are those that are kept of a sequence of files.                      *)
LEMMA UnseenType ==
  ASSUME NEW s \in Seq(Files) PROVE FoldLeft(AddUnseen, << >>, s) \in Seq(Files)
<1>1. PICK h \in [0 .. Len(s) -> Seq(Files)] : FoldLeft(AddUnseen, << >>, s) = h[Len(s)]
  BY UnseenValues
<1>2. Len(s) \in 0 .. Len(s)
  OBVIOUS
<1> QED
  BY <1>1, <1>2

(* What a run is given is a sequence of files.                             *)
LEMMA ExpandFilesType ==
  ASSUME NEW call \in Calls PROVE ExpandFiles(call.args) \in Seq(Files)
<1> DEFINE args == call.args
           V == Seq(Files)
<1>1. args \in Seq(Arg)
  BY ImportAssumption
<1>2. PICK n \in Nat : DOMAIN args = 1 .. n /\ \A i \in 1 .. n : args[i] \in Arg
  BY <1>1
<1>3. ASSUME NEW i \in 1 .. n PROVE Expand(args[i]) \in V
  <2>1. args[i].files \in Seq(Files)
    BY <1>2 DEF Arg
  <2> QED
    BY <2>1, MatchingType DEF Expand
<1>4. [i \in DOMAIN args |-> Expand(args[i])] \in Seq(V)
  <2> HIDE DEF args, V
  <2>1. [i \in 1 .. n |-> Expand(args[i])] \in Seq(V)
    BY <1>3
  <2> QED
    BY <1>2, <2>1
<1>5. FlattenSeq([i \in DOMAIN args |-> Expand(args[i])]) \in Seq(Files)
  BY <1>4, FlattenType
<1> QED
  BY <1>5, UnseenType DEF ExpandFiles

-----------------------------------------------------------------------------
(* The files an argument names: of a directory those whose name matches.   *)
NamedBy(arg) ==
  IF arg.kind = "tree" THEN {f \in Range(arg.files) : Name[f] # "mismatch"}
  ELSE Range(arg.files)

(* out has what the first k of s have, once, in the order in which they    *)
(* come first.                                                             *)
FirstOnes(out, s, k) ==
  /\ Range(out) = {s[i] : i \in 1 .. k}
  /\ \A i, j \in DOMAIN out : out[i] = out[j] => i = j
  /\ \A i, j \in DOMAIN out : i < j =>
       \E p \in 1 .. k : s[p] = out[i] /\ \A q \in 1 .. p : s[q] # out[j]

(* One file more is added at the end of a sequence.                        *)
LEMMA AppendFacts ==
  ASSUME NEW out \in Seq(Files), NEW f \in Files
  PROVE  /\ Append(out, f) \in Seq(Files) /\ Len(out) \in Nat
         /\ DOMAIN out = 1 .. Len(out) /\ DOMAIN Append(out, f) = 1 .. Len(out) + 1
         /\ \A i \in 1 .. Len(out) : Append(out, f)[i] = out[i]
         /\ Append(out, f)[Len(out) + 1] = f
         /\ Range(Append(out, f)) = Range(out) \cup {f}
<1>1. /\ Append(out, f) \in Seq(Files) /\ Len(out) \in Nat
      /\ DOMAIN out = 1 .. Len(out) /\ DOMAIN Append(out, f) = 1 .. Len(out) + 1
      /\ \A i \in 1 .. Len(out) : Append(out, f)[i] = out[i]
      /\ Append(out, f)[Len(out) + 1] = f
  OBVIOUS
<1> DEFINE n == Len(out)
           more == Append(out, f)
<1>2. 1 .. n + 1 = (1 .. n) \cup {n + 1}
  BY <1>1
<1> HIDE DEF more, n
<1>3. \A x : x \in Range(more) <=> x \in Range(out) \/ x = f
  <2>1. \A x : x \in Range(more) <=> \E i \in 1 .. n + 1 : more[i] = x
    BY <1>1, Zenon DEF more, n, Range
  <2>2. \A x : x \in Range(out) <=> \E i \in 1 .. n : out[i] = x
    BY <1>1, Zenon DEF n, Range
  <2>3. (\A i \in 1 .. n : more[i] = out[i]) /\ more[n + 1] = f
    BY <1>1 DEF more, n
  <2> QED
    BY <2>1, <2>2, <2>3, <1>2
<1> QED
  BY <1>1, <1>3 DEF more

(* A step of the loop that leaves out what came before.                    *)
LEMMA FirstOnesGoOn ==
  ASSUME NEW s \in Seq(Files), NEW k \in 1 .. Len(s), NEW out \in Seq(Files),
         FirstOnes(out, s, k - 1)
  PROVE  FirstOnes(AddUnseen(out, s[k]), s, k)
<1> DEFINE f == s[k]
           n == Len(out)
           more == Append(out, f)
<1>1. /\ k \in Nat /\ f \in Files /\ 1 .. k = (1 .. k - 1) \cup {k}
      /\ 1 .. k - 1 \subseteq 1 .. k
  OBVIOUS
<1>2. {s[i] : i \in 1 .. k} = Range(out) \cup {f}
  BY <1>1 DEF FirstOnes
<1>3. CASE f \in Range(out)
  <2>1. Range(out) = {s[i] : i \in 1 .. k}
    BY <1>2, <1>3
  <2>2. AddUnseen(out, f) = out
    BY <1>3 DEF AddUnseen
  <2>3. \A i, j \in DOMAIN out : out[i] = out[j] => i = j
    BY Zenon DEF FirstOnes
  <2>4. ASSUME NEW i \in DOMAIN out, NEW j \in DOMAIN out, i < j
        PROVE  \E p \in 1 .. k : s[p] = out[i] /\ \A q \in 1 .. p : s[q] # out[j]
    <3>1. \E p \in 1 .. k - 1 : s[p] = out[i] /\ \A q \in 1 .. p : s[q] # out[j]
      BY <2>4, Zenon DEF FirstOnes
    <3> QED
      BY <1>1, <3>1
  <2>5. FirstOnes(out, s, k)
    BY <2>1, <2>3, <2>4, Zenon DEF FirstOnes
  <2> QED
    BY <2>2, <2>5
<1>4. CASE f \notin Range(out)
  <2>1. /\ n \in Nat /\ DOMAIN out = 1 .. n /\ DOMAIN more = 1 .. n + 1
        /\ \A i \in 1 .. n : more[i] = out[i]
        /\ more[n + 1] = f /\ Range(more) = Range(out) \cup {f}
    BY <1>1, AppendFacts
  <2>2. AddUnseen(out, f) = more
    BY <1>4 DEF AddUnseen
  <2>3. \A i \in 1 .. n : out[i] \in Range(out)
    BY <2>1 DEF Range
  <2> HIDE DEF more, n, f
  <2>4. ASSUME NEW i \in 1 .. n + 1, NEW j \in 1 .. n + 1, more[i] = more[j] PROVE i = j
    <3>1. CASE i \in 1 .. n /\ j \in 1 .. n
      BY <2>1, <2>4, <3>1 DEF FirstOnes
    <3>2. CASE i = n + 1 \/ j = n + 1
      BY <1>4, <2>1, <2>3, <2>4, <3>2
    <3> QED
      BY <2>1, <3>1, <3>2
  <2>5. ASSUME NEW i \in 1 .. n + 1, NEW j \in 1 .. n + 1, i < j
        PROVE  \E p \in 1 .. k : s[p] = more[i] /\ \A q \in 1 .. p : s[q] # more[j]
    <3>1. i \in 1 .. n /\ more[i] = out[i]
      BY <2>1, <2>5
    <3>2. CASE j \in 1 .. n
      <4>1. \E p \in 1 .. k - 1 : s[p] = out[i] /\ \A q \in 1 .. p : s[q] # out[j]
        BY <2>1, <2>5, <3>1, <3>2 DEF FirstOnes
      <4> QED
        BY <1>1, <2>1, <3>1, <3>2, <4>1
    <3>3. CASE j = n + 1
      <4>1. PICK p \in 1 .. k - 1 : s[p] = out[i]
        BY <2>3, <3>1 DEF FirstOnes
      <4>2. \A q \in 1 .. p : q \in 1 .. k - 1
        BY <1>1, <4>1
      <4>3. \A q \in 1 .. k - 1 : s[q] # f
        BY <1>4 DEF FirstOnes
      <4> QED
        BY <1>1, <2>1, <3>1, <3>3, <4>1, <4>2, <4>3
    <3> QED
      BY <2>1, <3>2, <3>3
  <2>6. Range(more) = {s[i] : i \in 1 .. k}
    BY <1>2, <2>1
  <2>7. FirstOnes(more, s, k)
    <3>1. \A i, j \in DOMAIN more : more[i] = more[j] => i = j
      BY <2>1, <2>4
    <3> DEFINE Before(i, j) ==
                 \E p \in 1 .. k : s[p] = more[i] /\ \A q \in 1 .. p : s[q] # more[j]
    <3>2. \A i, j \in DOMAIN more : i < j => Before(i, j)
      <4>1. \A i, j \in 1 .. n + 1 : i < j => Before(i, j)
        BY <2>5
      <4> HIDE DEF Before
      <4> QED
        BY <2>1, <4>1
    <3> QED
      BY <2>6, <3>1, <3>2, Zenon DEF FirstOnes
  <2> QED
    BY <2>2, <2>7 DEF f
<1> QED
  BY <1>3, <1>4

(* So the loop leaves the files of a sequence, once each.                  *)
LEMMA UnseenMean ==
  ASSUME NEW s \in Seq(Files)
  PROVE  FirstOnes(FoldLeft(AddUnseen, << >>, s), s, Len(s))
<1> DEFINE n == Len(s)
<1>1. PICK h \in [0 .. n -> Seq(Files)] :
        /\ h[0] = << >>
        /\ \A k \in 1 .. n : h[k] = AddUnseen(h[k - 1], s[k])
        /\ FoldLeft(AddUnseen, << >>, s) = h[n]
  BY UnseenValues
<1> DEFINE T == {k \in 0 .. n : FirstOnes(h[k], s, k)}
<1>2. n \in Nat
  OBVIOUS
<1>3. 0 \in T
  <2>1. DOMAIN h[0] = {} /\ Range(h[0]) = {}
    BY <1>1 DEF Range
  <2>2. {s[i] : i \in 1 .. 0} = {}
    OBVIOUS
  <2>3. FirstOnes(h[0], s, 0)
    BY <2>1, <2>2 DEF FirstOnes
  <2> QED
    BY <1>2, <2>3
<1>4. ASSUME NEW k \in 0 .. n - 1, k \in T PROVE k + 1 \in T
  <2>1. /\ k + 1 \in 1 .. n /\ (k + 1) - 1 = k /\ k + 1 \in 0 .. n
        /\ h[k] \in Seq(Files) /\ h[k + 1] = AddUnseen(h[k], s[k + 1])
    BY <1>1, <1>2
  <2>2. FirstOnes(h[k], s, (k + 1) - 1)
    BY <1>4, <2>1
  <2>3. FirstOnes(AddUnseen(h[k], s[k + 1]), s, k + 1)
    BY <2>1, <2>2, FirstOnesGoOn
  <2> QED
    BY <2>1, <2>3
<1>5. \A k \in 0 .. n : k \in T
  <2> HIDE DEF T, n
  <2> QED
    BY <1>2, <1>3, <1>4, UpTo
<1> QED
  BY <1>1, <1>2, <1>5

(* Scanning a directory leaves the files whose name matches.               *)
LEMMA MatchingMean ==
  ASSUME NEW s \in Seq(Files)
  PROVE  Range(FoldLeft(AddMatching, << >>, s)) = {f \in Range(s) : Name[f] # "mismatch"}
<1> DEFINE n == Len(s)
           first(k) == {s[i] : i \in {j \in 1 .. k : Name[s[j]] # "mismatch"}}
<1>1. PICK h \in [0 .. n -> Seq(Files)] :
        /\ h[0] = << >>
        /\ \A k \in 1 .. n : h[k] = AddMatching(h[k - 1], s[k])
        /\ FoldLeft(AddMatching, << >>, s) = h[n]
  BY MatchingValues
<1> DEFINE T == {k \in 0 .. n : Range(h[k]) = first(k)}
<1>2. n \in Nat /\ DOMAIN s = 1 .. n
  OBVIOUS
<1>3. 0 \in T
  <2>1. Range(h[0]) = {}
    BY <1>1 DEF Range
  <2>2. first(0) = {}
    OBVIOUS
  <2> QED
    BY <1>2, <2>1, <2>2
<1>4. ASSUME NEW k \in 0 .. n - 1, k \in T PROVE k + 1 \in T
  <2>1. /\ k + 1 \in 1 .. n /\ (k + 1) - 1 = k /\ k + 1 \in 0 .. n
        /\ h[k] \in Seq(Files) /\ h[k + 1] = AddMatching(h[k], s[k + 1])
        /\ s[k + 1] \in Files /\ 1 .. k + 1 = (1 .. k) \cup {k + 1}
    BY <1>1, <1>2
  <2>2. CASE Name[s[k + 1]] = "mismatch"
    <3>1. h[k + 1] = h[k]
      BY <2>1, <2>2 DEF AddMatching
    <3>2. first(k + 1) = first(k)
      BY <2>1, <2>2
    <3> QED
      BY <1>4, <2>1, <3>1, <3>2
  <2>3. CASE Name[s[k + 1]] # "mismatch"
    <3>1. Range(h[k + 1]) = Range(h[k]) \cup {s[k + 1]}
      BY <2>1, <2>3, AppendFacts DEF AddMatching
    <3>2. first(k + 1) = first(k) \cup {s[k + 1]}
      BY <2>1, <2>3
    <3> QED
      BY <1>4, <2>1, <3>1, <3>2
  <2> QED
    BY <2>2, <2>3
<1>5. \A k \in 0 .. n : k \in T
  <2> HIDE DEF T, n
  <2> QED
    BY <1>2, <1>3, <1>4, UpTo
<1>6. first(n) = {f \in Range(s) : Name[f] # "mismatch"}
  BY <1>2 DEF Range
<1> QED
  BY <1>1, <1>2, <1>5, <1>6

(* A run is given the files its arguments name, each of them once however  *)
(* often and in whatever way it is named, in the order in which they are   *)
(* first met (expand_files: the scan of a directory leaves out what does   *)
(* not match, and "seen" what came before).                                *)
THEOREM FilesAreGivenOnce ==
  ASSUME NEW call \in Calls
  PROVE  LET given == ExpandFiles(call.args)
             met   == FlattenSeq([i \in DOMAIN call.args |-> Expand(call.args[i])])
         IN  /\ Range(given) = UNION {NamedBy(call.args[i]) : i \in DOMAIN call.args}
             /\ \A i, j \in DOMAIN given : given[i] = given[j] => i = j
             /\ \A i, j \in DOMAIN given : i < j =>
                  \E p \in DOMAIN met : met[p] = given[i] /\ \A q \in 1 .. p : met[q] # given[j]
<1> DEFINE args == call.args
           V == Seq(Files)
           parts == [i \in DOMAIN args |-> Expand(args[i])]
           met == FlattenSeq(parts)
           given == ExpandFiles(args)
<1>1. args \in Seq(Arg)
  BY ImportAssumption
<1>2. PICK n \in Nat : n = Len(args) /\ DOMAIN args = 1 .. n /\ \A i \in 1 .. n : args[i] \in Arg
  BY <1>1
<1>3. ASSUME NEW i \in 1 .. n
      PROVE  Expand(args[i]) \in V /\ Range(Expand(args[i])) = NamedBy(args[i])
  <2>1. args[i].files \in Seq(Files)
    BY <1>2 DEF Arg
  <2>2. CASE args[i].kind = "tree"
    <3>1. Expand(args[i]) = FoldLeft(AddMatching, << >>, args[i].files)
      BY <2>2 DEF Expand
    <3>2. NamedBy(args[i]) = {f \in Range(args[i].files) : Name[f] # "mismatch"}
      BY <2>2 DEF NamedBy
    <3> QED
      BY <2>1, <3>1, <3>2, MatchingType, MatchingMean
  <2>3. CASE args[i].kind # "tree"
    BY <2>1, <2>3 DEF Expand, NamedBy
  <2> QED
    BY <2>2, <2>3
<1>4. parts \in Seq(V) /\ Len(parts) = n /\ \A i \in 1 .. n : parts[i] = Expand(args[i])
  <2> HIDE DEF args, V
  <2>1. parts = [i \in 1 .. n |-> Expand(args[i])]
    BY <1>2
  <2>2. [i \in 1 .. n |-> Expand(args[i])] \in Seq(V)
    BY <1>3
  <2> HIDE DEF parts
  <2> QED
    BY <1>2, <2>1, <2>2
<1> HIDE DEF parts
<1>5. met \in Seq(Files)
  BY <1>4, FlattenType
<1>6. Range(met) = UNION {NamedBy(args[i]) : i \in DOMAIN args}
  <2>1. Range(met) = UNION {Range(parts[i]) : i \in 1 .. n}
    BY <1>4, FlattenMean
  <2>2. \A i \in 1 .. n : Range(parts[i]) = NamedBy(args[i])
    BY <1>3, <1>4
  <2> HIDE DEF met, args
  <2>3. {Range(parts[i]) : i \in 1 .. n} = {NamedBy(args[i]) : i \in 1 .. n}
    BY <2>2
  <2> QED
    BY <1>2, <2>1, <2>3
<1>7. given = FoldLeft(AddUnseen, << >>, met)
  BY DEF ExpandFiles, parts
<1> HIDE DEF met, given
<1>8. FirstOnes(given, met, Len(met)) /\ DOMAIN met = 1 .. Len(met)
  BY <1>5, <1>7, UnseenMean
<1>9. Range(given) = Range(met)
  BY <1>8 DEF FirstOnes, Range
<1>10. /\ \A i, j \in DOMAIN given : given[i] = given[j] => i = j
       /\ \A i, j \in DOMAIN given : i < j =>
            \E p \in DOMAIN met : met[p] = given[i] /\ \A q \in 1 .. p : met[q] # given[j]
  <2>1. \A i, j \in DOMAIN given : given[i] = given[j] => i = j
    BY <1>8, Zenon DEF FirstOnes
  <2>2. ASSUME NEW i \in DOMAIN given, NEW j \in DOMAIN given, i < j
        PROVE  \E p \in DOMAIN met : met[p] = given[i] /\ \A q \in 1 .. p : met[q] # given[j]
    <3>1. \E p \in 1 .. Len(met) : met[p] = given[i] /\ \A q \in 1 .. p : met[q] # given[j]
      BY <1>8, <2>2, Zenon DEF FirstOnes
    <3> QED
      BY <1>8, <3>1
  <2> QED
    BY <2>1, <2>2
<1> QED
  BY <1>6, <1>9, <1>10 DEF given, met, parts

-----------------------------------------------------------------------------
(* A sequence of files to do has a first one and others.                   *)
LEMMA FilesLeft ==
  ASSUME NEW q \in Seq(Files)
  PROVE  /\ IsFiniteSet(Range(q)) /\ Range(q) \subseteq Files
         /\ q # << >> => /\ Head(q) \in Files /\ Tail(q) \in Seq(Files)
                         /\ Range(q) = {Head(q)} \cup Range(Tail(q))
<1>1. PICK n \in Nat : n = Len(q) /\ DOMAIN q = 1 .. n
  OBVIOUS
<1>2. IsFiniteSet(Range(q))
  <2>1. IsFiniteSet(1 .. n)
    BY FS_Interval
  <2>2. q \in Surjection(1 .. n, Range(q))
    BY <1>1 DEF Surjection, Range
  <2> QED
    BY <2>1, <2>2, FS_Surjection
<1>3. Range(q) \subseteq Files
  BY <1>1 DEF Range
<1>4. ASSUME q # << >>
      PROVE  /\ Head(q) \in Files /\ Tail(q) \in Seq(Files)
             /\ Range(q) = {Head(q)} \cup Range(Tail(q))
  <2>1. n >= 1 /\ Head(q) = q[1] /\ Head(q) \in Files
    BY <1>1, <1>4
  <2>2. /\ Tail(q) \in Seq(Files) /\ DOMAIN Tail(q) = 1 .. n - 1
        /\ \A i \in 1 .. n - 1 : Tail(q)[i] = q[i + 1]
    BY <1>1, <1>4
  <2>3. Range(Tail(q)) = {q[i] : i \in 2 .. n}
    <3>1. \A i \in 2 .. n : i - 1 \in 1 .. n - 1 /\ (i - 1) + 1 = i
      BY <2>1
    <3>2. \A i \in 1 .. n - 1 : i + 1 \in 2 .. n
      BY <2>1
    <3> HIDE DEF Range
    <3>3. Range(Tail(q)) = {Tail(q)[i] : i \in 1 .. n - 1}
      BY <2>2 DEF Range
    <3>4. ASSUME NEW i \in 2 .. n PROVE \E j \in 1 .. n - 1 : Tail(q)[j] = q[i]
      BY <2>2, <3>1
    <3>5. ASSUME NEW j \in 1 .. n - 1 PROVE \E i \in 2 .. n : Tail(q)[j] = q[i]
      BY <2>2, <3>2
    <3>6. \A x : x \in {Tail(q)[i] : i \in 1 .. n - 1} => x \in {q[i] : i \in 2 .. n}
      BY <3>5, Zenon
    <3>7. \A x : x \in {q[i] : i \in 2 .. n} => x \in {Tail(q)[i] : i \in 1 .. n - 1}
      BY <3>4, Zenon
    <3> QED
      BY <3>3, <3>6, <3>7, Zenon
  <2>4. Range(q) = {q[1]} \cup {q[i] : i \in 2 .. n}
    BY <1>1, <2>1 DEF Range
  <2> QED
    BY <2>1, <2>2, <2>3, <2>4
<1> QED
  BY <1>2, <1>3, <1>4

-----------------------------------------------------------------------------
(* Runs and their files.                                                   *)

RunType ==
  [at : {"idle", "dry", "file", "insert", "rollback", "commit"},
   given : Seq(Files), todo : Seq(Files), left : SUBSET Nat, rowcount : Nat,
   inserted : Nat, txn : SUBSET Row, alive : BOOLEAN, errors : Nat,
   exit : {"none", "clean", "errors", "aborted", "dry"}]

(* What is not in the table d of the files that a run is through with.     *)
MissingIn(f, d) ==
  /\ Name[f] # "mismatch"
  /\ ReadError(f) \/ ~(KeysOf(RowsOf(f)) \subseteq KeysOf(d))
Lost(r, d) == {f \in Range(r.given) : f \notin Range(r.todo) /\ MissingIn(f, d)}

(* A run has counted an error for each of them, until it is aborted, and   *)
(* one that reaches the summary is through with all its files.  It inserts *)
(* from a file that it could read.                                         *)
Through(r, d) ==
  /\ r \in RunType
  /\ r.at \in {"insert", "rollback", "commit"} => r.todo # << >>
  /\ r.at = "insert" => r.left # {}
  /\ Inserting(r) => ~ReadError(Head(r.todo))
  /\ r.at \in {"file", "insert", "rollback", "commit"}
       \/ r.exit \in {"clean", "errors"} => Cardinality(Lost(r, d)) <= r.errors
  /\ r.at # "idle" => r.exit = "none"
  /\ r.exit \in {"clean", "errors"} => r.todo = << >>

Counts == reported \in Nat /\ starts \in Nat /\ faults \in Nat /\ up \in BOOLEAN

ThroughInv ==
  /\ run \in [Importers -> RunType]
  /\ \A p \in Importers : Through(run[p], db)
  /\ db \subseteq Row
  /\ Counts

(* What a file gives.                                                      *)
LEMMA FileFacts ==
  ASSUME NEW f \in Files
  PROVE  Loading(f) \subseteq Nat /\ \A i \in Loading(f) : RowAt(f, i) \in Row
<1>1. Lines[f] \in Seq(Line)
  BY ImportAssumption
<1>2. \A i \in DOMAIN Lines[f] : Lines[f][i] \in Line /\ i \in Nat
  BY <1>1
<1>3. Loading(f) \subseteq DOMAIN Lines[f]
  BY DEF Loading
<1>4. \A i \in DOMAIN Lines[f] : Lines[f][i].key \in STRING
  BY <1>2 DEF Line
<1> QED
  BY <1>2, <1>3, <1>4 DEF RowAt, Row

(* A file is lost only once, and a larger table has lost no more.          *)
LEMMA LostFacts ==
  ASSUME NEW r \in RunType, NEW d
  PROVE  /\ IsFiniteSet(Lost(r, d)) /\ Cardinality(Lost(r, d)) \in Nat
         /\ \A e : d \subseteq e => /\ Lost(r, e) \subseteq Lost(r, d)
                                    /\ Cardinality(Lost(r, e)) <= Cardinality(Lost(r, d))
<1>1. r.given \in Seq(Files)
  BY DEF RunType
<1>2. IsFiniteSet(Range(r.given))
  BY <1>1, FilesLeft
<1>3. \A e : IsFiniteSet(Lost(r, e)) /\ Cardinality(Lost(r, e)) \in Nat
  <2>1. \A e : Lost(r, e) \in SUBSET Range(r.given)
    BY DEF Lost
  <2> QED
    BY <1>2, <2>1, FS_Subset, FS_CardinalityType
<1>4. ASSUME NEW e, d \subseteq e PROVE Lost(r, e) \subseteq Lost(r, d)
  <2>1. KeysOf(d) \subseteq KeysOf(e)
    BY <1>4 DEF KeysOf
  <2>2. \A f : MissingIn(f, e) => MissingIn(f, d)
    BY <2>1 DEF MissingIn
  <2> QED
    BY <2>2 DEF Lost
<1>5. ASSUME NEW e, d \subseteq e PROVE Cardinality(Lost(r, e)) <= Cardinality(Lost(r, d))
  <2>1. Lost(r, e) \in SUBSET Lost(r, d)
    BY <1>4, <1>5
  <2> QED
    BY <1>3, <2>1, FS_Subset
<1> QED
  BY <1>3, <1>4, <1>5

(* A run stays through with its files when others add to the table.        *)
LEMMA ThroughWithMore ==
  ASSUME NEW r, NEW d, NEW e, Through(r, d), d \subseteq e PROVE Through(r, e)
<1>1. /\ r.errors \in Nat /\ Cardinality(Lost(r, d)) \in Nat
      /\ Cardinality(Lost(r, e)) \in Nat
      /\ Cardinality(Lost(r, e)) <= Cardinality(Lost(r, d))
  BY LostFacts DEF Through, RunType
<1>2. Cardinality(Lost(r, d)) <= r.errors => Cardinality(Lost(r, e)) <= r.errors
  BY <1>1
<1> QED
  BY <1>2 DEF Through

(* Leaving a file behind: it is stored, or skipped, or counted.            *)
LEMMA OneFileMore ==
  ASSUME NEW r, NEW d, Through(r, d), r.at \in {"file", "insert", "rollback", "commit"},
         r.todo # << >>
  PROVE  /\ Through(FileError(r), d)
         /\ ~MissingIn(Head(r.todo), d) => Through(NextFile(r), d)
<1> DEFINE s == NextFile(r)
           t == FileError(r)
           f == Head(r.todo)
<1>1. /\ r \in RunType /\ r.todo \in Seq(Files) /\ r.errors \in Nat
      /\ Cardinality(Lost(r, d)) <= r.errors
      /\ r.exit = "none"
  BY DEF Through, RunType
<1>2. Tail(r.todo) \in Seq(Files) /\ Range(r.todo) = {f} \cup Range(Tail(r.todo))
  BY <1>1, FilesLeft
<1>3. /\ s \in RunType /\ s.at = "file" /\ s.given = r.given
      /\ s.todo = Tail(r.todo) /\ s.errors = r.errors /\ s.exit = "none"
  BY <1>1, <1>2 DEF RunType, NextFile
<1>4. /\ t \in RunType /\ t.at = "file" /\ t.given = r.given
      /\ t.todo = Tail(r.todo) /\ t.errors = r.errors + 1 /\ t.exit = "none"
  <2> HIDE DEF s
  <2>1. t = [s EXCEPT !.errors = @ + 1]
    BY DEF FileError, s
  <2> HIDE DEF t
  <2>2. s.errors + 1 \in Nat
    BY <1>1, <1>3
  <2>3. t \in RunType
    BY <1>3, <2>1, <2>2 DEF RunType
  <2>4. /\ t.at = s.at /\ t.given = s.given /\ t.todo = s.todo /\ t.exit = s.exit
        /\ t.errors = s.errors + 1
    BY <1>3, <2>1 DEF RunType
  <2> QED
    BY <1>3, <2>3, <2>4
<1> HIDE DEF s, t
<1>5. /\ Lost(s, d) \subseteq Lost(r, d) \cup {f} /\ Lost(t, d) = Lost(s, d)
      /\ ~MissingIn(f, d) => Lost(s, d) \subseteq Lost(r, d)
  BY <1>2, <1>3, <1>4 DEF Lost
<1>6. /\ IsFiniteSet(Lost(r, d)) /\ Cardinality(Lost(r, d)) \in Nat
      /\ Cardinality(Lost(s, d)) \in Nat
  BY <1>1, <1>3, LostFacts
<1>7. Cardinality(Lost(s, d)) <= r.errors + 1
  <2>1. /\ IsFiniteSet(Lost(r, d) \cup {f})
        /\ Cardinality(Lost(r, d) \cup {f}) <= Cardinality(Lost(r, d)) + 1
        /\ Cardinality(Lost(r, d) \cup {f}) \in Nat
    <3>1. /\ IsFiniteSet(Lost(r, d) \cup {f})
          /\ \/ Cardinality(Lost(r, d) \cup {f}) = Cardinality(Lost(r, d))
             \/ Cardinality(Lost(r, d) \cup {f}) = Cardinality(Lost(r, d)) + 1
      BY <1>6, FS_AddElement
    <3> QED
      BY <1>6, <3>1
  <2>2. Cardinality(Lost(s, d)) <= Cardinality(Lost(r, d) \cup {f})
    BY <1>5, <2>1, FS_Subset
  <2> QED
    BY <1>1, <1>6, <2>1, <2>2
<1>8. ~MissingIn(f, d) => Cardinality(Lost(s, d)) <= r.errors
  <2>1. ~MissingIn(f, d) => Cardinality(Lost(s, d)) <= Cardinality(Lost(r, d))
    BY <1>5, <1>6, FS_Subset
  <2> QED
    BY <1>1, <1>6, <2>1
<1>9. Through(t, d)
  BY <1>4, <1>5, <1>7 DEF Through, Inserting
<1>10. ~MissingIn(f, d) => Through(s, d)
  BY <1>3, <1>8 DEF Through, Inserting
<1> QED
  BY <1>9, <1>10 DEF s, t

(* An aborted or a dry run promises nothing; a finished one is at its end. *)
LEMMA EndOfRun ==
  ASSUME NEW r, NEW d, Through(r, d)
  PROVE  /\ \A how \in {"aborted", "dry"} : Through(Ended(r, how), d)
         /\ r.at = "file" /\ r.todo = << >> =>
              \A how \in {"clean", "errors"} : Through(Ended(r, how), d)
<1>1. ASSUME NEW how \in {"clean", "errors", "aborted", "dry"}
      PROVE  /\ Ended(r, how) \in RunType
             /\ Ended(r, how).at = "idle" /\ Ended(r, how).exit = how
             /\ Ended(r, how).todo = r.todo /\ Ended(r, how).errors = r.errors
             /\ Lost(Ended(r, how), d) = Lost(r, d)
  <2>1. /\ Ended(r, how) \in RunType
        /\ Ended(r, how).at = "idle" /\ Ended(r, how).exit = how
        /\ Ended(r, how).todo = r.todo /\ Ended(r, how).errors = r.errors
        /\ Ended(r, how).given = r.given
    BY DEF Through, RunType, Ended
  <2> QED
    BY <2>1 DEF Lost
<1> QED
  BY <1>1 DEF Through, Inserting

(* A step of one importer that leaves it through with its files, and takes *)
(* nothing from the table, keeps the invariant.                            *)
LEMMA ThroughStep ==
  ASSUME ThroughInv, NEW p \in Importers, NEW r, Set(p, r), Through(r, db'),
         db \subseteq db', db' \subseteq Row, Counts'
  PROVE  ThroughInv'
<1>1. run \in [Importers -> RunType] /\ r \in RunType
  BY DEF ThroughInv, Through
<1>2. /\ run' \in [Importers -> RunType]
      /\ run'[p] = r /\ \A q \in Importers : q # p => run'[q] = run[q]
  BY <1>1 DEF Set
<1>3. \A q \in Importers : Through(run'[q], db')
  BY <1>2, ThroughWithMore DEF ThroughInv
<1> QED
  BY <1>2, <1>3 DEF ThroughInv

(* The counters of every step.                                             *)
LEMMA CountsStep ==
  ASSUME ThroughInv, Next
  PROVE  starts' \in Nat /\ faults' \in Nat /\ up' \in BOOLEAN
<1>1. starts \in Nat /\ faults \in Nat /\ up \in BOOLEAN
  BY DEF ThroughInv, Counts
<1> DEFINE Moved == /\ starts' \in {starts, starts + 1} /\ faults' \in {faults, faults + 1}
                    /\ up' \in {up, TRUE, FALSE}
<1>2. Moved
  <2>1. ASSUME NEW p \in Importers, Start(p) PROVE Moved
    BY <2>1 DEF Start
  <2>2. ASSUME NEW p \in Importers, DryFile(p) PROVE Moved
    BY <2>2 DEF DryFile
  <2>3. ASSUME NEW p \in Importers, OpenFile(p) PROVE Moved
    BY <2>3 DEF OpenFile
  <2>4. ASSUME NEW p \in Importers, InsertRow(p) PROVE Moved
    BY <2>4 DEF InsertRow
  <2>5. ASSUME NEW p \in Importers, StatementFails(p) PROVE Moved
    BY <2>5 DEF StatementFails, Fault
  <2>6. ASSUME NEW p \in Importers, Rollback(p) PROVE Moved
    BY <2>6 DEF Rollback
  <2>7. ASSUME NEW p \in Importers, Commit(p) PROVE Moved
    BY <2>7 DEF Commit
  <2>8. ASSUME NEW p \in Importers, CommitFails(p) PROVE Moved
    BY <2>8 DEF CommitFails, Fault
  <2>9. ASSUME NEW p \in Importers, Finish(p) PROVE Moved
    BY <2>9 DEF Finish
  <2>10. ASSUME NEW p \in Importers, Kill(p) PROVE Moved
    BY <2>10 DEF Kill, Fault
  <2>11. ASSUME ServerDown \/ ServerUp \/ Quiet PROVE Moved
    BY <2>11 DEF ServerDown, ServerUp, Quiet, Fault, vars
  <2> HIDE DEF Moved
  <2> QED
    BY <2>1, <2>2, <2>3, <2>4, <2>5, <2>6, <2>7, <2>8, <2>9, <2>10, <2>11
       DEF Next, Step
<1>3. starts' \in Nat /\ faults' \in Nat
  BY <1>1, <1>2
<1>4. up' \in BOOLEAN
  BY <1>1, <1>2, Zenon
<1> QED
  BY <1>3, <1>4

(* A run begins with all its files before it.                              *)
LEMMA StartThrough ==
  ASSUME ThroughInv, NEW p \in Importers, Start(p) PROVE ThroughInv'
<1>1. PICK call \in Calls :
        LET files == ExpandFiles(call.args)
            r == [NewRun EXCEPT !.given = files, !.todo = files]
        IN  Set(p, IF files = << >> \/ (~call.dry /\ ~up) THEN Ended(r, "aborted")
                   ELSE [r EXCEPT !.at = IF call.dry THEN "dry" ELSE "file"])
  BY DEF Start
<1> DEFINE files == ExpandFiles(call.args)
           r == [NewRun EXCEPT !.given = files, !.todo = files]
           s == [r EXCEPT !.at = IF call.dry THEN "dry" ELSE "file"]
<1>2. files \in Seq(Files)
  BY ExpandFilesType
<1>3. /\ r \in RunType /\ r.at = "idle" /\ r.exit = "none"
      /\ r.given = files /\ r.todo = files /\ r.errors = 0
  <2> HIDE DEF files
  <2> QED
    BY <1>2 DEF NewRun, RunType
<1> HIDE DEF r
<1>4. Through(r, db)
  BY <1>3 DEF Through, Inserting
<1>5. /\ s \in RunType /\ s.at \in {"dry", "file"} /\ s.exit = "none"
      /\ s.given = files /\ s.todo = files /\ s.errors = 0
  <2> HIDE DEF files
  <2> QED
    BY <1>3 DEF RunType
<1> HIDE DEF s, files
<1>6. Through(s, db)
  <2>1. Lost(s, db) = {}
    BY <1>5 DEF Lost
  <2>2. Cardinality(Lost(s, db)) <= s.errors
    BY <1>5, <2>1, FS_EmptySet
  <2> QED
    BY <1>5, <2>2 DEF Through, Inserting
<1>7. Through(Ended(r, "aborted"), db)
  BY <1>4, EndOfRun
<1>8. UNCHANGED <<db, reported>> /\ Counts' /\ db \subseteq Row
  BY CountsStep DEF Start, Next, ThroughInv, Counts
<1>9. Set(p, Ended(r, "aborted")) \/ Set(p, s)
  BY <1>1 DEF r, s, files
<1> QED
  BY <1>6, <1>7, <1>8, <1>9, ThroughStep

(* A dry run goes through its files, or gives up.                          *)
LEMMA DryFileThrough ==
  ASSUME ThroughInv, NEW p \in Importers, DryFile(p) PROVE ThroughInv'
<1> DEFINE r == run[p]
           s == [r EXCEPT !.todo = Tail(@)]
<1>1. Through(r, db) /\ r \in RunType /\ r.at = "dry" /\ r.exit = "none"
  BY DEF ThroughInv, DryFile, At, Through
<1>2. \/ Set(p, Ended(r, "dry")) \/ Set(p, Ended(r, "aborted"))
      \/ r.todo # << >> /\ Set(p, s)
  BY DEF DryFile
<1>3. UNCHANGED <<db, reported>> /\ Counts' /\ db \subseteq Row
  BY CountsStep DEF DryFile, Next, Step, ThroughInv, Counts
<1>4. ASSUME r.todo # << >> PROVE Through(s, db)
  <2>1. Tail(r.todo) \in Seq(Files)
    BY <1>1, <1>4, FilesLeft DEF RunType
  <2>2. s \in RunType /\ s.at = "dry" /\ s.exit = "none"
    BY <1>1, <2>1 DEF RunType
  <2> HIDE DEF s
  <2> QED
    BY <2>2 DEF Through, Inserting
<1> HIDE DEF s
<1> QED
  BY <1>1, <1>2, <1>3, <1>4, EndOfRun, ThroughStep

(* A file is skipped, or counted, or read.                                 *)
LEMMA OpenFileThrough ==
  ASSUME ThroughInv, NEW p \in Importers, OpenFile(p) PROVE ThroughInv'
<1> DEFINE r == run[p]
           f == Head(r.todo)
           s == [r EXCEPT !.at = FirstStep(Loading(f)), !.left = Loading(f),
                          !.rowcount = 0, !.inserted = 0]
<1>1. Through(r, db) /\ r \in RunType /\ r.at = "file" /\ r.exit = "none" /\ r.todo # << >>
  BY DEF ThroughInv, OpenFile, At, Through
<1>2. \/ Name[f] = "mismatch" /\ Set(p, NextFile(r))
      \/ Set(p, FileError(r))
      \/ ~ReadError(f) /\ Set(p, s)
  BY DEF OpenFile
<1>3. UNCHANGED <<db, reported>> /\ Counts' /\ db \subseteq Row
  BY CountsStep DEF OpenFile, Next, Step, ThroughInv, Counts
<1>4. ASSUME ~ReadError(f) PROVE Through(s, db)
  <2>1. f \in Files
    BY <1>1, FilesLeft DEF RunType
  <2>2. Loading(f) \in SUBSET Nat
    BY <2>1, FileFacts
  <2>3. FirstStep(Loading(f)) = IF Loading(f) = {} THEN "commit" ELSE "insert"
    BY DEF FirstStep
  <2>4. /\ s \in RunType /\ s.at = FirstStep(Loading(f)) /\ s.left = Loading(f)
        /\ s.given = r.given /\ s.todo = r.todo /\ s.exit = r.exit /\ s.errors = r.errors
    BY <1>1, <2>2, <2>3 DEF RunType
  <2> HIDE DEF s
  <2>5. Lost(s, db) = Lost(r, db)
    BY <2>4 DEF Lost
  <2> QED
    BY <1>1, <1>4, <2>3, <2>4, <2>5 DEF Through, Inserting
<1>5. Name[f] = "mismatch" => ~MissingIn(f, db)
  BY DEF MissingIn
<1> HIDE DEF s
<1>6. \/ Set(p, NextFile(r)) /\ Through(NextFile(r), db)
      \/ Set(p, FileError(r)) /\ Through(FileError(r), db)
      \/ Set(p, s) /\ Through(s, db)
  BY <1>1, <1>2, <1>4, <1>5, OneFileMore
<1> HIDE DEF r, f
<1> QED
  BY <1>3, <1>6, ThroughStep DEF r

(* The rows of the file are inserted until none is left.                   *)
LEMMA InsertRowThrough ==
  ASSUME ImportInv, ThroughInv, NEW p \in Importers, InsertRow(p) PROVE ThroughInv'
<1> DEFINE r == run[p]
           After(i, k, m, t) ==
             [r EXCEPT !.txn = t, !.left = r.left \ {i}, !.rowcount = k, !.inserted = m,
                       !.at = IF r.left \ {i} = {} THEN "commit" ELSE @]
<1>1. Through(r, db) /\ r \in RunType /\ r.at = "insert" /\ r.exit = "none" /\ r.todo # << >>
  BY DEF ThroughInv, InsertRow, At, Through
<1>2. PICK i \in r.left :
        LET row  == RowAt(File(p), i)
            rest == r.left \ {i}
            new  == IsNew(p, row)
            n    == r.rowcount + (IF new THEN 1 ELSE 0)
            ends == rest = {} \/ Cardinality(Loading(File(p)) \ rest) % Chunk = 0
        IN  Set(p, [r EXCEPT !.txn = IF new THEN @ \cup {row} ELSE @,
                             !.left = rest,
                             !.rowcount = IF ends THEN 0 ELSE n,
                             !.inserted = IF ends THEN CountChunk(@, n) ELSE @,
                             !.at = IF rest = {} THEN "commit" ELSE @])
  BY DEF InsertRow
<1> DEFINE row == RowAt(Head(r.todo), i)
           n(new) == r.rowcount + (IF new THEN 1 ELSE 0)
<1>3. r.rowcount \in Nat /\ r.inserted \in Nat /\ r.txn \subseteq Row
  BY <1>1 DEF RunType
<1>4. row \in Row
  <2>1. Head(r.todo) \in Files
    BY <1>1, FilesLeft DEF RunType
  <2>2. i \in Loading(Head(r.todo))
    BY <1>1 DEF ImportInv, Own, Inserting
  <2> QED
    BY <2>1, <2>2, FileFacts
<1>5. \E k \in Nat, m \in Nat, t \in SUBSET Row : Set(p, After(i, k, m, t))
  <2> DEFINE new  == IsNew(p, row)
             ends == r.left \ {i} = {}
                       \/ Cardinality(Loading(Head(r.todo)) \ (r.left \ {i})) % Chunk = 0
             t == IF new THEN r.txn \cup {row} ELSE r.txn
             k == IF ends THEN 0 ELSE r.rowcount + (IF new THEN 1 ELSE 0)
             m == IF ends THEN r.inserted + (r.rowcount + (IF new THEN 1 ELSE 0))
                  ELSE r.inserted
  <2>1. Set(p, After(i, k, m, t))
    BY <1>2 DEF File, CountChunk
  <2>2. t \in SUBSET Row
    BY <1>3, <1>4
  <2>3. k \in Nat /\ m \in Nat
    BY <1>3
  <2> HIDE DEF t, k, m, After
  <2> QED
    BY <2>1, <2>2, <2>3
<1>6. PICK k \in Nat, m \in Nat, t \in SUBSET Row : Set(p, After(i, k, m, t))
  BY <1>5
<1> DEFINE s == After(i, k, m, t)
<1>7. UNCHANGED <<db, reported>> /\ Counts' /\ db \subseteq Row
  BY CountsStep DEF InsertRow, TableMeanwhile, Next, Step, ThroughInv, Counts
<1>8. /\ s \in RunType /\ s.left = r.left \ {i}
      /\ s.at = IF s.left = {} THEN "commit" ELSE "insert"
      /\ s.given = r.given /\ s.todo = r.todo /\ s.exit = r.exit /\ s.errors = r.errors
  <2> HIDE DEF r
  <2> QED
    BY <1>1 DEF RunType
<1>9. Set(p, s)
  BY <1>6
<1> HIDE DEF s, After
<1>10. Lost(s, db) = Lost(r, db)
  BY <1>8 DEF Lost
<1>11. Through(s, db)
  <2> HIDE DEF r
  <2> QED
    BY <1>1, <1>8, <1>10 DEF Through, Inserting
<1> QED
  BY <1>7, <1>9, <1>11, ThroughStep

(* A statement fails; the file is not given up yet.                        *)
LEMMA StatementFailsThrough ==
  ASSUME ThroughInv, NEW p \in Importers, StatementFails(p) PROVE ThroughInv'
<1> DEFINE r == run[p]
           s == [r EXCEPT !.at = "rollback", !.txn = {}]
<1>1. Through(r, db) /\ r \in RunType /\ r.at = "insert" /\ r.exit = "none" /\ r.todo # << >>
  BY DEF ThroughInv, StatementFails, At, Through
<1>2. Set(p, s)
  BY DEF StatementFails
<1>3. UNCHANGED <<db, reported>> /\ Counts' /\ db \subseteq Row
  BY CountsStep DEF StatementFails, Next, Step, ThroughInv, Counts
<1>4. /\ s \in RunType /\ s.at = "rollback" /\ s.given = r.given /\ s.todo = r.todo
      /\ s.exit = r.exit /\ s.errors = r.errors
  BY <1>1 DEF RunType
<1> HIDE DEF s
<1>5. Lost(s, db) = Lost(r, db)
  BY <1>4 DEF Lost
<1>6. Through(s, db)
  BY <1>1, <1>4, <1>5 DEF Through, Inserting
<1> QED
  BY <1>2, <1>3, <1>6, ThroughStep

(* A file that was rolled back is counted; the end of the loop, a lost     *)
(* connection and a kill end the run.                                      *)
LEMMA EndsThrough ==
  ASSUME ThroughInv, NEW p \in Importers, Rollback(p) \/ Finish(p) \/ Kill(p)
  PROVE  ThroughInv'
<1> DEFINE r == run[p]
<1>1. Through(r, db)
  BY DEF ThroughInv
<1>2. UNCHANGED <<db, reported>> /\ Counts' /\ db \subseteq Row
  BY CountsStep DEF Rollback, Finish, Kill, Next, Step, ThroughInv, Counts
<1>3. CASE Rollback(p)
  <2>1. r.at = "rollback" /\ (Set(p, FileError(r)) \/ Set(p, Ended(r, "aborted")))
    BY <1>3 DEF Rollback, At
  <2>2. r.todo # << >>
    BY <1>1, <2>1 DEF Through
  <2>3. Through(FileError(r), db) /\ Through(Ended(r, "aborted"), db)
    BY <1>1, <2>1, <2>2, OneFileMore, EndOfRun
  <2> QED
    BY <1>2, <2>1, <2>3, ThroughStep
<1>4. CASE Finish(p)
  <2>1. /\ r.at = "file" /\ r.todo = << >>
        /\ Set(p, Ended(r, "clean")) \/ Set(p, Ended(r, "errors"))
    BY <1>4 DEF Finish, At
  <2>2. Through(Ended(r, "clean"), db) /\ Through(Ended(r, "errors"), db)
    BY <1>1, <2>1, EndOfRun
  <2> QED
    BY <1>2, <2>1, <2>2, ThroughStep
<1>5. CASE Kill(p)
  <2>1. Set(p, Ended(r, "aborted"))
    BY <1>5 DEF Kill
  <2>2. Through(Ended(r, "aborted"), db)
    BY <1>1, EndOfRun
  <2> QED
    BY <1>2, <2>1, <2>2, ThroughStep
<1> QED
  BY <1>3, <1>4, <1>5

(* What is committed is the whole file.                                    *)
LEMMA CommitsThrough ==
  ASSUME ImportInv, ThroughInv, NEW p \in Importers, Commit(p) \/ CommitFails(p)
  PROVE  ThroughInv'
<1> DEFINE r == run[p]
           f == Head(r.todo)
<1>1. Through(r, db) /\ r \in RunType /\ r.at = "commit" /\ r.todo # << >> /\ Own(r, db)
  BY DEF ThroughInv, ImportInv, Commit, CommitFails, At, Through
<1>2. r.txn \subseteq Row /\ r.inserted \in Nat
  BY <1>1 DEF RunType
<1>3. db' = db \cup r.txn \/ db' = db
  BY DEF Commit, CommitFails
<1>4. db \subseteq db' /\ db' \subseteq Row
  BY <1>2, <1>3 DEF ThroughInv
<1>5. Through(r, db')
  BY <1>1, <1>4, ThroughWithMore
<1>6. Counts'
  <2>1. reported' \in {reported, reported + r.inserted}
    BY DEF Commit, CommitFails
  <2>2. reported' \in Nat
    BY <1>2, <2>1 DEF ThroughInv, Counts
  <2> QED
    BY <2>2, CountsStep DEF Next, Step, Counts
<1>7. CASE Commit(p)
  <2>1. Set(p, NextFile(r)) /\ db' = db \cup r.txn /\ (r.alive \/ Loading(f) = {})
    BY <1>7 DEF Commit, File
  <2>2. KeysOf(RowsOf(f)) \subseteq KeysOf(db')
    <3>1. CASE r.alive
      <4>1. Passed(r) = RowsOf(f)
        BY <1>1 DEF Own, Passed, RowsOf
      <4> QED
        BY <1>1, <2>1, <3>1, <4>1 DEF Own, Inserting
    <3>2. CASE Loading(f) = {}
      BY <3>2 DEF RowsOf, KeysOf
    <3> QED
      BY <2>1, <3>1, <3>2
  <2>3. ~MissingIn(f, db')
    BY <1>1, <2>2 DEF MissingIn, Through, Inserting
  <2>4. Through(NextFile(r), db')
    BY <1>1, <1>5, <2>3, OneFileMore
  <2> QED
    BY <1>4, <1>6, <2>1, <2>4, ThroughStep
<1>8. CASE CommitFails(p)
  <2>1. Set(p, Ended(r, "aborted"))
    BY <1>8 DEF CommitFails
  <2>2. Through(Ended(r, "aborted"), db')
    BY <1>5, EndOfRun
  <2> QED
    BY <1>4, <1>6, <2>1, <2>2, ThroughStep
<1> QED
  BY <1>7, <1>8

(* A stop of the server costs transactions, not files.                     *)
LEMMA ServerDownThrough == ASSUME ThroughInv, ServerDown PROVE ThroughInv'
<1> DEFINE s(p) == [run[p] EXCEPT !.alive = FALSE, !.txn = {}]
<1>1. run' = [p \in Importers |-> s(p)] /\ UNCHANGED <<db, reported>>
  BY DEF ServerDown
<1>2. ASSUME NEW p \in Importers PROVE s(p) \in RunType /\ Through(s(p), db)
  <2> DEFINE r == run[p]
  <2>1. Through(r, db) /\ r \in RunType
    BY DEF ThroughInv, Through
  <2>2. /\ s(p) \in RunType /\ s(p).at = r.at /\ s(p).given = r.given
        /\ s(p).todo = r.todo /\ s(p).left = r.left
        /\ s(p).exit = r.exit /\ s(p).errors = r.errors
    BY <2>1 DEF RunType
  <2> HIDE DEF s
  <2>3. Lost(s(p), db) = Lost(r, db)
    BY <2>2 DEF Lost
  <2> QED
    BY <2>1, <2>2, <2>3 DEF Through, Inserting
<1>3. Counts' /\ db \subseteq Row
  BY <1>1, CountsStep DEF Next, ThroughInv, Counts
<1> HIDE DEF s
<1> QED
  BY <1>1, <1>2, <1>3 DEF ThroughInv

(* At first no importer runs.                                              *)
LEMMA ThroughInit == Init => ThroughInv
<1> SUFFICES ASSUME Init PROVE ThroughInv
  OBVIOUS
<1>1. << >> \in Seq(Files)
  OBVIOUS
<1>2. /\ NewRun \in RunType /\ NewRun.at = "idle" /\ NewRun.exit = "none"
  BY <1>1 DEF NewRun, RunType
<1>3. Through(NewRun, {})
  BY <1>2 DEF Through, Inserting
<1>4. up \in BOOLEAN /\ reported \in Nat /\ starts \in Nat /\ faults \in Nat
  BY DEF Init
<1> QED
  BY <1>2, <1>3, <1>4 DEF Init, ThroughInv, Counts

(* Every step keeps the invariant.                                         *)
LEMMA ThroughNext == ImportInv /\ ThroughInv /\ [Next]_vars => ThroughInv'
<1> SUFFICES ASSUME ImportInv, ThroughInv, [Next]_vars PROVE ThroughInv'
  OBVIOUS
<1>1. CASE \E p \in Importers : Start(p) \/ DryFile(p) \/ OpenFile(p)
  BY <1>1, StartThrough, DryFileThrough, OpenFileThrough
<1>2. CASE \E p \in Importers : InsertRow(p) \/ StatementFails(p)
  BY <1>2, InsertRowThrough, StatementFailsThrough
<1>3. CASE \E p \in Importers : Commit(p) \/ CommitFails(p)
  BY <1>3, CommitsThrough
<1>4. CASE \E p \in Importers : Rollback(p) \/ Finish(p) \/ Kill(p)
  BY <1>4, EndsThrough
<1>5. CASE ServerDown
  BY <1>5, ServerDownThrough
<1>6. CASE ServerUp \/ Quiet \/ UNCHANGED vars
  BY <1>6 DEF ServerUp, Quiet, vars, ThroughInv, Counts
<1> QED
  BY <1>1, <1>2, <1>3, <1>4, <1>5, <1>6 DEF Next, Step

(* So both invariants always hold.                                         *)
LEMMA ThroughAlways == Spec => [](ImportInv /\ ThroughInv)
BY ImportInit, ImportStep, ThroughInit, ThroughNext, PTL DEF Spec

(* Every variable keeps to its type, a run inserts only while it has rows, *)
(* and what no line speaks of is in the table.                             *)
THEOREM ImportTypeCorrect == Spec => []TypeOK
<1>1. ImportInv /\ ThroughInv => TypeOK
  <2> SUFFICES ASSUME ImportInv, ThroughInv PROVE TypeOK
    OBVIOUS
  <2>1. silent \subseteq db
    BY DEF ImportInv, Table
  <2>2. \A p \in Importers : At(p, "insert") => run[p].left # {}
    BY DEF ThroughInv, Through, At
  <2> QED
    BY <2>1, <2>2 DEF TypeOK, ThroughInv, Counts, RunType
<1> QED
  BY <1>1, ThroughAlways, PTL

(* A run that reaches its summary has stored every file it was given, but  *)
(* for as many as it counts as errors (main's loop over the files): a bad  *)
(* file, another importer or a lost transaction costs no other file.       *)
THEOREM NothingIsMissed == Spec => []NoFileMissed
<1>1. ThroughInv => NoFileMissed
  <2> SUFFICES ASSUME ThroughInv, NEW p \in Importers, run[p].exit \in {"clean", "errors"}
               PROVE  Cardinality({f \in Range(run[p].given) : Missing(f)}) <= run[p].errors
    BY DEF NoFileMissed
  <2>1. /\ Cardinality(Lost(run[p], db)) <= run[p].errors /\ run[p].todo = << >>
    BY DEF ThroughInv, Through
  <2>2. Range(run[p].todo) = {}
    BY <2>1 DEF Range
  <2>3. Lost(run[p], db) = {f \in Range(run[p].given) : Missing(f)}
    BY <2>2 DEF Lost, Missing, MissingIn
  <2> QED
    BY <2>1, <2>3
<1> QED
  BY <1>1, ThroughAlways, PTL

=============================================================================
