------------------------------ MODULE ImportSamples ------------------------------
(***************************************************************************)
(* docker/import_samples.py: sample files read, checked and inserted, one  *)
(* transaction per file over one connection.  Several importers may run at *)
(* the same time, be killed, and be started again over the same files.     *)
(*                                                                         *)
(* A file is its absolute path, with the class of its name and its lines;  *)
(* a sample is its primary key and the file it comes from.  psycopg2 and   *)
(* PostgreSQL are modelled from their use: an uncommitted key makes other  *)
(* transactions wait, a cycle of waits fails one of them, and a call on a  *)
(* connection whose server end has gone raises, rollback() included.       *)
(***************************************************************************)
EXTENDS Integers, Sequences, FiniteSets, SequencesExt

CONSTANTS
  Importers,   (* the processes                                             *)
  Files,       (* the paths that can be given or found                      *)
  Name,        (* what FNAME_RE and strptime make of a file's name          *)
  Lines,       (* the lines of each file                                    *)
  Calls,       (* the command lines                                         *)
  Chunk,       (* CHUNK                                                     *)
  MaxStarts,   (* bound of the model: importers started                     *)
  MaxFaults    (* bound of the model: kills, server stops, failed calls     *)

Skipped == {"blank", "badjson", "badfield", "mismatch"}
Raising == {"badrtt", "garbled"}   (* int(rtt_ms) and the decoding raise    *)
Loaded  == {"sample", "refused"}   (* PostgreSQL rejects a refused row      *)

Line == [kind : Skipped \cup Raising \cup Loaded, key : STRING]
Arg  == [kind : {"tree", "files"}, files : Seq(Files)]
Row  == [file : Files, key : STRING, fits : BOOLEAN]

ASSUME ImportAssumption ==
  /\ Name \in [Files -> {"sample", "baddate", "mismatch"}]
  /\ Lines \in [Files -> Seq(Line)]
  /\ Calls \subseteq [args : Seq(Arg), dry : BOOLEAN]
  /\ Chunk \in Nat \ {0}
  /\ MaxStarts \in Nat /\ MaxFaults \in Nat

VARIABLES
  db,        (* the committed rows of probe_sample                          *)
  up,        (* the server accepts connections                              *)
  run,       (* the run each importer is in, or its latest                  *)
  reported,  (* history: the rows "inserted" by the IMPORT lines so far     *)
  silent,    (* history: rows of commits no IMPORT line speaks of           *)
  starts, faults

vars == <<db, up, run, reported, silent, starts, faults>>

-----------------------------------------------------------------------------
(* parse_batch_ts, load_samples and expand_files.                          *)

ReadError(f) ==
  \/ Name[f] = "baddate"
  \/ \E i \in DOMAIN Lines[f] : Lines[f][i].kind \in Raising

(* The lines that give a row, by number, and their rows.                   *)
Loading(f) == {i \in DOMAIN Lines[f] : Lines[f][i].kind \in Loaded}
RowAt(f, i) ==
  [file |-> f, key |-> Lines[f][i].key, fits |-> Lines[f][i].kind = "sample"]
RowsOf(f) == {RowAt(f, i) : i \in Loading(f)}

(* A scanned directory gives the files whose name matches; globs and files *)
(* are taken as they are.  A path that comes again is left out.            *)
AddMatching(files, f) == IF Name[f] = "mismatch" THEN files ELSE Append(files, f)
Expand(arg) ==
  IF arg.kind = "tree" THEN FoldLeft(AddMatching, << >>, arg.files) ELSE arg.files

AddUnseen(out, f) == IF f \in Range(out) THEN out ELSE Append(out, f)
ExpandFiles(args) ==
  FoldLeft(AddUnseen, << >>, FlattenSeq([i \in DOMAIN args |-> Expand(args[i])]))

-----------------------------------------------------------------------------
KeysOf(rows) == {r.key : r \in rows}
At(p, label) == run[p].at = label
File(p)      == Head(run[p].todo)
Set(p, r)    == run' = [run EXCEPT ![p] = r]
Fault        == faults < MaxFaults /\ faults' = faults + 1

(* exit: "clean" and "errors" after the summary, with status 0 and 1;      *)
(* "aborted" for a traceback, a kill or nothing to do; "dry" for a dry run. *)
(* left: the lines whose rows are yet to be inserted.                      *)
NewRun == [at |-> "idle", given |-> << >>, todo |-> << >>, left |-> {},
           rowcount |-> 0, inserted |-> 0, txn |-> {}, alive |-> TRUE,
           errors |-> 0, exit |-> "none"]

Ended(r, how) == [r EXCEPT !.at = "idle", !.txn = {}, !.exit = how]
NextFile(r)   == [r EXCEPT !.at = "file", !.txn = {}, !.todo = Tail(@)]

(* Mutant: the failure is reported and not counted.                        *)
UncountedError(r) == NextFile(r)
(* Mutant: the file is tried until it goes through.                        *)
SameFileAgain(r) == [r EXCEPT !.at = "file", !.txn = {}]
FileError(r) == [NextFile(r) EXCEPT !.errors = @ + 1]

Init ==
  /\ db = {}
  /\ up = TRUE
  /\ run = [p \in Importers |-> NewRun]
  /\ reported = 0
  /\ silent = {}
  /\ starts = 0
  /\ faults = 0

(* main up to the loop: no files and a refused connection both exit with 1. *)
Start(p) ==
  /\ At(p, "idle")
  /\ starts < MaxStarts
  /\ starts' = starts + 1
  /\ \E call \in Calls :
       LET files == ExpandFiles(call.args)
           r == [NewRun EXCEPT !.given = files, !.todo = files]
       IN  Set(p, IF files = << >> \/ (~call.dry /\ ~up) THEN Ended(r, "aborted")
                  ELSE [r EXCEPT !.at = IF call.dry THEN "dry" ELSE "file"])
  /\ UNCHANGED <<db, up, reported, silent, faults>>

(* --dry-run: a file that cannot be read ends the script.                  *)
DryFile(p) ==
  LET r == run[p] IN
  /\ At(p, "dry")
  /\ Set(p, IF r.todo = << >> THEN Ended(r, "dry")
            ELSE IF Name[Head(r.todo)] # "mismatch" /\ ReadError(Head(r.todo))
                 THEN Ended(r, "aborted")
                 ELSE [r EXCEPT !.todo = Tail(@)])
  /\ UNCHANGED <<db, up, reported, silent, starts, faults>>

(* A file without samples returns early.                                   *)
FirstStep(lines) == IF lines = {} THEN "commit" ELSE "insert"

(* import_file up to its first statement.  The whole file is read before   *)
(* anything is inserted.                                                   *)
OpenFile(p) ==
  LET r == run[p]
      f == Head(r.todo)
  IN  /\ At(p, "file")
      /\ r.todo # << >>
      /\ Set(p, IF Name[f] = "mismatch" THEN NextFile(r)
                ELSE IF ReadError(f) THEN FileError(r)
                ELSE [r EXCEPT !.at = FirstStep(Loading(f)), !.left = Loading(f),
                               !.rowcount = 0, !.inserted = 0])
      /\ UNCHANGED <<db, up, reported, silent, starts, faults>>

(* The row that comes next, in a set of at most one.                       *)
NextRow(p) ==
  {RowAt(File(p), i) : i \in {j \in run[p].left : \A k \in run[p].left : j <= k}}

Waits(p, q) ==
  /\ p # q
  /\ At(p, "insert")
  /\ KeysOf(NextRow(p)) \cap KeysOf(run[q].txn) # {}

(* ON CONFLICT DO NOTHING                                                  *)
IsNew(p, row) == row.key \notin KeysOf(db \cup run[p].txn)

(* Mutant: autocommit.                                                     *)
TableWithRow(row) == db \cup {row}
(* autocommit = False: an inserted row is not in the table yet.            *)
TableMeanwhile(row) == db

(* Mutant: the count is read before the chunk is executed, from a cursor   *)
(* that has executed nothing and says -1.                                  *)
CountTooEarly(inserted, rowcount) == inserted - 1
(* Mutant: the row count of the last chunk only.                           *)
CountLastChunk(inserted, rowcount) == rowcount
CountChunk(inserted, rowcount) == inserted + rowcount

(* One row of a chunk's INSERT; the count is taken at the chunk's end.     *)
InsertRow(p) ==
  \E i \in run[p].left :
    LET r    == run[p]
        row  == RowAt(File(p), i)
        rest == r.left \ {i}
        new  == IsNew(p, row)
        n    == r.rowcount + (IF new THEN 1 ELSE 0)
        ends == rest = {} \/ Cardinality(Loading(File(p)) \ rest) % Chunk = 0
    IN  /\ At(p, "insert")
        /\ \A j \in r.left : i <= j
        /\ r.alive /\ row.fits
        /\ \A q \in Importers : ~Waits(p, q)
        /\ Set(p, [r EXCEPT !.txn = IF new THEN @ \cup {row} ELSE @,
                            !.left = rest,
                            !.rowcount = IF ends THEN 0 ELSE n,
                            !.inserted = IF ends THEN CountChunk(@, n) ELSE @,
                            !.at = IF rest = {} THEN "commit" ELSE @])
        /\ db' = TableMeanwhile(row)
        /\ UNCHANGED <<up, reported, silent, starts, faults>>

Deadlocked(p) ==
  \E S \in SUBSET Importers :
    p \in S /\ \A q \in S : \E o \in S : Waits(q, o)

(* The statement raises; its transaction is gone.                          *)
StatementFails(p) ==
  LET r == run[p] IN
  /\ At(p, "insert")
  /\ \/ /\ ~r.alive \/ (\E row \in NextRow(p) : ~row.fits) \/ Deadlocked(p)
        /\ UNCHANGED faults
     \/ Fault
  /\ Set(p, [r EXCEPT !.at = "rollback", !.txn = {}])
  /\ UNCHANGED <<db, up, reported, silent, starts>>

(* conn.rollback() in the except clause: on a lost connection it raises    *)
(* out of the loop over the files.                                         *)
Rollback(p) ==
  /\ At(p, "rollback")
  /\ Set(p, IF run[p].alive THEN FileError(run[p]) ELSE Ended(run[p], "aborted"))
  /\ UNCHANGED <<db, up, reported, silent, starts, faults>>

(* conn.commit() and the IMPORT line.  Without a row there is nothing to   *)
(* commit and the server is not asked.                                     *)
Commit(p) ==
  LET r == run[p] IN
  /\ At(p, "commit")
  /\ r.alive \/ Loading(File(p)) = {}
  /\ db' = db \cup r.txn
  /\ reported' = reported + r.inserted
  /\ Set(p, NextFile(r))
  /\ UNCHANGED <<up, silent, starts, faults>>

(* The commit raises, outside any try: a lost connection, or a lost answer *)
(* to a commit that was done.                                              *)
CommitFails(p) ==
  LET r == run[p] IN
  /\ At(p, "commit")
  /\ Loading(File(p)) # {}
  /\ \/ ~r.alive /\ UNCHANGED <<db, silent, faults>>
     \/ /\ r.alive /\ Fault
        /\ db' = db \cup r.txn
        /\ silent' = silent \cup r.txn
  /\ Set(p, Ended(r, "aborted"))
  /\ UNCHANGED <<up, reported, starts>>

Finish(p) ==
  /\ At(p, "file")
  /\ run[p].todo = << >>
  /\ Set(p, Ended(run[p], IF run[p].errors = 0 THEN "clean" ELSE "errors"))
  /\ UNCHANGED <<db, up, reported, silent, starts, faults>>

Step(p) ==
  DryFile(p) \/ OpenFile(p) \/ InsertRow(p) \/ StatementFails(p) \/ Rollback(p)
    \/ Commit(p) \/ CommitFails(p) \/ Finish(p)

-----------------------------------------------------------------------------
Kill(p) ==
  /\ ~At(p, "idle")
  /\ Fault
  /\ Set(p, Ended(run[p], "aborted"))
  /\ UNCHANGED <<db, up, reported, silent, starts>>

(* The server stops, and with it the connections and their transactions.   *)
ServerDown ==
  /\ up
  /\ Fault
  /\ up' = FALSE
  /\ run' = [p \in Importers |-> [run[p] EXCEPT !.alive = FALSE, !.txn = {}]]
  /\ UNCHANGED <<db, reported, silent, starts>>

ServerUp ==
  /\ ~up
  /\ up' = TRUE
  /\ UNCHANGED <<db, run, reported, silent, starts, faults>>

Quiet ==
  /\ starts = MaxStarts
  /\ \A p \in Importers : At(p, "idle")
  /\ UNCHANGED vars

Next ==
  \/ \E p \in Importers : Start(p) \/ Step(p) \/ Kill(p)
  \/ ServerDown \/ ServerUp \/ Quiet

Spec == Init /\ [][Next]_vars

(* Every call of an importer returns; the server detects deadlocks.        *)
FairSpec == Spec /\ \A p \in Importers : WF_vars(Step(p))

-----------------------------------------------------------------------------
(* A run is at one of its points, and inserts while it has rows.           *)
TypeOK ==
  /\ db \subseteq Row
  /\ silent \subseteq db
  /\ up \in BOOLEAN
  /\ reported \in Nat /\ starts \in Nat /\ faults \in Nat
  /\ run \in [Importers ->
       [at : {"idle", "dry", "file", "insert", "rollback", "commit"},
        given : Seq(Files), todo : Seq(Files), left : SUBSET Nat, rowcount : Nat,
        inserted : Nat, txn : SUBSET Row, alive : BOOLEAN, errors : Nat,
        exit : {"none", "clean", "errors", "aborted", "dry"}]]
  /\ \A p \in Importers : At(p, "insert") => run[p].left # {}

(* A file is in the table whole or not at all, whatever its chunks, other  *)
(* importers, kills and the server do: a row of it is there only with the  *)
(* keys of all its rows.                                                   *)
WholeFiles ==
  \A row \in db : KeysOf(RowsOf(row.file)) \subseteq KeysOf(db)

Missing(f) ==
  /\ Name[f] # "mismatch"
  /\ ReadError(f) \/ ~(KeysOf(RowsOf(f)) \subseteq KeysOf(db))

(* A run that reaches its summary has stored every sample of every file it *)
(* was given, but for the files it counts as errors: one bad file costs no *)
(* other file, and exit status 0 means that nothing is missing.            *)
NoFileMissed ==
  \A p \in Importers : run[p].exit \in {"clean", "errors"} =>
    Cardinality({f \in Range(run[p].given) : Missing(f)}) <= run[p].errors

(* The IMPORT lines of all runs add up to the table, commits whose answer  *)
(* was lost excepted: "inserted" counts each row once.                     *)
ReportedIsHonest == reported = Cardinality(db \ silent)

(* Every run ends, however the importers wait for one another's keys.      *)
RunsEnd == \A p \in Importers : ~At(p, "idle") ~> At(p, "idle")

=============================================================================
