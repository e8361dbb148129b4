---------------------------- MODULE PullFromWorkspace ----------------------------
(***************************************************************************)
(* pull_from_workspace.sh: whitelisted files and directories copied from   *)
(* the workspace to the mirror's work tree, committed and pushed.  A run   *)
(* may be killed at any point, and the workspace edited while it copies.   *)
(*                                                                         *)
(* An item is a file of FILES or a directory of DIRS.  cmp and git look at *)
(* what it holds (body), rsync also at its times (stamp).  rsync and git   *)
(* are modelled from their use: the exit status of rsync is masked by      *)
(* "|| true" and its messages count as output; git commit fails when it    *)
(* would change nothing.  rsync decides by size and modification time, and *)
(* an edit of a directory's content is taken to change the one or the      *)
(* other: rsync would not see one that keeps both, and cmp does not look   *)
(* at times at all.                                                        *)
(***************************************************************************)
EXTENDS Naturals, Sequences, SequencesExt

CONSTANTS
  FILES, DIRS,  (* the two whitelists, as sequences                         *)
  Bodies,       (* what an item may hold                                    *)
  Torn,         (* what an item holds that was copied in part               *)
  MaxEdits,     (* bound of the model: changes to the workspace             *)
  MaxRuns,      (* bound of the model: runs of the script                   *)
  MaxFaults     (* bound of the model: kills and failing commands           *)

Items  == Range(FILES \o DIRS)
Absent == [body |-> "absent", stamp |-> 0]

ASSUME MirrorAssumption ==
  /\ FILES \in Seq(Range(FILES)) /\ DIRS \in Seq(Range(DIRS))
  /\ Range(FILES) \cap Range(DIRS) = {}
  /\ "absent" \notin Bodies /\ Torn \notin Bodies /\ Torn # "absent"
  /\ MaxEdits \in Nat /\ MaxRuns \in Nat /\ MaxFaults \in Nat

Version == [body : Bodies \cup {Torn, "absent"}, stamp : Nat]

VARIABLES
  work,      (* the workspace                                               *)
  tree,      (* the mirror's work tree                                      *)
  log,       (* its commits, the bodies of all items in each                *)
  pushed,    (* the commit the remote is at                                 *)
  pc, todo, dry, push, changed,
  outcome,   (* how the latest run ended: "published", "committed", "same", *)
             (* "dry" (status 0) or "failed"                                *)
  seen,      (* history: what the run found in the workspace                *)
  behind,    (* history: the work tree was not the remote's when it started *)
  masked,    (* history: rsync has failed in it                             *)
  edits, runs, faults

vars == <<work, tree, log, pushed, pc, todo, dry, push, changed, outcome, seen,
          behind, masked, edits, runs, faults>>
flags  == <<dry, push, behind>>
counts == <<edits, runs>>

BodiesOf(t) == [i \in Items |-> t[i].body]
Fault == faults < MaxFaults /\ faults' = faults + 1

Init ==
  /\ \E b \in Bodies : work = [i \in Items |-> [body |-> b, stamp |-> 0]]
  /\ tree \in {work, [i \in Items |-> Absent]}
  /\ log = <<BodiesOf(tree)>>
  /\ pushed = 1
  /\ pc = "idle"
  /\ todo = << >>
  /\ dry = FALSE
  /\ push = TRUE
  /\ changed = FALSE
  /\ outcome = "none"
  /\ seen = work
  /\ behind = FALSE
  /\ masked = FALSE
  /\ edits = 0
  /\ runs = 0
  /\ faults = 0

-----------------------------------------------------------------------------
End(how) == pc' = "idle" /\ outcome' = how

Start ==
  /\ pc = "idle"
  /\ runs < MaxRuns
  /\ runs' = runs + 1
  /\ dry' \in BOOLEAN /\ push' \in BOOLEAN
  /\ pc' = "copy"
  /\ todo' = FILES \o DIRS
  /\ changed' = FALSE
  /\ behind' = (BodiesOf(tree) # log[pushed])
  /\ masked' = FALSE
  /\ UNCHANGED <<work, tree, log, pushed, outcome, seen, edits, faults>>

(* Mutant: only an item the mirror does not have differs.                  *)
DiffersIfNew(i) == tree[i] = Absent
Differs(i) ==
  IF i \in Range(FILES) THEN tree[i].body # work[i].body ELSE tree[i] # work[i]

(* One turn of either loop.  What the workspace lacks is left as it is.    *)
Copy ==
  LET i == Head(todo)
  IN  /\ pc = "copy"
      /\ todo # << >>
      /\ todo' = Tail(todo)
      /\ seen' = [seen EXCEPT ![i] = work[i]]
      /\ IF work[i] # Absent /\ Differs(i)
         THEN /\ changed' = TRUE
              /\ tree' = IF dry THEN tree ELSE [tree EXCEPT ![i] = work[i]]
         ELSE UNCHANGED <<changed, tree>>
      /\ UNCHANGED <<work, log, pushed, pc, flags, outcome, masked, counts,
                     faults>>

TornCopy(i) == tree' = [tree EXCEPT ![i] = [body |-> Torn, stamp |-> 0]]

(* cp or mkdir fails and set -e ends the script, or it is killed half-way.  *)
CopyFails ==
  /\ pc = "copy"
  /\ todo # << >>
  /\ ~dry /\ work[Head(todo)] # Absent
  /\ Fault
  /\ UNCHANGED tree \/ (Differs(Head(todo)) /\ TornCopy(Head(todo)))
  /\ End("failed")
  /\ UNCHANGED <<work, log, pushed, todo, flags, changed, seen, masked, counts>>

(* rsync fails half-way: its message is output, so the script goes on as   *)
(* after a change.                                                         *)
RsyncFails ==
  LET i == Head(todo)
  IN  /\ pc = "copy"
      /\ todo # << >>
      /\ i \in Range(DIRS) /\ work[i] # Absent
      /\ Fault
      /\ todo' = Tail(todo)
      /\ seen' = [seen EXCEPT ![i] = work[i]]
      /\ changed' = TRUE
      /\ masked' = TRUE
      /\ UNCHANGED tree \/ (~dry /\ Differs(i) /\ TornCopy(i))
      /\ UNCHANGED <<work, log, pushed, pc, flags, outcome, counts>>

NothingToDo ==
  /\ pc = "copy"
  /\ todo = << >>
  /\ dry \/ ~changed
  /\ End(IF dry THEN "dry" ELSE "same")
  /\ UNCHANGED <<work, tree, log, pushed, todo, flags, changed, seen, masked,
                 counts, faults>>

(* Mutant: --no-push is not looked at.                                     *)
AfterCommitPush == pc' = "push" /\ UNCHANGED outcome
AfterCommit ==
  \/ push /\ pc' = "push" /\ UNCHANGED outcome
  \/ ~push /\ End("committed")

(* Mutant: only the items this run has copied are added.                   *)
StagedCopied ==
  [i \in Items |-> IF tree[i] = seen[i] THEN tree[i].body ELSE log[Len(log)][i]]
(* git add -A                                                              *)
Staged == BodiesOf(tree)

Commit ==
  /\ pc = "copy"
  /\ todo = << >>
  /\ ~dry /\ changed
  /\ IF Staged = log[Len(log)]
     THEN End("failed") /\ UNCHANGED log
     ELSE log' = Append(log, Staged) /\ AfterCommit
  /\ UNCHANGED <<work, tree, pushed, todo, flags, changed, seen, masked, counts,
                 faults>>

GitPush ==
  /\ pc = "push"
  /\ pushed' = Len(log)
  /\ End("published")
  /\ UNCHANGED <<work, tree, log, todo, flags, changed, seen, masked, counts,
                 faults>>

(* git fails, or the script is killed.  The push may have been done.       *)
Fails ==
  /\ pc # "idle"
  /\ Fault
  /\ \/ UNCHANGED pushed
     \/ pc = "push" /\ pushed' = Len(log)
  /\ End("failed")
  /\ UNCHANGED <<work, tree, log, todo, flags, changed, seen, masked, counts>>

Script == Copy \/ NothingToDo \/ Commit \/ GitPush

-----------------------------------------------------------------------------
(* The workspace changes: an edit, a touch or a removal.                   *)
Edit ==
  /\ edits < MaxEdits
  /\ edits' = edits + 1
  /\ \E i \in Items :
       \/ \E b \in Bodies :
            work' = [work EXCEPT ![i] = [body |-> b, stamp |-> edits']]
       \/ work' = [work EXCEPT ![i] = Absent]
  /\ UNCHANGED <<tree, log, pushed, pc, todo, flags, changed, outcome, seen,
                 masked, runs, faults>>

Quiet == pc = "idle" /\ runs = MaxRuns /\ UNCHANGED vars

Next == Start \/ Script \/ CopyFails \/ RsyncFails \/ Fails \/ Edit \/ Quiet

Spec == Init /\ [][Next]_vars

-----------------------------------------------------------------------------
(* The remote is at one of the mirror's commits, and a run at one of its   *)
(* points.                                                                 *)
TypeOK ==
  /\ work \in [Items -> Version] /\ tree \in [Items -> Version]
  /\ seen \in [Items -> Version]
  /\ log \in Seq([Items -> Bodies \cup {Torn, "absent"}])
  /\ pushed \in DOMAIN log
  /\ pc \in {"idle", "copy", "push"}
  /\ outcome \in {"none", "published", "committed", "same", "dry", "failed"}
  /\ pc = "push" => ~dry /\ push /\ todo = << >>

(* What the header says the script does: a run with status 0 that may push *)
(* leaves the remote with what it found in the workspace.  The exceptions  *)
(* are what it cannot see: work left behind by an earlier run that did not *)
(* get to its push, and a failing rsync.                                   *)
DoneMeansPublished ==
  pc = "idle" /\ outcome \in {"published", "same"} /\ ~behind /\ ~masked =>
    \A i \in Items : seen[i] # Absent => log[pushed][i] = seen[i].body

(* Work left behind is not left for good: the first push that goes through *)
(* publishes the whole work tree, copies of killed runs included.          *)
PushPublishesAll ==
  pc = "idle" /\ outcome = "published" => log[pushed] = BodiesOf(tree)

(* An item copied in part is completed by the next run that gets through   *)
(* its loops without a failing rsync.                                      *)
TornIsRepaired ==
  pc = "idle" /\ outcome \in {"published", "committed", "same"} /\ ~masked =>
    \A i \in Items : tree[i].body = Torn => seen[i] = Absent

=============================================================================
