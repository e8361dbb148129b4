-------------------------- MODULE PullFromWorkspaceProofs --------------------------
(***************************************************************************)
(* Proofs about PullFromWorkspace, for every value of its constants: any   *)
(* whitelists, edits, runs and kills.                                      *)
(***************************************************************************)
EXTENDS PullFromWorkspace, SequenceTheorems, TLAPS

Log == Seq([Items -> Bodies \cup {Torn, "absent"}])

(***************************************************************************)
(* The inductive invariant.  Typed is what TypeOK needs, and that nothing  *)
(* in the workspace is torn.                                               *)
(***************************************************************************)
Typed ==
  /\ TypeOK
  /\ todo \in Seq(Items) /\ edits \in Nat
  /\ \A i \in Items : work[i].body # Torn /\ seen[i].body # Torn

(* What a run has been through holds what the run found.                   *)
Copied == \A i \in Items \ Range(todo) : seen[i] # Absent => tree[i].body = seen[i].body
Copying == pc \in {"copy", "push"} /\ ~dry /\ ~masked => Copied

(* A run that has changed nothing yet has what the remote has, if it did   *)
(* when it started.                                                        *)
Clean == pc = "copy" /\ ~behind /\ ~changed => BodiesOf(tree) = log[pushed]

(* What is about to be pushed is the work tree.                            *)
Pushing == pc = "push" => log[Len(log)] = BodiesOf(tree)

Ended == DoneMeansPublished /\ PushPublishesAll /\ TornIsRepaired

MirrorInv == Typed /\ Copying /\ Clean /\ Pushing /\ Ended

-----------------------------------------------------------------------------
(* The items of a run: all of them at first, one less with every turn.     *)
LEMMA TodoFacts ==
  /\ FILES \o DIRS \in Seq(Items)
  /\ Range(FILES \o DIRS) = Items
<1> DEFINE all == Range(FILES) \cup Range(DIRS)
<1>1. /\ FILES \in Seq(Range(FILES)) /\ Range(FILES) \subseteq all
      /\ DIRS \in Seq(Range(DIRS)) /\ Range(DIRS) \subseteq all
  BY MirrorAssumption
<1> HIDE DEF all
<1>2. FILES \in Seq(all) /\ DIRS \in Seq(all)
  BY <1>1, SeqMonotonic
<1>3. FILES \o DIRS \in Seq(all) /\ Range(FILES \o DIRS) = Range(FILES) \cup Range(DIRS)
  BY <1>2, ConcatProperties, RangeConcatenation
<1>4. Items = all
  BY <1>3 DEF Items, all
<1>. QED
  BY <1>3, <1>4 DEF all

(* The head is dealt with, and the rest remains.                           *)
LEMMA HeadFacts ==
  ASSUME NEW s \in Seq(Items), s # << >>
  PROVE  /\ Head(s) \in Items /\ Tail(s) \in Seq(Items)
         /\ \A i \in Items \ Range(Tail(s)) : i = Head(s) \/ i \in Items \ Range(s)
<1>1. /\ Head(s) \in Items /\ Tail(s) \in Seq(Items)
      /\ Head(s) = s[1] /\ Len(s) \in Nat \ {0} /\ DOMAIN s = 1 .. Len(s)
      /\ Len(Tail(s)) = Len(s) - 1 /\ DOMAIN Tail(s) = 1 .. Len(s) - 1
      /\ \A k \in 1 .. Len(s) - 1 : Tail(s)[k] = s[k + 1]
  BY HeadTailProperties, LenProperties, EmptySeq
<1>2. \A i \in Range(s) : i = Head(s) \/ i \in Range(Tail(s))
  <2> SUFFICES ASSUME NEW k \in 1 .. Len(s), k # 1 PROVE s[k] \in Range(Tail(s))
    BY <1>1 DEF Range
  <2>1. k - 1 \in 1 .. Len(s) - 1 /\ Tail(s)[k - 1] = s[k]
    BY <1>1
  <2>. QED
    BY <1>1, <2>1 DEF Range
<1>. QED
  BY <1>1, <1>2

(* What the items of a tree hold, and where the log ends.                  *)
LEMMA BodiesTyped ==
  ASSUME NEW t \in [Items -> Version]
  PROVE  /\ BodiesOf(t) \in [Items -> Bodies \cup {Torn, "absent"}]
         /\ \A i \in Items : BodiesOf(t)[i] = t[i].body
BY DEF BodiesOf, Version

(* The history is a sequence of commits, and is never empty.               *)
LEMMA LogFacts ==
  ASSUME TypeOK
  PROVE  /\ log \in Log /\ DOMAIN log = 1 .. Len(log) /\ Len(log) \in Nat
         /\ Len(log) \in DOMAIN log
<1>1. log \in Log
  BY DEF TypeOK, Log
<1>2. DOMAIN log = 1 .. Len(log) /\ Len(log) \in Nat
  BY <1>1, LenProperties DEF Log
<1>3. pushed \in DOMAIN log
  BY DEF TypeOK
<1>. QED
  BY <1>1, <1>2, <1>3

(* A run that goes on, or that failed or was a dry one, has ended in no    *)
(* way the properties speak of.                                            *)
LEMMA NotEnded ==
  ASSUME pc' # "idle" \/ outcome' \in {"failed", "dry", "none"} PROVE Ended'
BY DEF Ended, DoneMeansPublished, PushPublishesAll, TornIsRepaired

(* At first the tree is as the only commit has it, published as it is.     *)
LEMMA InitMirror == Init => MirrorInv
<1> SUFFICES ASSUME Init PROVE MirrorInv
  OBVIOUS
<1>1. PICK b \in Bodies : work = [i \in Items |-> [body |-> b, stamp |-> 0]]
  BY DEF Init
<1>2. work \in [Items -> Version] /\ \A i \in Items : work[i].body # Torn
  BY <1>1, MirrorAssumption DEF Version
<1>3. tree \in [Items -> Version]
  BY <1>2 DEF Init, Version, Absent
<1>4. BodiesOf(tree) \in [Items -> Bodies \cup {Torn, "absent"}]
  BY <1>3, BodiesTyped
<1>5. log = <<BodiesOf(tree)>> /\ pushed = 1
  BY DEF Init
<1>6. log \in Seq([Items -> Bodies \cup {Torn, "absent"}]) /\ pushed \in DOMAIN log
  BY <1>4, <1>5
<1>7. /\ pc = "idle" /\ todo = << >> /\ dry = FALSE /\ push = TRUE /\ outcome = "none"
      /\ seen = work /\ edits = 0
  BY DEF Init
<1>8. TypeOK
  BY <1>2, <1>3, <1>6, <1>7 DEF TypeOK
<1>9. Typed
  BY <1>2, <1>7, <1>8 DEF Typed
<1>10. Copying /\ Clean /\ Pushing /\ Ended
  BY <1>7 DEF Copying, Clean, Pushing, Ended, DoneMeansPublished, PushPublishesAll,
              TornIsRepaired
<1>. QED
  BY <1>9, <1>10 DEF MirrorInv

(* A run starts.                                                           *)
LEMMA StartMirror == ASSUME MirrorInv, Start PROVE MirrorInv'
<1>0. Typed /\ TypeOK
  BY DEF MirrorInv, Typed
<1>1. /\ pc' = "copy" /\ todo' = FILES \o DIRS /\ behind' = (BodiesOf(tree) # log[pushed])
      /\ UNCHANGED <<work, tree, log, pushed, outcome, seen, edits>>
  BY DEF Start
<1>2. todo' \in Seq(Items) /\ Range(todo') = Items
  BY <1>1, TodoFacts
<1>3. Typed'
  BY <1>0, <1>1, <1>2 DEF Typed, TypeOK
<1>4. Copying'
  BY <1>2 DEF Copying, Copied
<1>5. Clean' /\ Pushing'
  BY <1>1 DEF Clean, Pushing, BodiesOf
<1>6. Ended'
  BY <1>1, NotEnded
<1>. QED
  BY <1>3, <1>4, <1>5, <1>6 DEF MirrorInv

(* One item is dealt with.                                                 *)
LEMMA CopyMirror == ASSUME MirrorInv, Copy PROVE MirrorInv'
<1> DEFINE i == Head(todo)
<1>0. /\ Typed /\ TypeOK /\ Copying /\ Clean /\ todo \in Seq(Items) /\ todo # << >>
      /\ work \in [Items -> Version] /\ tree \in [Items -> Version]
      /\ seen \in [Items -> Version]
  BY DEF MirrorInv, Typed, TypeOK, Copy
<1>1. /\ i \in Items /\ Tail(todo) \in Seq(Items)
      /\ \A j \in Items \ Range(Tail(todo)) : j = i \/ j \in Items \ Range(todo)
  BY <1>0, HeadFacts
<1>2. /\ pc = "copy" /\ todo' = Tail(todo) /\ seen' = [seen EXCEPT ![i] = work[i]]
      /\ IF work[i] # Absent /\ Differs(i)
         THEN /\ changed' = TRUE
              /\ tree' = IF dry THEN tree ELSE [tree EXCEPT ![i] = work[i]]
         ELSE UNCHANGED <<changed, tree>>
      /\ UNCHANGED <<work, log, pushed, pc, dry, push, behind, outcome, masked, edits>>
  BY DEF Copy, flags, counts
<1> HIDE DEF i
<1>3. /\ seen' \in [Items -> Version] /\ seen'[i] = work[i]
      /\ \A j \in Items : j # i => seen'[j] = seen[j]
  BY <1>0, <1>1, <1>2
<1>4. /\ tree' \in [Items -> Version] /\ \A j \in Items : j # i => tree'[j] = tree[j]
      /\ ~dry /\ work[i] # Absent => tree'[i].body = work[i].body
  <2>1. CASE work[i] # Absent /\ Differs(i) /\ ~dry
    BY <1>0, <1>1, <1>2, <2>1
  <2>2. CASE ~(work[i] # Absent /\ Differs(i) /\ ~dry)
    BY <1>0, <1>1, <1>2, <2>2 DEF Differs
  <2>. QED
    BY <2>1, <2>2
<1>5. TypeOK'
  BY <1>0, <1>2, <1>3, <1>4 DEF TypeOK
<1>6. Typed'
  BY <1>0, <1>1, <1>2, <1>3, <1>5 DEF Typed
<1>7. Copying'
  <2> SUFFICES ASSUME ~dry, ~masked, NEW j \in Items \ Range(Tail(todo)), seen'[j] # Absent
               PROVE  tree'[j].body = seen'[j].body
    BY <1>2 DEF Copying, Copied
  <2>1. CASE j = i
    BY <1>3, <1>4, <2>1
  <2>2. CASE j # i
    <3>1. j \in Items \ Range(todo)
      BY <1>1, <2>2
    <3>2. tree[j].body = seen[j].body
      BY <1>0, <1>2, <1>3, <2>2, <3>1 DEF Copying, Copied
    <3>. QED
      BY <1>3, <1>4, <2>2, <3>2
  <2>. QED
    BY <2>1, <2>2
<1>8. Clean'
  BY <1>0, <1>2 DEF Clean, BodiesOf
<1>9. Pushing'
  BY <1>2 DEF Pushing
<1>10. Ended'
  BY <1>2, NotEnded
<1>. QED
  BY <1>6, <1>7, <1>8, <1>9, <1>10 DEF MirrorInv

(* A copy in part is a version an item may have.                           *)
LEMMA TornTyped ==
  ASSUME TypeOK, NEW i \in Items, UNCHANGED tree \/ TornCopy(i)
  PROVE  tree' \in [Items -> Version]
<1>1. tree \in [Items -> Version]
  BY DEF TypeOK
<1>2. [body |-> Torn, stamp |-> 0] \in Version
  BY DEF Version
<1> HIDE DEF Version
<1>. QED
  BY <1>1, <1>2 DEF TornCopy

(* cp fails, or rsync does.                                                *)
LEMMA CopyFailsMirror == ASSUME MirrorInv, CopyFails PROVE MirrorInv'
<1>0. Typed /\ TypeOK /\ todo \in Seq(Items) /\ todo # << >>
  BY DEF MirrorInv, Typed, CopyFails
<1>1. Head(todo) \in Items
  BY <1>0, HeadFacts
<1>2. /\ pc' = "idle" /\ outcome' = "failed"
      /\ UNCHANGED <<work, log, pushed, todo, seen, edits>>
  BY DEF CopyFails, End, counts
<1>3. tree' \in [Items -> Version]
  BY <1>0, <1>1, TornTyped DEF CopyFails
<1>4. Typed'
  BY <1>0, <1>2, <1>3 DEF Typed, TypeOK
<1>5. Copying' /\ Clean' /\ Pushing' /\ Ended'
  BY <1>2, NotEnded DEF Copying, Clean, Pushing
<1>. QED
  BY <1>4, <1>5 DEF MirrorInv

(* An rsync that fails is masked, and may leave its item torn.             *)
LEMMA RsyncFailsMirror == ASSUME MirrorInv, RsyncFails PROVE MirrorInv'
<1>0. /\ Typed /\ TypeOK /\ todo \in Seq(Items) /\ todo # << >>
      /\ work \in [Items -> Version] /\ seen \in [Items -> Version]
  BY DEF MirrorInv, Typed, TypeOK, RsyncFails
<1>1. Head(todo) \in Items /\ Tail(todo) \in Seq(Items)
  BY <1>0, HeadFacts
<1>2. /\ pc = "copy" /\ todo' = Tail(todo) /\ changed' = TRUE /\ masked' = TRUE
      /\ seen' = [seen EXCEPT ![Head(todo)] = work[Head(todo)]]
      /\ UNCHANGED <<work, log, pushed, pc, dry, push, behind, outcome, edits>>
  BY DEF RsyncFails, flags, counts
<1>3. tree' \in [Items -> Version]
  BY <1>0, <1>1, TornTyped DEF RsyncFails
<1>4. seen' \in [Items -> Version] /\ \A j \in Items : seen'[j].body # Torn
  BY <1>0, <1>1, <1>2 DEF Typed
<1>5. Typed'
  BY <1>0, <1>1, <1>2, <1>3, <1>4 DEF Typed, TypeOK
<1>6. Copying' /\ Clean' /\ Pushing' /\ Ended'
  BY <1>2, NotEnded DEF Copying, Clean, Pushing
<1>. QED
  BY <1>5, <1>6 DEF MirrorInv

(* The loops are through: every item was dealt with.                       *)
LEMMA AllCopied ==
  ASSUME Copied, todo = << >>
  PROVE  \A i \in Items : seen[i] # Absent => tree[i].body = seen[i].body
BY DEF Copied, Range

(* The run ends for want of a change.                                      *)
LEMMA NothingMirror == ASSUME MirrorInv, NothingToDo PROVE MirrorInv'
<1>0. /\ Typed /\ TypeOK /\ Copying /\ Clean /\ pc = "copy" /\ todo = << >>
      /\ tree \in [Items -> Version]
  BY DEF MirrorInv, Typed, TypeOK, NothingToDo
<1>1. /\ pc' = "idle" /\ outcome' = (IF dry THEN "dry" ELSE "same")
      /\ dry \/ ~changed
      /\ UNCHANGED <<work, tree, log, pushed, todo, dry, push, behind, changed, seen,
                     masked, edits>>
  BY DEF NothingToDo, End, flags, counts
<1>2. Typed'
  BY <1>0, <1>1 DEF Typed, TypeOK
<1>3. Copying' /\ Clean' /\ Pushing'
  BY <1>1 DEF Copying, Clean, Pushing
<1>4. Ended'
  <2>1. CASE dry
    BY <1>1, <2>1, NotEnded
  <2>2. CASE ~dry
    <3>1. outcome' = "same" /\ ~changed
      BY <1>1, <2>2
    <3>2. ~masked => \A i \in Items : seen[i] # Absent => tree[i].body = seen[i].body
      BY <1>0, <2>2, AllCopied DEF Copying
    <3>3. ~behind => \A i \in Items : log[pushed][i] = tree[i].body
      BY <1>0, <3>1, BodiesTyped DEF Clean
    <3>4. DoneMeansPublished'
      BY <1>1, <3>2, <3>3 DEF DoneMeansPublished
    <3>5. TornIsRepaired'
      BY <1>0, <1>1, <3>2 DEF TornIsRepaired, Typed
    <3>6. PushPublishesAll'
      BY <3>1 DEF PushPublishesAll
    <3>. QED
      BY <3>4, <3>5, <3>6 DEF Ended
  <2>. QED
    BY <2>1, <2>2
<1>. QED
  BY <1>2, <1>3, <1>4 DEF MirrorInv

(* The work tree is committed, unless that would change nothing.           *)
LEMMA CommitMirror == ASSUME MirrorInv, Commit PROVE MirrorInv'
<1>0. /\ Typed /\ TypeOK /\ Copying /\ pc = "copy" /\ todo = << >> /\ ~dry
      /\ tree \in [Items -> Version]
  BY DEF MirrorInv, Typed, TypeOK, Commit
<1>1. UNCHANGED <<work, tree, pushed, todo, dry, push, behind, changed, seen, masked,
                  edits>>
  BY DEF Commit, flags, counts
<1>2. ~masked => \A i \in Items : seen[i] # Absent => tree[i].body = seen[i].body
  BY <1>0, AllCopied DEF Copying
<1>3. CASE End("failed") /\ UNCHANGED log
  <2>1. pc' = "idle" /\ outcome' = "failed"
    BY <1>3 DEF End
  <2>2. Typed'
    BY <1>0, <1>1, <1>3, <2>1 DEF Typed, TypeOK
  <2>3. Copying' /\ Clean' /\ Pushing' /\ Ended'
    BY <2>1, NotEnded DEF Copying, Clean, Pushing
  <2>. QED
    BY <2>2, <2>3 DEF MirrorInv
<1>4. CASE log' = Append(log, BodiesOf(tree)) /\ AfterCommit
  <2>1. /\ log \in Log /\ Len(log) \in Nat /\ DOMAIN log = 1 .. Len(log)
        /\ BodiesOf(tree) \in [Items -> Bodies \cup {Torn, "absent"}]
    BY <1>0, LogFacts, BodiesTyped
  <2>2. log' \in Log /\ Len(log') = Len(log) + 1 /\ log'[Len(log) + 1] = BodiesOf(tree)
    BY <1>4, <2>1, AppendProperties DEF Log
  <2>3. DOMAIN log' = 1 .. Len(log')
    BY <2>2, LenProperties DEF Log
  <2>4. pushed \in DOMAIN log'
    BY <1>0, <2>1, <2>2, <2>3 DEF TypeOK
  <2>5. log'[Len(log')] = BodiesOf(tree)'
    BY <1>1, <2>2 DEF BodiesOf
  <2>6. \/ push /\ pc' = "push" /\ UNCHANGED outcome
        \/ pc' = "idle" /\ outcome' = "committed"
    BY <1>4 DEF AfterCommit, End
  <2>7. TypeOK'
    BY <1>0, <1>1, <2>2, <2>4, <2>6 DEF TypeOK, Log
  <2>8. Typed'
    BY <1>0, <1>1, <2>7 DEF Typed
  <2>9. Copying' /\ Clean' /\ Pushing'
    BY <1>0, <1>1, <2>5, <2>6 DEF Copying, Copied, Clean, Pushing
  <2>10. Ended'
    <3>1. CASE pc' = "push"
      BY <3>1, NotEnded
    <3>2. CASE pc' = "idle" /\ outcome' = "committed"
      <4>1. TornIsRepaired'
        BY <1>0, <1>1, <1>2 DEF TornIsRepaired, Typed
      <4>. QED
        BY <3>2, <4>1 DEF Ended, DoneMeansPublished, PushPublishesAll
    <3>. QED
      BY <2>6, <3>1, <3>2
  <2>. QED
    BY <2>8, <2>9, <2>10 DEF MirrorInv
<1>. QED
  BY <1>3, <1>4 DEF Commit, Staged

(* The push goes through.                                                  *)
LEMMA PushMirror == ASSUME MirrorInv, GitPush PROVE MirrorInv'
<1>0. /\ Typed /\ TypeOK /\ Copying /\ Pushing /\ pc = "push" /\ ~dry /\ todo = << >>
      /\ tree \in [Items -> Version]
  BY DEF MirrorInv, Typed, TypeOK, GitPush
<1>1. /\ pc' = "idle" /\ outcome' = "published" /\ pushed' = Len(log)
      /\ UNCHANGED <<work, tree, log, todo, dry, push, behind, changed, seen, masked,
                     edits>>
  BY DEF GitPush, End, flags, counts
<1>2. ~masked => \A i \in Items : seen[i] # Absent => tree[i].body = seen[i].body
  BY <1>0, AllCopied DEF Copying
<1>3. /\ log'[pushed'] = BodiesOf(tree)
      /\ \A i \in Items : log'[pushed'][i] = tree[i].body
  BY <1>0, <1>1, BodiesTyped DEF Pushing
<1>4. pushed' \in DOMAIN log'
  BY <1>0, <1>1, LogFacts
<1>5. Typed'
  BY <1>0, <1>1, <1>4 DEF Typed, TypeOK
<1>6. Copying' /\ Clean' /\ Pushing'
  BY <1>1 DEF Copying, Clean, Pushing
<1>7. DoneMeansPublished'
  BY <1>1, <1>2, <1>3 DEF DoneMeansPublished
<1>8. PushPublishesAll'
  BY <1>1, <1>3 DEF PushPublishesAll, BodiesOf
<1>9. TornIsRepaired'
  BY <1>0, <1>1, <1>2 DEF TornIsRepaired, Typed
<1>. QED
  BY <1>5, <1>6, <1>7, <1>8, <1>9 DEF MirrorInv, Ended

(* The script fails or is killed, perhaps after its push.                  *)
LEMMA FailsMirror == ASSUME MirrorInv, Fails PROVE MirrorInv'
<1>0. Typed /\ TypeOK
  BY DEF MirrorInv, Typed
<1>1. /\ pc' = "idle" /\ outcome' = "failed" /\ (pushed' = pushed \/ pushed' = Len(log))
      /\ UNCHANGED <<work, tree, log, todo, dry, push, seen, edits>>
  BY DEF Fails, End, flags, counts
<1>2. pushed' \in DOMAIN log'
  BY <1>0, <1>1, LogFacts DEF TypeOK
<1>3. Typed'
  BY <1>0, <1>1, <1>2 DEF Typed, TypeOK
<1>4. Copying' /\ Clean' /\ Pushing' /\ Ended'
  BY <1>1, NotEnded DEF Copying, Clean, Pushing
<1>. QED
  BY <1>3, <1>4 DEF MirrorInv

(* The workspace changes, which no run that has ended knows of.            *)
LEMMA EditMirror == ASSUME MirrorInv, Edit PROVE MirrorInv'
<1>0. Typed /\ TypeOK /\ work \in [Items -> Version] /\ edits \in Nat
  BY DEF MirrorInv, Typed, TypeOK
<1>1. UNCHANGED <<tree, log, pushed, pc, todo, dry, push, behind, changed, outcome, seen,
                  masked>>
  BY DEF Edit, flags
<1>2. /\ edits' \in Nat /\ work' \in [Items -> Version]
      /\ \A i \in Items : work'[i].body # Torn
  <2>1. edits' \in Nat
    BY <1>0 DEF Edit
  <2>2. PICK i \in Items :
          \/ \E b \in Bodies : work' = [work EXCEPT ![i] = [body |-> b, stamp |-> edits']]
          \/ work' = [work EXCEPT ![i] = Absent]
    BY DEF Edit
  <2>3. \E v \in Version : v.body # Torn /\ work' = [work EXCEPT ![i] = v]
    <3>1. CASE work' = [work EXCEPT ![i] = Absent]
      <4>1. Absent \in Version /\ Absent.body # Torn
        BY MirrorAssumption DEF Absent, Version
      <4>. QED
        BY <3>1, <4>1
    <3>2. ASSUME NEW b \in Bodies, work' = [work EXCEPT ![i] = [body |-> b, stamp |-> edits']]
          PROVE  \E v \in Version : v.body # Torn /\ work' = [work EXCEPT ![i] = v]
      <4> DEFINE v == [body |-> b, stamp |-> edits']
      <4>1. v \in Version /\ v.body # Torn
        BY <2>1, MirrorAssumption DEF Version
      <4>2. work' = [work EXCEPT ![i] = v]
        BY <3>2
      <4> HIDE DEF v
      <4>. QED
        BY <4>1, <4>2
    <3>. QED
      BY <2>2, <3>1, <3>2
  <2>. QED
    BY <1>0, <2>1, <2>3 DEF Typed
<1>3. Typed'
  BY <1>0, <1>1, <1>2 DEF Typed, TypeOK
<1>4. Copying' /\ Clean' /\ Pushing' /\ Ended'
  BY <1>1 DEF MirrorInv, Copying, Copied, Clean, Pushing, BodiesOf, Ended,
              DoneMeansPublished, PushPublishesAll, TornIsRepaired
<1>. QED
  BY <1>3, <1>4 DEF MirrorInv

(* A step that changes nothing.                                            *)
LEMMA StutterMirror == ASSUME MirrorInv, UNCHANGED vars PROVE MirrorInv'
<1>1. UNCHANGED <<work, tree, log, pushed, pc, todo, dry, push, changed, outcome, seen,
                  behind, masked, edits>>
  BY DEF vars
<1>2. Typed'
  BY <1>1 DEF MirrorInv, Typed, TypeOK
<1>3. Copying' /\ Clean' /\ Pushing' /\ Ended'
  BY <1>1 DEF MirrorInv, Copying, Copied, Clean, Pushing, BodiesOf, Ended,
              DoneMeansPublished, PushPublishesAll, TornIsRepaired
<1>. QED
  BY <1>2, <1>3 DEF MirrorInv

(***************************************************************************)
(* The invariant of the mirror script, and with it all that its runs are   *)
(* checked for: a run that ends well has published what it found; what is  *)
(* pushed is the whole work tree; what was torn is whole again.            *)
(***************************************************************************)
THEOREM MirrorInvariant == Spec => []MirrorInv
<1>1. MirrorInv /\ [Next]_vars => MirrorInv'
  BY StartMirror, CopyMirror, NothingMirror, CommitMirror, PushMirror, CopyFailsMirror,
     RsyncFailsMirror, FailsMirror, EditMirror, StutterMirror DEF Next, Script, Quiet
<1>. QED
  BY <1>1, InitMirror, PTL DEF Spec

(* The remote is at a commit, a run at one of its points.                  *)
THEOREM MirrorTypeCorrect == Spec => []TypeOK
<1>1. MirrorInv => TypeOK
  BY DEF MirrorInv, Typed
<1>. QED
  BY <1>1, MirrorInvariant, PTL

(* Status 0 with the right to push: the remote has what the run found.     *)
THEOREM GoodRunsPublish == Spec => []DoneMeansPublished
<1>1. MirrorInv => DoneMeansPublished
  BY DEF MirrorInv, Ended
<1>. QED
  BY <1>1, MirrorInvariant, PTL

(* A push that goes through publishes the whole work tree.                 *)
THEOREM PushesAreWhole == Spec => []PushPublishesAll
<1>1. MirrorInv => PushPublishesAll
  BY DEF MirrorInv, Ended
<1>. QED
  BY <1>1, MirrorInvariant, PTL

(* An item copied in part does not outlast the next run that gets through. *)
THEOREM TornItemsAreRepaired == Spec => []TornIsRepaired
<1>1. MirrorInv => TornIsRepaired
  BY DEF MirrorInv, Ended
<1>. QED
  BY <1>1, MirrorInvariant, PTL

=============================================================================
