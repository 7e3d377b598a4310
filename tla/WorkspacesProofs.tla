--------------------------- MODULE WorkspacesProofs ---------------------------
(***************************************************************************)
(* For any paths, requests, runs, clients and bounds: the types of what    *)
(* the service keeps for its worktrees, and that it is told as it is.      *)
(* Each machine of Workspaces has a section: its inductive invariant,      *)
(* which its own steps keep and the steps of the others do not touch.      *)
(***************************************************************************)
EXTENDS Workspaces, FiniteSetTheorems, SequenceTheorems, WellFoundedInduction, TLAPS

-----------------------------------------------------------------------------
(* The change set of a run.                                                *)

AtMostOne(s) == s = {} \/ \E x : s = {x}

LEMMA AtMostOneCounts ==
    ASSUME NEW s, AtMostOne(s)
    PROVE  Cardinality(s) <= 1
<1>1. CASE s = {}
  BY <1>1, FS_EmptySet
<1>2. CASE \E x : s = {x}
  BY <1>2, FS_Singleton
<1>3. QED
  BY <1>1, <1>2 DEF AtMostOne

LEMMA SameCardinality == \A s : Changes!Cardinality(s) = Cardinality(s)
BY Zenon DEF Changes!Cardinality, Cardinality

LEMMA OneOrNone == AtMostOne({}) /\ \A x : AtMostOne({x})
BY DEF AtMostOne

\* A walk of a tree is a tree without what is skipped, and so is what git adds.
LEMMA Walks ==
    \A t \in Changes!Trees :
        /\ Changes!Inventory(t) \in Changes!Trees
        /\ \A index \in Changes!Trees : Changes!AddAll(index, t) \in Changes!Trees
        /\ \A p \in TreePaths :
            /\ Changes!Inventory(t)[p] =
                IF p \in Skipped THEN Changes!Absent ELSE t[p]
            /\ p \in Changes!Present(Changes!Inventory(t)) =>
                p \notin Skipped /\ Changes!Inventory(t)[p] = t[p]
BY DEF Changes!Trees, Changes!Inventory, Changes!AddAll, Changes!Present

ChangesTyped ==
    /\ changes_tree \in Changes!Trees /\ changes_copies \in Changes!Trees
    /\ changes_staged \in Changes!Trees /\ changes_head \in Changes!Trees
    /\ changes_manifest \subseteq Changes!Trees /\ changes_disclosed \subseteq Changes!Trees
    /\ AtMostOne(changes_manifest) /\ AtMostOne(changes_answer)
    /\ changes_touched \subseteq TreePaths
    /\ changes_call \in [step : Changes!Steps, todo : SUBSET TreePaths, seen : Changes!Trees]
    /\ changes_calls \in 0..MaxCalls /\ changes_edits \in 0..MaxEdits
    /\ changes_raced \subseteq {"snapshot", "call"}

\* What a prepared change set holds.
Prepared ==
    \A c \in changes_answer :
        c.of \in {"changes", "applied"} =>
            c = [of |-> c.of, base |-> c.base, tree |-> c.tree, files |-> c.files,
                 external |-> c.external]

\* Without an edit during the snapshot the copies are the baseline.
Copied ==
    /\ \A m \in changes_manifest : Changes!Present(m) \cap Skipped = {}
    /\ Changes!Present(changes_call.seen) \cap Skipped = {}
    /\ changes_call.step = "snapshot" => changes_manifest = {}
    /\ "snapshot" \notin changes_raced =>
        /\ changes_call.step = "snapshot" =>
            /\ Changes!Inventory(changes_tree) = changes_call.seen
            /\ \A p \in Changes!Present(changes_call.seen) \ changes_call.todo :
                changes_copies[p] = changes_call.seen[p]
        /\ \A m \in changes_manifest : \A p \in Changes!Present(m) : changes_copies[p] = m[p]

\* Without an edit since, a rollback restored what it is through with, and what
\* it has left to remove is all there is to remove.
Restored ==
    /\ changes_call.step \in {"restore", "remove"} => changes_manifest = {changes_call.seen}
    /\ changes_call.step = "remove" =>
        changes_call.todo \cap Changes!Present(changes_call.seen) = {}
    /\ changes_raced = {} =>
        /\ changes_call.step = "restore" =>
            \A p \in Changes!Present(changes_call.seen) \ changes_call.todo :
                changes_tree[p] = changes_call.seen[p]
        /\ changes_call.step = "remove" =>
            /\ \A p \in Changes!Present(changes_call.seen) : changes_tree[p] = changes_call.seen[p]
            /\ Changes!Present(Changes!Inventory(changes_tree)) \ Changes!Present(changes_call.seen)
                \subseteq changes_call.todo

\* What git has is as disclosed, where both look.
AsDisclosed(t, said) ==
    \A p \in TreePaths \ Skipped :
        t[p] = said[p] \/ (p \in Ignored /\ t[p] = Changes!Absent)

\* Without an edit since, what git is told is what was disclosed.
Committing ==
    /\ changes_call.step \in {"add", "commit", "record"} => changes_call.seen \in changes_disclosed
    /\ "call" \notin changes_raced =>
        /\ changes_call.step = "add" => Changes!Inventory(changes_tree) = changes_call.seen
        /\ changes_call.step = "commit" => AsDisclosed(changes_staged, changes_call.seen)

LEMMA ChangesTypesNext ==
    ASSUME ChangesTyped, Changes!Next
    PROVE  ChangesTyped'
<1> USE WorkspacesAssumption, OneOrNone, Walks
    DEF ChangesTyped, Changes!Trees, Changes!Steps, Changes!ChangeSetAssumption,
        Changes!baseline, Changes!repository, Changes!Idle, Changes!NoTree, Changes!Present
<1>1. ASSUME NEW p \in TreePaths, NEW content \in Contents \cup {Changes!Absent},
             Changes!Edit(p, content)
      PROVE  ChangesTyped'
  <2>1. changes_raced' \subseteq {"snapshot", "call"}
    BY <1>1 DEF Changes!Edit
  <2>2. QED
    BY <1>1, <2>1 DEF Changes!Edit
<1>2. ASSUME NEW p \in TreePaths, Changes!TouchPath(p)
      PROVE  ChangesTyped'
  BY <1>2 DEF Changes!TouchPath
<1>3. ASSUME NEW p \in TreePaths, Changes!CopyFile(p)
      PROVE  ChangesTyped'
  BY <1>3 DEF Changes!CopyFile, Changes!Goto
<1>4. ASSUME NEW p \in TreePaths, Changes!RestoreFile(p)
      PROVE  ChangesTyped'
  BY <1>4 DEF Changes!RestoreFile, Changes!Goto
<1>5. ASSUME NEW p \in TreePaths, Changes!RemoveExtra(p)
      PROVE  ChangesTyped'
  BY <1>5 DEF Changes!RemoveExtra, Changes!Goto
<1>6. CASE Changes!Die
  BY <1>6 DEF Changes!Die
<1>7. CASE Changes!Snapshot
  BY <1>7 DEF Changes!Snapshot, Changes!Begin
<1>8. CASE Changes!RecordBaseline
  BY <1>8 DEF Changes!RecordBaseline
<1>9. CASE Changes!Prepare
  <2>1. PICK base : changes_answer' = {Changes!ChangeSet(base, Changes!Inventory(changes_tree))}
    BY <1>9 DEF Changes!Prepare
  <2>2. AtMostOne(changes_answer')
    BY <2>1
  <2>3. QED
    BY <1>9, <2>2 DEF Changes!Prepare
<1>10. CASE Changes!Apply
  <2>1. PICK c \in changes_answer : changes_answer' = {[c EXCEPT !.of = "applied"]}
    BY <1>10, Zenon DEF Changes!Apply
  <2>2. AtMostOne(changes_answer')
    BY <2>1
  <2>3. QED
    BY <1>10, <2>2 DEF Changes!Apply
<1>11. CASE Changes!Rollback
  <2>1. PICK base \in changes_manifest :
            /\ changes_call' = [step |-> "restore", todo |-> Changes!Present(base), seen |-> base]
            /\ changes_answer' = {} /\ changes_calls' = changes_calls + 1
            /\ changes_calls < MaxCalls
    BY <1>11 DEF Changes!Rollback, Changes!Begin
  <2>2. changes_call' \in [step : Changes!Steps, todo : SUBSET TreePaths, seen : Changes!Trees]
    BY <2>1
  <2>3. QED
    BY <1>11, <2>1, <2>2 DEF Changes!Rollback
<1>12. CASE Changes!ListExtras
  BY <1>12 DEF Changes!ListExtras, Changes!Goto
<1>13. CASE Changes!Prove
  BY <1>13 DEF Changes!Prove
<1>14. CASE Changes!Disclose
  BY <1>14 DEF Changes!Disclose, Changes!Begin
<1>15. CASE Changes!GitAdd
  BY <1>15 DEF Changes!GitAdd, Changes!Goto
<1>16. CASE Changes!GitCommit
  <2>1. AtMostOne(changes_answer')
    BY <1>16, Zenon DEF Changes!GitCommit
  <2>2. QED
    BY <1>16, <2>1 DEF Changes!GitCommit, Changes!Goto
<1>17. CASE Changes!RecordCommit
  BY <1>17 DEF Changes!RecordCommit
<1>18. QED
  BY <1>1, <1>2, <1>3, <1>4, <1>5, <1>6, <1>7, <1>8, <1>9, <1>10, <1>11, <1>12, <1>13, <1>14,
     <1>15, <1>16, <1>17
  DEF Changes!Next

\* A change set that is prepared adds up.
LEMMA PreparedAddsUp ==
    ASSUME ChangesTyped, NEW base \in Changes!Trees, NEW now \in Changes!Trees
    PROVE  LET c == Changes!ChangeSet(base, now) IN
           /\ c.tree = [p \in TreePaths |-> IF p \in DOMAIN c.files THEN c.files[p] ELSE c.base[p]]
           /\ \A p \in DOMAIN c.files : c.base[p] # c.tree[p]
           /\ \A p \in c.external : {c.base[p], c.tree[p]} \subseteq Contents
<1> USE DEF Changes!Trees, Changes!Present, Changes!Added, Changes!Modified, Changes!Deleted
<1>1. Changes!Changes(base, now) = {p \in TreePaths : base[p] # now[p]}
  BY DEF Changes!Changes
<1>2. now = [p \in TreePaths |-> IF p \in Changes!Changes(base, now)
                              THEN [q \in Changes!Changes(base, now) |-> now[q]][p] ELSE base[p]]
  BY <1>1
<1>3. QED
  BY <1>1, <1>2 DEF Changes!ChangeSet

LEMMA CopiedNext ==
    ASSUME ChangesTyped, Copied, Changes!Next
    PROVE  Copied'
<1> USE Walks DEF Copied, ChangesTyped, Changes!Trees, Changes!baseline, Changes!repository, Changes!Idle, Changes!NoTree, Changes!Present
<1>1. ASSUME NEW p \in TreePaths, NEW content \in Contents \cup {Changes!Absent},
             Changes!Edit(p, content)
      PROVE  Copied'
  BY <1>1 DEF Changes!Edit
<1>2. ASSUME NEW p \in TreePaths, Changes!TouchPath(p)
      PROVE  Copied'
  BY <1>2 DEF Changes!TouchPath
<1>3. ASSUME NEW p \in TreePaths, Changes!CopyFile(p)
      PROVE  Copied'
  BY <1>3 DEF Changes!CopyFile, Changes!Goto
<1>4. ASSUME NEW p \in TreePaths, Changes!RestoreFile(p)
      PROVE  Copied'
  BY <1>4 DEF Changes!RestoreFile, Changes!Goto
<1>5. ASSUME NEW p \in TreePaths, Changes!RemoveExtra(p)
      PROVE  Copied'
  BY <1>5 DEF Changes!RemoveExtra, Changes!Goto
<1>6. CASE Changes!Die
  BY <1>6 DEF Changes!Die
<1>7. CASE Changes!Snapshot
  BY <1>7 DEF Changes!Snapshot, Changes!Begin
<1>8. CASE Changes!RecordBaseline
  BY <1>8 DEF Changes!RecordBaseline
<1>9. CASE Changes!Prepare
  BY <1>9 DEF Changes!Prepare
<1>10. CASE Changes!Apply
  BY <1>10 DEF Changes!Apply
<1>11. CASE Changes!Rollback
  BY <1>11 DEF Changes!Rollback, Changes!Begin
<1>12. CASE Changes!ListExtras
  BY <1>12 DEF Changes!ListExtras, Changes!Goto
<1>13. CASE Changes!Prove
  BY <1>13 DEF Changes!Prove
<1>14. CASE Changes!Disclose
  BY <1>14 DEF Changes!Disclose, Changes!Begin
<1>15. CASE Changes!GitAdd
  BY <1>15 DEF Changes!GitAdd, Changes!Goto
<1>16. CASE Changes!GitCommit
  BY <1>16 DEF Changes!GitCommit, Changes!Goto
<1>17. CASE Changes!RecordCommit
  BY <1>17 DEF Changes!RecordCommit
<1>18. QED
  BY <1>1, <1>2, <1>3, <1>4, <1>5, <1>6, <1>7, <1>8, <1>9, <1>10, <1>11, <1>12, <1>13, <1>14,
     <1>15, <1>16, <1>17
  DEF Changes!Next

LEMMA RestoredNext ==
    ASSUME ChangesTyped, Copied, Restored, Changes!Next
    PROVE  Restored'
<1> USE Walks DEF Restored, Copied, ChangesTyped, Changes!Trees, Changes!baseline, Changes!repository, Changes!Idle, Changes!NoTree, Changes!Present
<1>1. ASSUME NEW p \in TreePaths, NEW content \in Contents \cup {Changes!Absent},
             Changes!Edit(p, content)
      PROVE  Restored'
  BY <1>1 DEF Changes!Edit
<1>2. ASSUME NEW p \in TreePaths, Changes!TouchPath(p)
      PROVE  Restored'
  BY <1>2 DEF Changes!TouchPath
<1>3. ASSUME NEW p \in TreePaths, Changes!CopyFile(p)
      PROVE  Restored'
  BY <1>3 DEF Changes!CopyFile, Changes!Goto
<1>4. ASSUME NEW p \in TreePaths, Changes!RestoreFile(p)
      PROVE  Restored'
  BY <1>4 DEF Changes!RestoreFile, Changes!Goto
<1>5. ASSUME NEW p \in TreePaths, Changes!RemoveExtra(p)
      PROVE  Restored'
  <2>1. changes_tree' = [changes_tree EXCEPT ![p] = Changes!Absent] /\ changes_tree' \in Changes!Trees
    BY <1>5 DEF Changes!RemoveExtra
  <2>2. Changes!Present(Changes!Inventory(changes_tree'))
            = Changes!Present(Changes!Inventory(changes_tree)) \ {p}
    BY <2>1 DEF Changes!Inventory
  <2>3. /\ changes_call.step = "remove" /\ p \in changes_call.todo
        /\ changes_call' = [changes_call EXCEPT !.step = "remove", !.todo = changes_call.todo \ {p}]
        /\ UNCHANGED <<changes_manifest, changes_raced>>
    BY <1>5 DEF Changes!RemoveExtra, Changes!Goto
  <2>4. /\ changes_call'.step = "remove" /\ changes_call'.todo = changes_call.todo \ {p}
        /\ changes_call'.seen = changes_call.seen
    BY <2>3
  <2>5. \A q \in TreePaths \ {p} : changes_tree'[q] = changes_tree[q]
    BY <2>1
  <2> HIDE Walks
  <2>6. \A q \in Changes!Present(changes_call.seen) : q \in TreePaths \ {p}
    BY <2>3
  <2>7. QED
    BY <2>2, <2>3, <2>4, <2>5, <2>6
<1>6. CASE Changes!Die
  BY <1>6 DEF Changes!Die
<1>7. CASE Changes!Snapshot
  BY <1>7 DEF Changes!Snapshot, Changes!Begin
<1>8. CASE Changes!RecordBaseline
  BY <1>8 DEF Changes!RecordBaseline
<1>9. CASE Changes!Prepare
  BY <1>9 DEF Changes!Prepare
<1>10. CASE Changes!Apply
  BY <1>10 DEF Changes!Apply
<1>11. CASE Changes!Rollback
  <2>1. PICK base \in changes_manifest :
            changes_call' = [step |-> "restore", todo |-> Changes!Present(base), seen |-> base]
    BY <1>11 DEF Changes!Rollback, Changes!Begin
  <2>2. changes_manifest = {base}
    BY DEF AtMostOne
  <2>3. QED
    BY <1>11, <2>1, <2>2 DEF Changes!Rollback
<1>12. CASE Changes!ListExtras
  BY <1>12 DEF Changes!ListExtras, Changes!Goto
<1>13. CASE Changes!Prove
  BY <1>13 DEF Changes!Prove
<1>14. CASE Changes!Disclose
  BY <1>14 DEF Changes!Disclose, Changes!Begin
<1>15. CASE Changes!GitAdd
  BY <1>15 DEF Changes!GitAdd, Changes!Goto
<1>16. CASE Changes!GitCommit
  BY <1>16 DEF Changes!GitCommit, Changes!Goto
<1>17. CASE Changes!RecordCommit
  BY <1>17 DEF Changes!RecordCommit
<1>18. QED
  BY <1>1, <1>2, <1>3, <1>4, <1>5, <1>6, <1>7, <1>8, <1>9, <1>10, <1>11, <1>12, <1>13, <1>14,
     <1>15, <1>16, <1>17
  DEF Changes!Next

LEMMA CommittingNext ==
    ASSUME ChangesTyped, Committing, Changes!Next
    PROVE  Committing'
<1> USE Walks DEF Committing, ChangesTyped, Changes!Trees, Changes!baseline, Changes!repository, Changes!Idle, Changes!NoTree, Changes!Present
<1>1. ASSUME NEW p \in TreePaths, NEW content \in Contents \cup {Changes!Absent},
             Changes!Edit(p, content)
      PROVE  Committing'
  BY <1>1 DEF Changes!Edit
<1>2. ASSUME NEW p \in TreePaths, Changes!TouchPath(p)
      PROVE  Committing'
  BY <1>2 DEF Changes!TouchPath
<1>3. ASSUME NEW p \in TreePaths, Changes!CopyFile(p)
      PROVE  Committing'
  BY <1>3 DEF Changes!CopyFile, Changes!Goto
<1>4. ASSUME NEW p \in TreePaths, Changes!RestoreFile(p)
      PROVE  Committing'
  BY <1>4 DEF Changes!RestoreFile, Changes!Goto
<1>5. ASSUME NEW p \in TreePaths, Changes!RemoveExtra(p)
      PROVE  Committing'
  BY <1>5 DEF Changes!RemoveExtra, Changes!Goto
<1>6. CASE Changes!Die
  BY <1>6 DEF Changes!Die
<1>7. CASE Changes!Snapshot
  BY <1>7 DEF Changes!Snapshot, Changes!Begin
<1>8. CASE Changes!RecordBaseline
  BY <1>8 DEF Changes!RecordBaseline
<1>9. CASE Changes!Prepare
  BY <1>9 DEF Changes!Prepare
<1>10. CASE Changes!Apply
  BY <1>10 DEF Changes!Apply
<1>11. CASE Changes!Rollback
  BY <1>11 DEF Changes!Rollback, Changes!Begin
<1>12. CASE Changes!ListExtras
  BY <1>12 DEF Changes!ListExtras, Changes!Goto
<1>13. CASE Changes!Prove
  BY <1>13 DEF Changes!Prove
<1>14. CASE Changes!Disclose
  BY <1>14 DEF Changes!Disclose, Changes!Begin
<1>15. CASE Changes!GitAdd
  BY <1>15 DEF Changes!GitAdd, Changes!Goto, Changes!AddAll, AsDisclosed
<1>16. CASE Changes!GitCommit
  BY <1>16 DEF Changes!GitCommit, Changes!Goto
<1>17. CASE Changes!RecordCommit
  BY <1>17 DEF Changes!RecordCommit
<1>18. QED
  BY <1>1, <1>2, <1>3, <1>4, <1>5, <1>6, <1>7, <1>8, <1>9, <1>10, <1>11, <1>12, <1>13, <1>14,
     <1>15, <1>16, <1>17
  DEF Changes!Next

\* What an answer says of a change set does not depend on what happens next.
AddsUp(c) ==
    /\ c.tree = [p \in TreePaths |-> IF p \in DOMAIN c.files THEN c.files[p] ELSE c.base[p]]
    /\ \A p \in DOMAIN c.files : c.base[p] # c.tree[p]
    /\ \A p \in c.external : {c.base[p], c.tree[p]} \subseteq Contents

Answered ==
    /\ Prepared
    /\ \A c \in changes_answer :
        /\ c.of \in {"changes", "applied"} => AddsUp(c)
        /\ c.of = "rollback" => (c.restored => c.found = c.base) /\ (c.found = c.base \/ c.raced)
        /\ c.of = "commit" =>
            c.said \in changes_disclosed /\ (AsDisclosed(changes_head, c.said) \/ c.raced)

LEMMA AnsweredNext ==
    ASSUME ChangesTyped, Copied, Restored, Committing, Answered, Changes!Next
    PROVE  Answered'
<1> USE DEF Answered, Prepared, Changes!baseline, Changes!repository
<1>1. CASE UNCHANGED <<changes_answer, changes_disclosed, changes_head>>
  BY <1>1 DEF AddsUp, AsDisclosed
<1>2. CASE changes_answer' = {}
  BY <1>2
<1>3. CASE Changes!Prepare
  <2>1. PICK base \in changes_manifest : changes_answer' = {Changes!ChangeSet(base, Changes!Inventory(changes_tree))}
    BY <1>3 DEF Changes!Prepare
  <2>2. AddsUp(Changes!ChangeSet(base, Changes!Inventory(changes_tree)))
    BY PreparedAddsUp, Walks DEF AddsUp, ChangesTyped
  <2>3. QED
    BY <2>1, <2>2 DEF Changes!ChangeSet
<1>4. CASE Changes!Apply
  <2>1. PICK c \in changes_answer :
            c.of = "changes" /\ changes_answer' = {[c EXCEPT !.of = "applied"]}
    BY <1>4 DEF Changes!Apply
  <2>2. [c EXCEPT !.of = "applied"] =
            [of |-> "applied", base |-> c.base, tree |-> c.tree, files |-> c.files,
             external |-> c.external]
    BY <2>1
  <2>3. PICK d : /\ changes_answer' = {d}
                 /\ d = [of |-> "applied", base |-> c.base, tree |-> c.tree, files |-> c.files,
                         external |-> c.external]
    BY <2>1, <2>2
  <2>4. d.of = "applied" /\ d.base = c.base /\ d.tree = c.tree /\ d.files = c.files
        /\ d.external = c.external
    BY <2>3
  <2>5. AddsUp(d)
    BY <2>1, <2>4 DEF AddsUp
  <2>6. QED
    BY <2>3, <2>4, <2>5
<1>5. CASE Changes!Prove
  <2>1. changes_raced = {} => Changes!Inventory(changes_tree) = changes_call.seen
    BY <1>5, Walks DEF Copied, Changes!Prove, Restored, ChangesTyped, Changes!Trees, Changes!Present
  <2>2. PICK r : changes_answer' = {r} /\ r = Changes!RollbackAnswer(Changes!Inventory(changes_tree) = changes_call.seen)
    BY <1>5 DEF Changes!Prove
  <2>3. /\ r.of = "rollback" /\ r.restored = (Changes!Inventory(changes_tree) = changes_call.seen)
        /\ r.found = Changes!Inventory(changes_tree) /\ r.base = changes_call.seen /\ r.raced = (changes_raced # {})
    BY <2>2 DEF Changes!RollbackAnswer
  <2>4. QED
    BY <2>1, <2>2, <2>3
<1>6. CASE Changes!GitCommit
  <2>1. PICK c : changes_answer' = {c} /\ c = [of |-> "commit", said |-> changes_call.seen,
                                               raced |-> "call" \in changes_raced]
    BY <1>6 DEF Changes!GitCommit
  <2>2. c.of = "commit" /\ c.said = changes_call.seen /\ c.raced = ("call" \in changes_raced)
    BY <2>1
  <2>3. /\ changes_call.seen \in changes_disclosed' /\ changes_head' = changes_staged
        /\ "call" \notin changes_raced => AsDisclosed(changes_staged, changes_call.seen)
    BY <1>6 DEF Changes!GitCommit, Committing
  <2>4. QED
    BY <2>1, <2>2, <2>3
<1>7. QED
  <2>1. ASSUME NEW p \in TreePaths, NEW content \in Contents \cup {Changes!Absent},
               Changes!Edit(p, content)
        PROVE  UNCHANGED <<changes_answer, changes_disclosed, changes_head>>
    BY <2>1 DEF Changes!Edit
  <2>2. ASSUME NEW p \in TreePaths,
               \/ Changes!TouchPath(p) \/ Changes!CopyFile(p) \/ Changes!RestoreFile(p)
               \/ Changes!RemoveExtra(p)
        PROVE  UNCHANGED <<changes_answer, changes_disclosed, changes_head>>
    BY <2>2 DEF Changes!TouchPath, Changes!CopyFile, Changes!RestoreFile, Changes!RemoveExtra
  <2>3. CASE \/ Changes!Die \/ Changes!RecordBaseline \/ Changes!ListExtras
             \/ Changes!GitAdd \/ Changes!RecordCommit
    BY <1>1, <2>3
    DEF Changes!Die, Changes!RecordBaseline, Changes!ListExtras, Changes!GitAdd,
        Changes!RecordCommit
  <2>4. CASE Changes!Snapshot \/ Changes!Rollback \/ Changes!Disclose
    BY <1>2, <2>4 DEF Changes!Snapshot, Changes!Rollback, Changes!Disclose, Changes!Begin
  <2>5. QED
    BY <1>1, <1>3, <1>4, <1>5, <1>6, <2>1, <2>2, <2>3, <2>4 DEF Changes!Next

ChangesSound == ChangesTyped /\ Copied /\ Restored /\ Committing /\ Answered

LEMMA ChangesInit == Init => ChangesSound
<1> SUFFICES ASSUME Init
             PROVE  ChangesSound
  OBVIOUS
<1> USE DEF Init, Changes!Init, Changes!Idle, Changes!NoTree
<1>1. ChangesTyped
  BY WorkspacesAssumption, OneOrNone
  DEF ChangesTyped, Changes!Trees, Changes!Steps, Changes!ChangeSetAssumption
<1>2. Answered /\ Copied /\ Restored /\ Committing
  BY DEF Answered, Prepared, Copied, Restored, Committing, Changes!Present
<1>3. QED
  BY <1>1, <1>2 DEF ChangesSound

LEMMA ChangesStep == ChangesSound /\ [Next]_vars => ChangesSound'
<1> SUFFICES ASSUME ChangesSound, [Next]_vars
             PROVE  ChangesSound'
  OBVIOUS
<1>1. CASE Changes!Next
  BY <1>1, ChangesTypesNext, CopiedNext, RestoredNext, CommittingNext, AnsweredNext DEF ChangesSound
<1>2. CASE UNCHANGED changes
  <2>1. ChangesTyped' /\ Copied' /\ Restored'
    BY <1>2 DEF changes, ChangesSound, ChangesTyped, Copied, Restored, AtMostOne
  <2>2. Committing' /\ Answered'
    BY <1>2 DEF changes, ChangesSound, Committing, Answered, Prepared, AddsUp, AsDisclosed
  <2>3. QED
    BY <2>1, <2>2 DEF ChangesSound
<1>3. QED
  BY <1>1, <1>2 DEF Next, Unless, vars, changes

LEMMA ChangesAlways == Spec => [](Changes!TypeOK /\ ChangesAreTold)
<1>1. ChangesSound => Changes!TypeOK
  <2>1. ChangesTyped =>
            Cardinality(changes_manifest) <= 1 /\ Cardinality(changes_answer) <= 1
    BY AtMostOneCounts DEF ChangesTyped
  <2>2. ASSUME ChangesTyped
        PROVE  Changes!TypeOK
    <3>1. Cardinality(changes_manifest) <= 1 /\ Cardinality(changes_answer) <= 1
      BY <2>1, <2>2
    <3>2. QED
      BY <2>2, <3>1, SameCardinality DEF ChangesTyped, Changes!TypeOK
  <2>3. QED
    BY <2>2 DEF ChangesSound
<1>2. ChangesSound => ChangesAreTold
  BY DEF ChangesSound, Answered, AddsUp, AsDisclosed, ChangesAreTold, Changes!ChangeSetAddsUp,
         Changes!CommitsAreDisclosed, Changes!RollbackProves, Changes!Answers
<1>3. QED
  BY <1>1, <1>2, ChangesInit, ChangesStep, PTL DEF Spec

-----------------------------------------------------------------------------
(* The worktrees of delegated tasks.                                       *)

TreesTyped ==
    /\ Worktrees!TypeOK
    /\ trees_request.step # "idle" => trees_request.seed \in Seeds

\* What has no event has no directory, metadata or change either, and nothing of
\* it is in quarantine; the call in progress makes what was not there.
Making ==
    /\ \A s \in Seeds : ~Worktrees!Seen(s) =>
        /\ trees_dirs[s] = "absent" /\ trees_quarantined[s] = "absent"
        /\ s \notin trees_described \cup trees_unreviewed
    /\ trees_request.step \in {"make", "describe"} =>
        /\ Worktrees!Seen(trees_request.seed)
        /\ trees_quarantined[trees_request.seed] = "absent"
        /\ trees_request.seed \notin trees_described \cup trees_unreviewed
    /\ trees_request.step = "describe" => trees_dirs[trees_request.seed] = "whole"
    /\ trees_request.step = "record" => trees_quarantined[trees_request.seed] # "absent"

TreesSound == TreesTyped /\ Making /\ Worktrees!WorktreesAreTold

LEMMA TreesInit == Init => TreesSound
<1> SUFFICES ASSUME Worktrees!Init
             PROVE  TreesSound
  BY DEF Init
<1> USE WorkspacesAssumption DEF Worktrees!Init, Worktrees!NoRequest, Worktrees!WorktreeAssumption
<1>1. TreesTyped
  <2>1. {trees_is_git, trees_dirty} \subseteq BOOLEAN
    OBVIOUS
  <2>2. trees_failures \in 0..MaxFailures
    OBVIOUS
  <2>3. QED
    BY <2>1, <2>2 DEF TreesTyped, Worktrees!TypeOK
<1>2. Making
  BY DEF Making, Worktrees!Seen
<1>3. Worktrees!WorktreesAreTold
  BY DEF Worktrees!WorktreesAreTold, Worktrees!Seen
<1>4. QED
  BY <1>1, <1>2, <1>3 DEF TreesSound

LEMMA TreesNext ==
    ASSUME TreesSound, Worktrees!Next
    PROVE  TreesSound'
<1> USE WorkspacesAssumption
    DEF TreesSound, TreesTyped, Making, Worktrees!TypeOK, Worktrees!NoRequest,
        Worktrees!WorktreesAreTold, Worktrees!Seen, Worktrees!WorktreeAssumption,
        Worktrees!source, Worktrees!events, Worktrees!worktrees
<1>1. CASE Worktrees!EditSource
  BY <1>1 DEF Worktrees!EditSource
<1>2. CASE Worktrees!Make
  BY <1>2 DEF Worktrees!Make
<1>3. CASE Worktrees!MakeSome
  BY <1>3 DEF Worktrees!MakeSome
<1>4. CASE Worktrees!Describe
  BY <1>4 DEF Worktrees!Describe
<1>5. CASE Worktrees!GitFails
  BY <1>5 DEF Worktrees!GitFails
<1>6. CASE Worktrees!Fail
  BY <1>6 DEF Worktrees!Fail
<1>7. CASE Worktrees!RecordMoved
  BY <1>7 DEF Worktrees!RecordMoved
<1>8. ASSUME NEW s \in Seeds, Worktrees!Work(s)
      PROVE  TreesSound'
  BY <1>8 DEF Worktrees!Work
<1>9. ASSUME NEW s \in Seeds, Worktrees!Review(s)
      PROVE  TreesSound'
  BY <1>9 DEF Worktrees!Review
<1>10. ASSUME NEW s \in Seeds, Worktrees!MoveAway(s)
       PROVE  TreesSound'
  BY <1>10 DEF Worktrees!MoveAway, Worktrees!Blocked
<1>11. ASSUME NEW s \in Seeds, NEW key \in RequestKeys, Worktrees!RecordCreated(s, key)
       PROVE  TreesSound'
  <2>1. PICK e : /\ e = [key |-> key, seed |-> s, dirty |-> trees_dirty]
                 /\ trees_created' = trees_created \cup {e}
    BY <1>11 DEF Worktrees!RecordCreated
  <2>2. e \in [key : RequestKeys, seed : Seeds, dirty : BOOLEAN] /\ e.key = key /\ e.seed = s
    BY <2>1
  <2>3. \A q \in Seeds : Worktrees!Seen(q)' <=> Worktrees!Seen(q) \/ q = s
    BY <2>1, <2>2
  <2>4. TreesTyped'
    BY <1>11, <2>1, <2>2 DEF Worktrees!RecordCreated
  <2>5. Making'
    BY <1>11, <2>3 DEF Worktrees!RecordCreated
  <2>6. \A q \in Seeds :
            trees_dirs[q] # "absent" => Worktrees!Seen(q)'
    BY <2>3
  <2>7. Worktrees!WorktreesAreTold'
    BY <1>11, <2>1, <2>2, <2>6 DEF Worktrees!RecordCreated
  <2>8. QED
    BY <2>4, <2>5, <2>7
<1>12. ASSUME NEW s \in Seeds, NEW key \in RequestKeys, Worktrees!Replay(s, key)
       PROVE  TreesSound'
  BY <1>12 DEF Worktrees!Replay
<1>13. QED
  BY <1>1, <1>2, <1>3, <1>4, <1>5, <1>6, <1>7, <1>8, <1>9, <1>10, <1>11, <1>12
  DEF Worktrees!Next

LEMMA TreesStep == TreesSound /\ [Next]_vars => TreesSound'
<1> SUFFICES ASSUME TreesSound, [Next]_vars
             PROVE  TreesSound'
  OBVIOUS
<1>1. CASE Worktrees!Next
  BY <1>1, TreesNext
<1>2. CASE UNCHANGED trees
  BY <1>2
  DEF trees, TreesSound, TreesTyped, Making, Worktrees!TypeOK, Worktrees!WorktreesAreTold,
      Worktrees!Seen
<1>3. QED
  BY <1>1, <1>2 DEF Next, Unless, vars, trees

LEMMA TreesAlways == Spec => [](Worktrees!TypeOK /\ Worktrees!WorktreesAreTold)
<1>1. TreesSound => Worktrees!TypeOK /\ Worktrees!WorktreesAreTold
  BY DEF TreesSound, TreesTyped
<1>2. QED
  BY <1>1, TreesInit, TreesStep, PTL DEF Spec

-----------------------------------------------------------------------------
(* Delegations.                                                            *)

Events ==
    [type : {"run.binding_recorded", "task.delegated"}, name : Worktrees!Names,
     parent : Worktrees!Names, capabilities : SUBSET Capabilities, budget : Int]

Binding(event) == event.type = "run.binding_recorded"

ChildrenTyped ==
    /\ children_log \in Seq(Events)
    /\ children_clock \in 1..MaxEvents + 1 /\ children_clock <= Len(children_log) + 1

\* A binding is the platform's; a delegation has a time of its own, which is
\* the last in its name and later than all there were before.
Timed ==
    \A i \in DOMAIN children_log :
        /\ Binding(children_log[i]) =>
            /\ children_log[i].name[2] = <<>>
            /\ children_log[i].capabilities = Platform /\ children_log[i].budget = Baseline
        /\ ~Binding(children_log[i]) => children_log[i].name[2] # <<>>
        /\ \A m \in 1..Len(children_log[i].name[2]) :
            /\ children_log[i].name[2][m] < children_clock
            /\ \A j \in i + 1..Len(children_log) : ~Binding(children_log[j]) =>
                children_log[i].name[2][m]
                    < children_log[j].name[2][Len(children_log[j].name[2])]

ChildrenSound == ChildrenTyped /\ Timed /\ Worktrees!ChildrenNarrow

LEMMA NamesTyped ==
    ASSUME NEW name \in Worktrees!Names
    PROVE  name[1] \in Runs /\ name[2] \in Seq(1..MaxEvents) /\ Len(name[2]) <= MaxDepth
<1> USE WorkspacesAssumption DEF Worktrees!ChildAssumption
<1>1. ASSUME NEW r \in Runs, name = <<r, <<>>>>
      PROVE  name[1] \in Runs /\ name[2] \in Seq(1..MaxEvents) /\ Len(name[2]) <= MaxDepth
  BY <1>1, EmptySeq
<1>2. ASSUME NEW r \in Runs, NEW n \in 1..MaxDepth, NEW times \in [1..n -> 1..MaxEvents],
             name = <<r, times>>
      PROVE  name[1] \in Runs /\ name[2] \in Seq(1..MaxEvents) /\ Len(name[2]) <= MaxDepth
  BY <1>2, SeqDef
<1>3. QED
  BY <1>1, <1>2 DEF Worktrees!Names

LEMMA EventsTyped ==
    ASSUME NEW e \in Events
    PROVE  /\ e.name \in Worktrees!Names /\ e.name[2] \in Seq(1..MaxEvents)
           /\ e.parent \in Worktrees!Names
           /\ e.capabilities \subseteq Capabilities /\ e.budget \in Int
BY NamesTyped DEF Events

LEMMA NamesExtended ==
    ASSUME NEW name \in Worktrees!Names, NEW time \in 1..MaxEvents, Len(name[2]) < MaxDepth
    PROVE  /\ <<name[1], Append(name[2], time)>> \in Worktrees!Names
           /\ Append(name[2], time) \in Seq(1..MaxEvents)
<1> USE WorkspacesAssumption DEF Worktrees!ChildAssumption
<1> DEFINE times == Append(name[2], time)
<1>1. times \in Seq(1..MaxEvents) /\ Len(times) \in 1..MaxDepth
  BY NamesTyped
<1>2. times \in [1..Len(times) -> 1..MaxEvents]
  BY <1>1, LenProperties
<1>3. PICK m \in 1..MaxDepth : times \in [1..m -> 1..MaxEvents]
  BY <1>1, <1>2
<1>4. name[1] \in Runs
  BY NamesTyped
<1> HIDE DEF times
<1>5. <<name[1], times>> \in Worktrees!Names
  BY <1>3, <1>4 DEF Worktrees!Names
<1>6. QED
  BY <1>1, <1>5 DEF times

LEMMA ChildrenInit == Init => ChildrenSound
<1> SUFFICES ASSUME Worktrees!ChildInit
             PROVE  ChildrenSound
  BY DEF Init
<1>1. ChildrenTyped /\ DOMAIN children_log = {}
  BY WorkspacesAssumption, EmptySeq
  DEF Worktrees!ChildInit, ChildrenTyped, Worktrees!ChildAssumption
<1>2. QED
  BY <1>1 DEF ChildrenSound, Timed, Worktrees!ChildrenNarrow

\* A name that is part of a later one is read out of the log before it only in
\* its own event or, of a run, in one of a longer name.
LEMMA ScopeNarrows ==
    ASSUME ChildrenSound, NEW parent \in Worktrees!Names, NEW scope \in Worktrees!Scope(parent),
           NEW j \in DOMAIN children_log, children_log[j].name = parent
    PROVE  /\ scope.capabilities \subseteq children_log[j].capabilities
           /\ scope.budget <= children_log[j].budget
<1>1. PICK k \in DOMAIN children_log :
          /\ scope = children_log[k] /\ Worktrees!IsOf(children_log[k], parent)
          /\ \A i \in DOMAIN children_log :
                Worktrees!IsOf(children_log[i], parent) => k <= i
  BY DEF Worktrees!Scope
<1>2. children_log[j] \in Events /\ children_log[k] \in Events
  BY DEF ChildrenSound, ChildrenTyped
<1>3. scope.capabilities \subseteq Platform /\ scope.budget <= Baseline
  BY <1>1 DEF ChildrenSound, Worktrees!ChildrenNarrow
<1>4. CASE Binding(children_log[j])
  BY <1>3, <1>4 DEF ChildrenSound, Timed
<1>5. CASE ~Binding(children_log[j])
  <2>1. parent[2] \in Seq(1..MaxEvents) /\ parent[2] # <<>> /\ Len(parent[2]) \in Nat \ {0}
    BY <1>5, NamesTyped, EmptySeq DEF ChildrenSound, Timed
  <2>2. Worktrees!IsOf(children_log[j], parent)
    <3>1. SubSeq(parent[2], 1, Len(parent[2])) = parent[2]
      BY <2>1, SubSeqFull
    <3>2. QED
      BY <1>2, <1>5, <2>1, <3>1 DEF Worktrees!IsOf, Worktrees!Contains, Binding, Events
  <2>3. k <= j
    BY <1>1, <2>2
  <2>4. ~Binding(children_log[k])
    BY <1>1, <2>1 DEF Binding, Worktrees!IsOf, ChildrenSound, Timed
  <2>5. /\ Len(parent[2]) <= Len(children_log[k].name[2])
        /\ parent[2] = SubSeq(children_log[k].name[2], 1, Len(parent[2]))
    BY <1>1, <2>4 DEF Binding, Worktrees!IsOf, Worktrees!Contains
  <2>6. children_log[k].name[2] \in Seq(1..MaxEvents)
    BY <1>2, NamesTyped DEF Events
  <2>7. children_log[k].name[2][Len(parent[2])] = parent[2][Len(parent[2])]
    BY <2>1, <2>5, <2>6
  <2>8. k = j
    <3>1. ASSUME k < j
          PROVE  FALSE
      <4>1. j \in k + 1..Len(children_log) /\ Len(parent[2]) \in 1..Len(children_log[k].name[2])
        BY <2>1, <2>5, <2>6, <3>1 DEF ChildrenSound, ChildrenTyped
      <4>2. children_log[k].name[2][Len(parent[2])] < parent[2][Len(parent[2])]
        BY <1>5, <4>1 DEF ChildrenSound, Timed
      <4>3. parent[2][Len(parent[2])] \in Nat
        <5>1. Len(parent[2]) \in 1..Len(parent[2])
          BY <2>1
        <5>2. parent[2][Len(parent[2])] \in 1..MaxEvents
          BY <2>1, <5>1, ElementOfSeq
        <5>3. QED
          BY <5>2
      <4>4. QED
        BY <2>7, <4>2, <4>3
    <3>2. QED
      BY <2>3, <3>1 DEF ChildrenSound, ChildrenTyped
  <2>9. QED
    BY <1>1, <1>2, <2>8 DEF Events
<1>6. QED
  BY <1>4, <1>5

LEMMA ChildrenNext ==
    ASSUME ChildrenSound, Worktrees!ChildNext
    PROVE  ChildrenSound'
<1> USE WorkspacesAssumption DEF Worktrees!ChildAssumption
<1> DEFINE n == Len(children_log)
<1>1. n \in Nat /\ DOMAIN children_log = 1..n /\ children_log \in Seq(Events)
  BY DEF ChildrenSound, ChildrenTyped
<1>2. ASSUME NEW e \in Events, children_log' = Append(children_log, e),
             children_clock' \in 1..MaxEvents + 1, children_clock' <= n + 2,
             children_clock <= children_clock',
             Binding(e) => e.name[2] = <<>> /\ e.capabilities = Platform /\ e.budget = Baseline,
             ~Binding(e) => e.name[2] # <<>> /\ e.name[2][Len(e.name[2])] = children_clock,
             \A m \in 1..Len(e.name[2]) : e.name[2][m] < children_clock',
             e.capabilities \subseteq Platform, e.budget <= Baseline,
             \A j \in 1..n : children_log[j].name = e.parent =>
                e.capabilities \subseteq children_log[j].capabilities
                /\ e.budget <= children_log[j].budget
      PROVE  ChildrenSound'
  <2>1. /\ DOMAIN children_log' = 1..n + 1 /\ Len(children_log') = n + 1
        /\ children_log'[n + 1] = e
        /\ \A i \in 1..n : children_log'[i] = children_log[i]
        /\ children_log' \in Seq(Events)
    BY <1>1, <1>2
  <2>2. ChildrenTyped'
    BY <1>1, <1>2, <2>1 DEF ChildrenTyped
  <2>3. \A i \in 1..n : children_log[i].name[2] \in Seq(1..MaxEvents)
    BY <1>1, EventsTyped
  <2>4. Timed'
    <3>1. ASSUME NEW i \in 1..n, NEW m \in 1..Len(children_log[i].name[2])
          PROVE  /\ children_log[i].name[2][m] < children_clock'
                 /\ ~Binding(e) => children_log[i].name[2][m] < e.name[2][Len(e.name[2])]
      <4>1. children_log[i].name[2][m] \in 1..MaxEvents
        BY <2>3, ElementOfSeq
      <4>2. children_log[i].name[2][m] < children_clock
        BY <1>1 DEF ChildrenSound, Timed
      <4>3. children_clock \in Nat /\ children_clock' \in Nat
        BY <1>2 DEF ChildrenSound, ChildrenTyped
      <4>4. children_log[i].name[2][m] < children_clock'
        BY <1>2, <4>1, <4>2, <4>3
      <4>5. ~Binding(e) => e.name[2][Len(e.name[2])] = children_clock
        BY <1>2
      <4>6. QED
        BY <4>2, <4>4, <4>5, Zenon
    <3>2. ASSUME NEW i \in 1..n
          PROVE  /\ Binding(children_log[i]) =>
                    /\ children_log[i].name[2] = <<>>
                    /\ children_log[i].capabilities = Platform /\ children_log[i].budget = Baseline
                 /\ ~Binding(children_log[i]) => children_log[i].name[2] # <<>>
                 /\ \A m \in 1..Len(children_log[i].name[2]), j \in i + 1..n :
                        ~Binding(children_log[j]) =>
                            children_log[i].name[2][m]
                                < children_log[j].name[2][Len(children_log[j].name[2])]
      BY <1>1 DEF ChildrenSound, Timed
    <3>3. ASSUME NEW i \in 1..n + 1
          PROVE  /\ Binding(children_log'[i]) =>
                    /\ children_log'[i].name[2] = <<>>
                    /\ children_log'[i].capabilities = Platform
                    /\ children_log'[i].budget = Baseline
                 /\ ~Binding(children_log'[i]) => children_log'[i].name[2] # <<>>
      BY <1>1, <1>2, <2>1, <3>2
    <3>4. ASSUME NEW i \in 1..n + 1, NEW m \in 1..Len(children_log'[i].name[2])
          PROVE  children_log'[i].name[2][m] < children_clock'
      <4>1. CASE i \in 1..n
        BY <2>1, <3>1, <3>4, <4>1, Zenon
      <4>2. CASE i = n + 1
        BY <1>2, <2>1, <3>4, <4>2, Zenon
      <4>3. QED
        BY <1>1, <4>1, <4>2
    <3>5. ASSUME NEW i \in 1..n + 1, NEW m \in 1..Len(children_log'[i].name[2]),
                 NEW j \in i + 1..n + 1, ~Binding(children_log'[j])
          PROVE  children_log'[i].name[2][m]
                    < children_log'[j].name[2][Len(children_log'[j].name[2])]
      <4>1. i \in 1..n /\ children_log'[i] = children_log[i]
        BY <1>1, <2>1
      <4>2. CASE j = n + 1
        BY <2>1, <3>1, <3>5, <4>1, <4>2
      <4>3. CASE j # n + 1
        <5>1. j \in i + 1..n /\ children_log'[j] = children_log[j]
          BY <1>1, <2>1, <4>1, <4>3
        <5>2. QED
          BY <3>2, <3>5, <4>1, <5>1
      <4>4. QED
        BY <4>2, <4>3
    <3>6. QED
      BY <2>1, <3>3, <3>4, <3>5 DEF Timed, Binding
  <2>5. Worktrees!ChildrenNarrow'
    BY <1>1, <1>2, <2>1 DEF ChildrenSound, Worktrees!ChildrenNarrow
  <2>6. QED
    BY <2>2, <2>4, <2>5 DEF ChildrenSound
<1>3. ASSUME NEW r \in Runs, Worktrees!BindRun(r)
      PROVE  ChildrenSound'
  <2> DEFINE e == [type |-> "run.binding_recorded", name |-> <<r, <<>>>>, parent |-> <<r, <<>>>>,
                   capabilities |-> Platform, budget |-> Baseline]
  <2>1. <<r, <<>>>> \in Worktrees!Names
    BY DEF Worktrees!Names
  <2>2. e \in Events /\ Binding(e) /\ Len(e.name[2]) = 0
    BY <2>1 DEF Events, Binding
  <2>3. children_log' = Append(children_log, e) /\ UNCHANGED children_clock
    BY <1>3 DEF Worktrees!BindRun
  <2>4. \A j \in 1..n : children_log[j].name = e.parent =>
            Platform \subseteq children_log[j].capabilities
            /\ Baseline <= children_log[j].budget
    BY <1>1 DEF ChildrenSound, Timed
  <2>5. /\ children_clock' \in 1..MaxEvents + 1 /\ children_clock' <= n + 2
        /\ children_clock <= children_clock'
    BY <1>1, <2>3 DEF ChildrenSound, ChildrenTyped
  <2>6. /\ e.name[2] = <<>> /\ e.capabilities = Platform /\ e.budget = Baseline
        /\ \A m \in 1..Len(e.name[2]) : e.name[2][m] < children_clock'
        /\ e.capabilities \subseteq Platform /\ e.budget <= Baseline
    BY <2>2
  <2>7. \A j \in 1..n : children_log[j].name = e.parent =>
            e.capabilities \subseteq children_log[j].capabilities
            /\ e.budget <= children_log[j].budget
    BY <2>4
  <2> HIDE DEF e, n
  <2>8. QED
    BY <1>2, <2>2, <2>3, <2>5, <2>6, <2>7
<1>4. ASSUME NEW parent \in Worktrees!Names, NEW capabilities \in SUBSET Capabilities,
             NEW budget \in Budgets, Worktrees!DelegateTask(parent, capabilities, budget)
      PROVE  ChildrenSound'
  <2>1. PICK scope \in Worktrees!Scope(parent) :
            /\ capabilities \subseteq scope.capabilities
            /\ children_log' = Append(children_log,
                    [type |-> "task.delegated",
                     name |-> <<parent[1], Append(parent[2], children_clock)>>,
                     parent |-> parent, capabilities |-> capabilities,
                     budget |-> Worktrees!Lesser(budget, scope.budget)])
    BY <1>4 DEF Worktrees!DelegateTask
  <2> DEFINE e == [type |-> "task.delegated",
                   name |-> <<parent[1], Append(parent[2], children_clock)>>,
                   parent |-> parent, capabilities |-> capabilities,
                   budget |-> Worktrees!Lesser(budget, scope.budget)]
  <2>2. /\ n < MaxEvents /\ Len(parent[2]) < MaxDepth
        /\ children_clock' = children_clock + 1 /\ children_clock \in 1..MaxEvents
    BY <1>1, <1>4 DEF Worktrees!DelegateTask, ChildrenSound, ChildrenTyped
  <2>3. scope \in Events /\ scope.capabilities \subseteq Platform /\ scope.budget <= Baseline
    BY <1>1 DEF Worktrees!Scope, ChildrenSound, Worktrees!ChildrenNarrow
  <2>4. /\ budget \in Int /\ Worktrees!Lesser(budget, scope.budget) \in Int
        /\ Worktrees!Lesser(budget, scope.budget) <= scope.budget
    BY <2>3 DEF Worktrees!Lesser, Events
  <2>5. e \in Events /\ ~Binding(e)
    BY <2>2, <2>4, NamesExtended DEF Events, Binding
  <2>6. /\ parent[2] \in Seq(1..MaxEvents) /\ Len(e.name[2]) = Len(parent[2]) + 1
        /\ e.name[2][Len(parent[2]) + 1] = children_clock
        /\ \A m \in 1..Len(parent[2]) : e.name[2][m] = parent[2][m]
        /\ e.name[2] # <<>>
    <3>1. parent[2] \in Seq(1..MaxEvents) /\ e.name[2] = Append(parent[2], children_clock)
      BY NamesTyped
    <3>2. /\ Append(parent[2], children_clock) # <<>>
          /\ Len(Append(parent[2], children_clock)) = Len(parent[2]) + 1
          /\ Append(parent[2], children_clock)[Len(parent[2]) + 1] = children_clock
          /\ \A m \in 1..Len(parent[2]) : Append(parent[2], children_clock)[m] = parent[2][m]
      BY <2>2, <3>1
    <3>3. QED
      BY <3>1, <3>2
  <2>7. \A m \in 1..Len(parent[2]) : parent[2][m] < children_clock
    <3>1. PICK k \in 1..n : Worktrees!IsOf(children_log[k], parent)
      BY <1>1 DEF Worktrees!Scope
    <3>2. children_log[k] \in Events /\ children_log[k].name[2] \in Seq(1..MaxEvents)
      BY <1>1, EventsTyped
    <3>3. \A m \in 1..Len(parent[2]) :
              /\ m \in 1..Len(children_log[k].name[2])
              /\ parent[2][m] = children_log[k].name[2][m]
      <4>1. CASE children_log[k].name = parent
        BY <4>1
      <4>2. CASE Worktrees!Contains(children_log[k].name, parent)
        BY <2>6, <3>2, <4>2 DEF Worktrees!Contains
      <4>3. QED
        BY <3>1, <4>1, <4>2 DEF Worktrees!IsOf
    <3>4. QED
      BY <1>1, <3>3 DEF ChildrenSound, Timed
  <2>8. \A m \in 1..Len(e.name[2]) : e.name[2][m] < children_clock'
    <3>1. ASSUME NEW m \in 1..Len(parent[2]) + 1
          PROVE  e.name[2][m] < children_clock'
      <4>1. CASE m = Len(parent[2]) + 1
        BY <2>2, <2>6, <4>1
      <4>2. CASE m # Len(parent[2]) + 1
        <5>1. m \in 1..Len(parent[2]) /\ parent[2][m] \in 1..MaxEvents
          BY <2>6, <4>2, ElementOfSeq
        <5>2. e.name[2][m] = parent[2][m] /\ parent[2][m] < children_clock
          BY <2>6, <2>7, <5>1
        <5>3. QED
          BY <2>2, <5>1, <5>2
      <4>3. QED
        BY <4>1, <4>2
    <3>2. QED
      BY <2>6, <3>1
  <2>9. \A j \in 1..n : children_log[j].name = e.parent =>
            e.capabilities \subseteq children_log[j].capabilities
            /\ e.budget <= children_log[j].budget
    <3>1. ASSUME NEW j \in 1..n, children_log[j].name = parent
          PROVE  /\ capabilities \subseteq children_log[j].capabilities
                 /\ Worktrees!Lesser(budget, scope.budget) <= children_log[j].budget
      <4>1. /\ scope.capabilities \subseteq children_log[j].capabilities
            /\ scope.budget <= children_log[j].budget
        BY <1>1, <3>1, ScopeNarrows
      <4>2. children_log[j].budget \in Int /\ scope.budget \in Int
        BY <1>1, <2>3, EventsTyped
      <4>3. QED
        BY <2>1, <2>4, <4>1, <4>2
    <3>2. QED
      BY <3>1
  <2>10. /\ e.capabilities \subseteq Platform /\ e.budget <= Baseline
    BY <2>1, <2>3, <2>4 DEF Events
  <2>11. children_clock' \in 1..MaxEvents + 1 /\ children_clock' <= n + 2
         /\ children_clock <= children_clock'
    BY <1>1, <2>2 DEF ChildrenSound, ChildrenTyped
  <2>12. children_log' = Append(children_log, e)
    BY <2>1
  <2>13. e.name[2][Len(e.name[2])] = children_clock
    BY <2>6
  <2> HIDE DEF e, n
  <2>14. QED
    BY <1>2, <2>5, <2>6, <2>8, <2>9, <2>10, <2>11, <2>12, <2>13
<1>5. QED
  BY <1>3, <1>4 DEF Worktrees!ChildNext

LEMMA ChildrenStep == ChildrenSound /\ [Next]_vars => ChildrenSound'
<1> SUFFICES ASSUME ChildrenSound, [Next]_vars
             PROVE  ChildrenSound'
  OBVIOUS
<1>1. CASE Worktrees!ChildNext
  BY <1>1, ChildrenNext
<1>2. CASE UNCHANGED children
  BY <1>2 DEF children, ChildrenSound, ChildrenTyped, Timed, Worktrees!ChildrenNarrow
<1>3. QED
  BY <1>1, <1>2 DEF Next, Unless, vars, children

LEMMA ChildrenAlways == Spec => [](Worktrees!ChildTypeOK /\ Worktrees!ChildrenNarrow)
<1>1. ChildrenSound => Worktrees!ChildTypeOK /\ Worktrees!ChildrenNarrow
  BY DEF ChildrenSound, ChildrenTyped, Worktrees!ChildTypeOK, Events
<1>2. QED
  BY <1>1, ChildrenInit, ChildrenStep, PTL DEF Spec

-----------------------------------------------------------------------------
(* Integration.                                                            *)

IntegrationTyped ==
    /\ integration_sources \in Seq(Worktrees!WorktreeFiles)
    /\ integration_review \in Worktrees!WorktreeFiles
    /\ integration_place \in [source : Nat, todo : SUBSET Files]
    /\ integration_place.source \in DOMAIN integration_sources
    /\ integration_applied \subseteq Files /\ integration_overlapping \subseteq Files
    /\ integration_integrated \subseteq BOOLEAN

\* The file of a worktree the walk is through with.
Walked(i, f) ==
    \/ i < integration_place.source
    \/ i = integration_place.source /\ f \notin integration_place.todo

ReviewIsOfSources ==
    /\ \A i \in DOMAIN integration_sources :
        \A f \in Worktrees!TakenOf(i) :
            Walked(i, f) =>
                integration_review[f] = integration_sources[i][f] \/ f \in integration_overlapping
    /\ \A f \in Files : integration_review[f] # Worktrees!NoFile =>
        \E i \in DOMAIN integration_sources :
            f \in Worktrees!TakenOf(i) /\ integration_sources[i][f] = integration_review[f]
    /\ \A f \in integration_overlapping : integration_review[f] # Worktrees!NoFile
    /\ \A f \in integration_applied :
        integration_review[f] # integration_sources[1][f] /\ f \notin PassedOver

WalkInOrder ==
    /\ integration_place.todo \subseteq Worktrees!TakenOf(integration_place.source)
    /\ integration_place.source = 1 => integration_applied = {}
    /\ integration_integrated # {} =>
        /\ integration_place.source = Len(integration_sources) /\ integration_place.todo = {}
        /\ integration_integrated = {integration_overlapping # {}}

IntegrationSound == IntegrationTyped /\ ReviewIsOfSources /\ WalkInOrder

LEMMA IntegrationInit == Init => IntegrationSound
<1> SUFFICES ASSUME Init
             PROVE  IntegrationSound
  OBVIOUS
<1>1. Worktrees!IntegrationInit
  BY DEF Init
<1>2. integration_sources \in Seq(Worktrees!WorktreeFiles) /\ 1 \in DOMAIN integration_sources
  <2>1. PICK n \in 2..MaxSources : integration_sources \in [1..n -> SourceTrees]
    BY <1>1 DEF Worktrees!IntegrationInit
  <2>2. SourceTrees \subseteq Worktrees!WorktreeFiles
    BY WorkspacesAssumption DEF Worktrees!IntegrationAssumption
  <2>3. integration_sources \in [1..n -> Worktrees!WorktreeFiles]
    BY <2>1, <2>2
  <2>4. n \in Nat
    BY SMT
  <2>5. integration_sources \in Seq(Worktrees!WorktreeFiles)
    BY <2>3, <2>4, SeqDef
  <2>6. QED
    BY <2>3, <2>5
<1>3. IntegrationTyped
  BY <1>1, <1>2
  DEF Worktrees!IntegrationInit, IntegrationTyped, Worktrees!TakenOf, Worktrees!FilesOf, Worktrees!WorktreeFiles
<1>4. WalkInOrder
  BY <1>1, <1>2 DEF Worktrees!IntegrationInit, WalkInOrder
<1>5. ReviewIsOfSources
  BY <1>1, <1>2
  DEF Worktrees!IntegrationInit, ReviewIsOfSources, Walked, Worktrees!TakenOf, Worktrees!FilesOf
<1>6. QED
  BY <1>3, <1>4, <1>5 DEF IntegrationSound

\* What is taken of a worktree is there, and walked.
LEMMA Taken ==
    \A i : \A f \in Worktrees!TakenOf(i) :
        /\ f \in Files \ Unwalked /\ integration_sources[i][f] # Worktrees!NoFile
        /\ i = 1 \/ f \notin PassedOver
BY DEF Worktrees!TakenOf, Worktrees!FilesOf

LEMMA IntegrationNext ==
    ASSUME IntegrationSound, Worktrees!IntegrationNext
    PROVE  IntegrationSound'
<1> USE DEF IntegrationSound
<1>1. /\ DOMAIN integration_sources = 1..Len(integration_sources)
      /\ Len(integration_sources) \in Nat /\ integration_place.source \in Nat
      /\ \A i \in DOMAIN integration_sources :
            integration_sources[i] \in Worktrees!WorktreeFiles
  BY DEF IntegrationTyped
<1>2. ASSUME Worktrees!NextSource
      PROVE  IntegrationSound'
  <2>1. /\ integration_place.todo = {} /\ integration_place.source < Len(integration_sources)
        /\ integration_place'.source = integration_place.source + 1
        /\ integration_place'.todo = Worktrees!TakenOf(integration_place.source + 1)
        /\ UNCHANGED <<integration_sources, integration_review, integration_applied,
                       integration_overlapping, integration_integrated>>
    BY <1>2 DEF Worktrees!NextSource
  <2>2. IntegrationTyped'
    <3>1. integration_place' \in [source : Nat, todo : SUBSET Files]
      BY <1>1, <1>2 DEF Worktrees!NextSource, Worktrees!TakenOf, Worktrees!FilesOf
    <3>2. integration_place'.source \in DOMAIN integration_sources
      BY <1>1, <2>1
    <3>3. QED
      BY <2>1, <3>1, <3>2 DEF IntegrationTyped
  <2>3. WalkInOrder'
    BY <1>1, <2>1 DEF WalkInOrder, IntegrationTyped, Worktrees!TakenOf, Worktrees!FilesOf
  <2>4. ReviewIsOfSources'
    <3>1. ASSUME NEW i \in DOMAIN integration_sources,
                 NEW f \in Worktrees!TakenOf(i), Walked(i, f)'
          PROVE  Walked(i, f)
      BY <1>1, <2>1, <3>1 DEF Walked
    <3>2. QED
      BY <2>1, <3>1 DEF ReviewIsOfSources, Worktrees!TakenOf, Worktrees!FilesOf
  <2>5. QED
    BY <2>2, <2>3, <2>4
<1>3. ASSUME Worktrees!RecordIntegrated
      PROVE  IntegrationSound'
  <2>1. /\ UNCHANGED <<integration_sources, integration_review, integration_place,
                       integration_applied, integration_overlapping>>
        /\ integration_place.source = Len(integration_sources) /\ integration_place.todo = {}
        /\ integration_integrated' = {integration_overlapping # {}}
    BY <1>3 DEF Worktrees!RecordIntegrated
  <2>2. IntegrationTyped' /\ WalkInOrder'
    BY <2>1 DEF IntegrationTyped, WalkInOrder, Worktrees!TakenOf, Worktrees!FilesOf
  <2>3. ReviewIsOfSources'
    BY <2>1 DEF ReviewIsOfSources, Walked, Worktrees!TakenOf, Worktrees!FilesOf
  <2>4. QED
    BY <2>2, <2>3
<1>4. ASSUME NEW f \in Files, f \in integration_place.todo,
             integration_review[f] = Worktrees!NoFile \/ integration_place.source = 1,
             integration_review' = [integration_review EXCEPT ![f] =
                integration_sources[integration_place.source][f]],
             integration_place' = [integration_place EXCEPT !.todo = @ \ {f}],
             integration_applied' = integration_applied
                \/ (integration_place.source > 1
                    /\ integration_applied' = integration_applied \cup {f}),
             UNCHANGED <<integration_sources, integration_overlapping, integration_integrated>>
      PROVE  IntegrationSound'
  <2> DEFINE content == integration_sources[integration_place.source][f]
  <2>1. /\ content \in FileContents /\ content # Worktrees!NoFile
        /\ integration_review'[f] = content
        /\ \A g \in Files \ {f} : integration_review'[g] = integration_review[g]
        /\ integration_review' \in Worktrees!WorktreeFiles
    BY <1>1, <1>4 DEF IntegrationTyped, WalkInOrder, Worktrees!TakenOf, Worktrees!FilesOf, Worktrees!WorktreeFiles
  <2>2. /\ integration_place'.source = integration_place.source
        /\ integration_place'.todo = integration_place.todo \ {f}
        /\ integration_place' \in [source : Nat, todo : SUBSET Files]
    BY <1>4 DEF IntegrationTyped
  <2>3. IntegrationTyped'
    BY <1>4, <2>1, <2>2 DEF IntegrationTyped
  <2>4. WalkInOrder'
    BY <1>1, <1>4, <2>2 DEF WalkInOrder, IntegrationTyped, Worktrees!TakenOf, Worktrees!FilesOf
  <2> HIDE DEF content
  <2>5. ASSUME NEW i \in DOMAIN integration_sources,
               NEW g \in Worktrees!TakenOf(i), Walked(i, g)'
        PROVE  integration_review'[g] = integration_sources[i][g] \/ g \in integration_overlapping
    <3>1. g \in Files /\ integration_sources[i][g] # Worktrees!NoFile
      BY DEF Worktrees!TakenOf, Worktrees!FilesOf
    <3>2. CASE g # f
      <4>1. Walked(i, g)
        BY <2>2, <2>5, <3>2 DEF Walked
      <4>2. QED
        BY <2>1, <3>1, <3>2, <4>1 DEF ReviewIsOfSources
    <3>3. CASE g = f /\ i = integration_place.source
      BY <2>1, <3>3 DEF content
    <3>4. CASE g = f /\ i # integration_place.source
      <4>1. i < integration_place.source /\ integration_place.source # 1
        BY <1>1, <2>2, <2>5, <3>4 DEF Walked
      <4>2. Walked(i, g)
        BY <4>1 DEF Walked
      <4>3. integration_review[g] = integration_sources[i][g] \/ g \in integration_overlapping
        BY <4>2 DEF ReviewIsOfSources
      <4>4. QED
        BY <1>4, <3>1, <3>4, <4>1, <4>3
    <3>5. QED
      BY <3>2, <3>3, <3>4
  <2>6. ASSUME NEW g \in Files, integration_review'[g] # Worktrees!NoFile
        PROVE  \E i \in DOMAIN integration_sources :
                    g \in Worktrees!TakenOf(i) /\ integration_sources[i][g] = integration_review'[g]
    <3>1. CASE g = f
      BY <1>4, <2>1, <3>1 DEF IntegrationTyped, WalkInOrder, content
    <3>2. CASE g # f
      BY <2>1, <2>6, <3>2 DEF ReviewIsOfSources
    <3>3. QED
      BY <3>1, <3>2
  <2>7. \A g \in integration_overlapping : integration_review'[g] # Worktrees!NoFile
    BY <2>1 DEF ReviewIsOfSources, IntegrationTyped
  <2>8. ASSUME NEW g \in integration_applied'
        PROVE  integration_review'[g] # integration_sources[1][g] /\ g \notin PassedOver
    <3>1. g \in Files /\ integration_place.source # 1
      BY <1>4, <2>8 DEF IntegrationTyped, WalkInOrder
    <3>2. CASE g # f
      BY <1>4, <2>1, <2>8, <3>1, <3>2 DEF ReviewIsOfSources
    <3>3. CASE g = f
      <4>1. integration_review[f] = Worktrees!NoFile /\ 1 \in DOMAIN integration_sources
        BY <1>1, <1>4, <3>1
        DEF IntegrationTyped
      <4>2. Walked(1, f) /\ f \notin integration_overlapping
        BY <1>1, <3>1, <4>1 DEF Walked, ReviewIsOfSources, IntegrationTyped
      <4>3. f \notin Worktrees!TakenOf(1)
        BY <4>1, <4>2, Taken DEF ReviewIsOfSources
      <4>4. f \in Worktrees!TakenOf(integration_place.source)
        BY <1>4 DEF WalkInOrder
      <4>5. f \in Files \ Unwalked /\ f \notin PassedOver
        BY <3>1, <4>4, Taken
      <4>6. integration_sources[1][f] = Worktrees!NoFile
        BY <4>3, <4>5 DEF Worktrees!TakenOf, Worktrees!FilesOf
      <4>7. QED
        BY <2>1, <3>3, <4>5, <4>6
    <3>4. QED
      BY <3>2, <3>3
  <2>9. ReviewIsOfSources'
    BY <1>4, <2>5, <2>6, <2>7, <2>8 DEF ReviewIsOfSources, Worktrees!TakenOf, Worktrees!FilesOf
  <2>10. QED
    BY <2>3, <2>4, <2>9
<1>5. ASSUME NEW f \in Files, Worktrees!CopyFirst(f)
      PROVE  IntegrationSound'
  <2>1. /\ f \in integration_place.todo /\ integration_place.source = 1
        /\ integration_review' = [integration_review EXCEPT ![f] =
                integration_sources[integration_place.source][f]]
        /\ integration_place' = [integration_place EXCEPT !.todo = @ \ {f}]
        /\ integration_applied' = integration_applied
        /\ UNCHANGED <<integration_sources, integration_overlapping, integration_integrated>>
    BY <1>5 DEF Worktrees!CopyFirst
  <2>2. QED
    BY <1>4, <2>1, Zenon
<1>6. ASSUME NEW f \in Files, Worktrees!AddFile(f)
      PROVE  IntegrationSound'
  <2>1. CASE integration_review[f] = Worktrees!NoFile
    BY <1>4, <1>6, <2>1, SMT DEF Worktrees!AddFile
  <2>2. CASE integration_review[f] # Worktrees!NoFile
    <3>1. /\ integration_overlapping' = integration_overlapping \cup {f}
          /\ f \in integration_place.todo /\ integration_place.source > 1
          /\ UNCHANGED <<integration_sources, integration_review, integration_applied,
                         integration_integrated>>
          /\ integration_place' = [integration_place EXCEPT !.todo = @ \ {f}]
      BY <1>6, <2>2 DEF Worktrees!AddFile
    <3>2. /\ integration_place'.source = integration_place.source
          /\ integration_place'.todo = integration_place.todo \ {f}
          /\ integration_place' \in [source : Nat, todo : SUBSET Files]
      BY <3>1 DEF IntegrationTyped
    <3>3. IntegrationTyped'
      BY <3>1, <3>2 DEF IntegrationTyped
    <3>4. WalkInOrder'
      BY <3>1, <3>2 DEF WalkInOrder, Worktrees!TakenOf, Worktrees!FilesOf
    <3>5. ASSUME NEW i \in DOMAIN integration_sources,
                 NEW g \in Worktrees!TakenOf(i), Walked(i, g)'
          PROVE  integration_review[g] = integration_sources[i][g]
                    \/ g \in integration_overlapping'
      <4>1. CASE g = f
        BY <3>1, <4>1
      <4>2. CASE g # f
        <5>1. Walked(i, g)
          BY <3>2, <3>5, <4>2 DEF Walked
        <5>2. QED
          BY <3>1, <5>1 DEF ReviewIsOfSources
      <4>3. QED
        BY <4>1, <4>2
    <3>6. ReviewIsOfSources'
      BY <2>2, <3>1, <3>5 DEF ReviewIsOfSources, Worktrees!TakenOf, Worktrees!FilesOf
    <3>7. QED
      BY <3>3, <3>4, <3>6
  <2>3. QED
    BY <2>1, <2>2
<1>7. QED
  BY <1>2, <1>3, <1>5, <1>6 DEF Worktrees!IntegrationNext

LEMMA IntegrationStep == IntegrationSound /\ [Next]_vars => IntegrationSound'
<1> SUFFICES ASSUME IntegrationSound, [Next]_vars
             PROVE  IntegrationSound'
  OBVIOUS
<1>1. CASE Worktrees!IntegrationNext
  BY <1>1, IntegrationNext
<1>2. CASE UNCHANGED integration
  BY <1>2 DEF integration, IntegrationSound, IntegrationTyped, ReviewIsOfSources, WalkInOrder,
              Walked, Worktrees!TakenOf, Worktrees!FilesOf
<1>3. QED
  BY <1>1, <1>2 DEF Next, Unless, vars, integration

LEMMA IntegrationAlways ==
    Spec => [](Worktrees!IntegrationTypeOK /\ Worktrees!NothingLostInReview)
<1>1. IntegrationSound => Worktrees!IntegrationTypeOK
  BY DEF IntegrationSound, IntegrationTyped, Worktrees!IntegrationTypeOK
<1>2. IntegrationSound => Worktrees!NothingLostInReview
  <2> SUFFICES ASSUME IntegrationSound
               PROVE  Worktrees!NothingLostInReview
    OBVIOUS
  <2>1. ASSUME integration_integrated # {}, NEW i \in DOMAIN integration_sources,
               NEW f \in Worktrees!TakenOf(i)
        PROVE  integration_review[f] = integration_sources[i][f] \/ f \in integration_overlapping
    <3>1. Walked(i, f)
      BY <2>1 DEF IntegrationSound, WalkInOrder, IntegrationTyped, Walked
    <3>2. QED
      BY <3>1 DEF IntegrationSound, ReviewIsOfSources
  <2>2. ASSUME integration_integrated = {FALSE}
        PROVE  integration_overlapping = {}
    BY <2>2 DEF IntegrationSound, WalkInOrder
  <2>3. ASSUME integration_integrated = {FALSE}, NEW f \in Files
        PROVE  integration_review[f] = Worktrees!NoFile
                <=> \A i \in DOMAIN integration_sources : f \notin Worktrees!TakenOf(i)
    BY <2>1, <2>2, <2>3, Taken DEF IntegrationSound, ReviewIsOfSources
  <2>4. ASSUME NEW f \in Files, integration_review[f] # Worktrees!NoFile
        PROVE  f \notin Unwalked
    BY <2>4, Taken DEF IntegrationSound, ReviewIsOfSources
  <2>5. QED
    BY <2>1, <2>3, <2>4 DEF Worktrees!NothingLostInReview, IntegrationSound, ReviewIsOfSources
<1>3. QED
  BY <1>1, <1>2, IntegrationInit, IntegrationStep, PTL DEF Spec

-----------------------------------------------------------------------------
(* The capsules a task is resumed from.                                    *)

\* A capsule was made of a workspace that had every artifact.
Captured(capsule) ==
    \E present \in [Paths -> Capsules!FileStates] :
        /\ capsule = Capsules!CapsuleOf(capsule.lineage, present)
        /\ \A p \in Referenced : present[p] # Capsules!Absent

CapsulesSound ==
    /\ capsules_files \in [Paths -> Capsules!FileStates]
    /\ \A c \in capsules_capsules : c.lineage \in Lineages /\ Captured(c)
    /\ \A r \in capsules_report :
        /\ r.capsule \in capsules_capsules /\ r.state \in {"Ready", "NeedsReconcile"}
        /\ r.state = "Ready" <=> r.capsule = Capsules!CapsuleOf(r.capsule.lineage, r.seen)
    /\ \A c \in capsules_continued :
        /\ c.report.capsule = c.capsule /\ c.capsule \in capsules_capsules
        /\ c.capsule = Capsules!CapsuleOf(c.capsule.lineage, c.report.seen)

LEMMA CapsulesInit == Init => CapsulesSound
BY DEF Init, Capsules!Init, CapsulesSound

\* A capsule is ready where it would be made again.
LEMMA ReadyIsCaptured ==
    ASSUME NEW capsule, Captured(capsule)
    PROVE  Capsules!Ready(capsule)
            <=> capsule = Capsules!CapsuleOf(capsule.lineage, capsules_files)
<1>1. PICK present \in [Paths -> Capsules!FileStates] :
          /\ capsule = Capsules!CapsuleOf(capsule.lineage, present)
          /\ \A p \in Referenced : present[p] # Capsules!Absent
  BY DEF Captured
<1> DEFINE lineage == capsule.lineage
<1> HIDE DEF lineage
<1>2. capsule = [lineage |-> lineage, artifacts |-> [p \in Referenced |-> present[p]],
                 fingerprint |-> Capsules!Fingerprint(present)]
  BY <1>1 DEF Capsules!CapsuleOf, lineage
<1>3. /\ capsule.artifacts = [p \in Referenced |-> present[p]]
      /\ capsule.fingerprint = Capsules!Fingerprint(present)
  BY <1>2
<1>4. ASSUME Capsules!Ready(capsule)
      PROVE  capsule = Capsules!CapsuleOf(capsule.lineage, capsules_files)
  <2>1. \A p \in Referenced : capsules_files[p] = present[p]
    BY <1>3, <1>4 DEF Capsules!Ready, Capsules!Missing, Capsules!Mutated
  <2>2. [p \in Referenced |-> present[p]] = [p \in Referenced |-> capsules_files[p]]
    BY <2>1
  <2>3. Capsules!Fingerprint(present) = Capsules!Fingerprint(capsules_files)
    BY <1>3, <1>4 DEF Capsules!Ready
  <2>4. QED
    BY <1>1, <2>2, <2>3, Zenon DEF Capsules!CapsuleOf
<1>5. ASSUME capsule = Capsules!CapsuleOf(capsule.lineage, capsules_files)
      PROVE  Capsules!Ready(capsule)
  <2>1. capsule = [lineage |-> lineage, artifacts |-> [p \in Referenced |-> capsules_files[p]],
                   fingerprint |-> Capsules!Fingerprint(capsules_files)]
    BY <1>5 DEF Capsules!CapsuleOf, lineage
  <2>2. /\ capsule.artifacts = [p \in Referenced |-> capsules_files[p]]
        /\ capsule.fingerprint = Capsules!Fingerprint(capsules_files)
    BY <2>1
  <2>3. \A p \in Referenced : capsules_files[p] = present[p]
    <3>1. ASSUME NEW p \in Referenced
          PROVE  capsules_files[p] = present[p]
      <4>1. capsule.artifacts[p] = present[p]
        BY <1>3
      <4>2. capsule.artifacts[p] = capsules_files[p]
        BY <2>2
      <4>3. QED
        BY <4>1, <4>2
    <3>2. QED
      BY <3>1
  <2>4. DOMAIN capsule.artifacts = Referenced
        /\ \A p \in Referenced : capsule.artifacts[p] = capsules_files[p]
    BY <2>2
  <2>5. QED
    BY <1>1, <2>2, <2>3, <2>4 DEF Capsules!Ready, Capsules!Missing, Capsules!Mutated
<1>6. QED
  BY <1>4, <1>5

LEMMA CapsulesNext ==
    ASSUME CapsulesSound, Capsules!Next
    PROVE  CapsulesSound'
<1>1. ASSUME NEW p \in Paths, NEW content \in Capsules!FileStates, Capsules!Edit(p, content)
      PROVE  CapsulesSound'
  BY <1>1 DEF Capsules!Edit, CapsulesSound
<1>2. ASSUME NEW lineage \in Lineages, Capsules!Capture(lineage)
      PROVE  CapsulesSound'
  <2> DEFINE capsule == Capsules!CapsuleOf(lineage, capsules_files)
  <2>1. capsule.lineage = lineage
    BY DEF Capsules!CapsuleOf
  <2>2. \A p \in Referenced : capsules_files[p] # Capsules!Absent
    BY <1>2 DEF Capsules!Capture
  <2>3. capsules_files \in [Paths -> Capsules!FileStates]
    BY DEF CapsulesSound
  <2>4. capsule = Capsules!CapsuleOf(capsule.lineage, capsules_files)
    BY <2>1
  <2>5. /\ capsules_capsules' = capsules_capsules \cup {capsule}
        /\ UNCHANGED <<capsules_files, capsules_report, capsules_continued>>
    BY <1>2 DEF Capsules!Capture
  <2> HIDE DEF capsule
  <2>6. Captured(capsule)
    BY <2>2, <2>3, <2>4 DEF Captured
  <2>7. QED
    BY <2>1, <2>5, <2>6 DEF CapsulesSound
<1>3. ASSUME NEW capsule \in capsules_capsules, Capsules!VerifyCapsule(capsule)
      PROVE  CapsulesSound'
  <2>1. Capsules!Ready(capsule)
            <=> capsule = Capsules!CapsuleOf(capsule.lineage, capsules_files)
    BY ReadyIsCaptured DEF CapsulesSound
  <2> DEFINE r == [capsule |-> capsule, seen |-> capsules_files,
                   state |-> IF Capsules!Ready(capsule) THEN "Ready" ELSE "NeedsReconcile"]
  <2>2. /\ r.capsule = capsule /\ r.seen = capsules_files
        /\ r.state = IF Capsules!Ready(capsule) THEN "Ready" ELSE "NeedsReconcile"
    OBVIOUS
  <2>3. /\ capsules_report' = {r}
        /\ UNCHANGED <<capsules_files, capsules_capsules, capsules_continued>>
    BY <1>3 DEF Capsules!VerifyCapsule
  <2> HIDE DEF r
  <2>4. QED
    BY <2>1, <2>2, <2>3 DEF CapsulesSound
<1>4. ASSUME NEW capsule \in capsules_capsules, Capsules!Continue(capsule)
      PROVE  CapsulesSound'
  <2>1. PICK r \in capsules_report :
            /\ r.state = "Ready" /\ r.capsule = capsule
            /\ capsules_continued' =
                {[capsule |-> capsule, report |-> r, files |-> capsules_files]}
    BY <1>4 DEF Capsules!Continue
  <2> DEFINE c == [capsule |-> capsule, report |-> r, files |-> capsules_files]
  <2>2. /\ c.capsule = capsule /\ c.report = r
        /\ capsules_continued' = {c}
    BY <2>1
  <2>3. UNCHANGED <<capsules_files, capsules_capsules, capsules_report>>
    BY <1>4 DEF Capsules!Continue
  <2> HIDE DEF c
  <2>4. QED
    BY <2>1, <2>2, <2>3 DEF CapsulesSound
<1>5. QED
  BY <1>1, <1>2, <1>3, <1>4 DEF Capsules!Next

LEMMA CapsulesStep == CapsulesSound /\ [Next]_vars => CapsulesSound'
<1> SUFFICES ASSUME CapsulesSound, [Next]_vars
             PROVE  CapsulesSound'
  OBVIOUS
<1>1. CASE Capsules!Next
  BY <1>1, CapsulesNext
<1>2. CASE UNCHANGED capsules
  BY <1>2 DEF capsules, CapsulesSound
<1>3. QED
  BY <1>1, <1>2 DEF Next, Unless, vars, capsules

LEMMA CapsulesAlways == Spec => [](Capsules!TypeOK /\ Capsules!ContinuedAsCaptured)
<1>1. CapsulesSound => Capsules!TypeOK
  <2>1. ASSUME NEW c, Captured(c)
        PROVE  DOMAIN c.artifacts = Referenced
    <3>1. PICK present : c = Capsules!CapsuleOf(c.lineage, present)
      BY <2>1 DEF Captured
    <3>2. \A l : Capsules!CapsuleOf(l, present).artifacts = [p \in Referenced |-> present[p]]
      BY DEF Capsules!CapsuleOf
    <3>3. QED
      BY <3>1, <3>2
  <2>2. QED
    BY <2>1 DEF CapsulesSound, Capsules!TypeOK
<1>2. CapsulesSound => Capsules!ContinuedAsCaptured
  BY DEF CapsulesSound, Capsules!ContinuedAsCaptured
<1>3. QED
  BY <1>1, <1>2, CapsulesInit, CapsulesStep, PTL DEF Spec

-----------------------------------------------------------------------------
(* Artifacts.                                                              *)

ArtifactsTyped ==
    /\ artifacts_files \in [Store!Committed -> Store!Blobs \cup {Store!NoBlob}]
    /\ artifacts_blobs \in [Store!Committed -> Store!Blobs \cup {Store!NoBlob}]
    /\ artifacts_artifacts \subseteq Commits /\ artifacts_lost \subseteq Store!Committed
    /\ artifacts_boxes \in 0..MaxBoxes
    /\ artifacts_writer \in
        [Writers -> [step : {"idle", "persist", "commit"}, commit : SUBSET Commits,
                     box : 0..MaxBoxes]]

\* A box is drawn when it is sealed, and one that is about to be recorded
\* stands under the digest, or another one does that was sealed meanwhile.
Sealed ==
    \A w \in Writers, c \in Commits :
        /\ Store!Working(w, "persist", c) => artifacts_writer[w].box # 0
        /\ Store!Working(w, "commit", c) =>
            /\ artifacts_writer[w].box # 0
            /\ artifacts_files[c.content] # Store!NoBlob
            /\ artifacts_files[c.content].label = c.label
            /\ \/ artifacts_files[c.content].box = artifacts_writer[w].box
               \/ c.content \in artifacts_lost

Published ==
    /\ \A x \in Store!Committed : artifacts_blobs[x] # Store!NoBlob =>
        /\ artifacts_files[x] # Store!NoBlob
        /\ artifacts_blobs[x].label = artifacts_files[x].label
        /\ artifacts_blobs[x] = artifacts_files[x] \/ x \in artifacts_lost
    /\ \A a \in artifacts_artifacts :
        /\ artifacts_blobs[a.content] # Store!NoBlob
        /\ artifacts_blobs[a.content].label = a.label

ArtifactsSound == ArtifactsTyped /\ Sealed /\ Published

LEMMA ArtifactsInit == Init => ArtifactsSound
<1> SUFFICES ASSUME Store!ArtifactsInit
             PROVE  ArtifactsSound
  BY DEF Init
<1>1. ArtifactsTyped
  BY WorkspacesAssumption
  DEF Store!ArtifactsInit, ArtifactsTyped, Store!ArtifactsAssumption, Store!NotWriting
<1>2. Sealed
  BY DEF Store!ArtifactsInit, Sealed, Store!Working, Store!NotWriting
<1>3. Published
  BY DEF Store!ArtifactsInit, Published
<1>4. QED
  BY <1>1, <1>2, <1>3 DEF ArtifactsSound

\* A writer that goes on to a state of its own.
LEMMA WriterMoves ==
    ASSUME ArtifactsTyped, NEW w \in Writers,
           NEW step \in {"idle", "persist", "commit"}, NEW commit \in SUBSET Commits,
           NEW box \in 0..MaxBoxes,
           Store!Move(w, [step |-> step, commit |-> commit, box |-> box])
    PROVE  /\ artifacts_writer' \in
                [Writers -> [step : {"idle", "persist", "commit"}, commit : SUBSET Commits,
                             box : 0..MaxBoxes]]
           /\ artifacts_writer'[w].step = step /\ artifacts_writer'[w].commit = commit
           /\ artifacts_writer'[w].box = box
           /\ \A v \in Writers \ {w} : artifacts_writer'[v] = artifacts_writer[v]
BY DEF ArtifactsTyped, Store!Move

LEMMA ArtifactsNext ==
    ASSUME ArtifactsSound, Store!ArtifactsNext
    PROVE  ArtifactsSound'
<1> USE WorkspacesAssumption DEF Store!ArtifactsAssumption
<1>0. ArtifactsTyped /\ Sealed /\ Published /\ MaxBoxes \in Nat /\ 0 \in 0..MaxBoxes
      /\ \A c \in Commits : c.content \in Store!Committed
  BY DEF ArtifactsSound, Store!Committed
<1>1. ASSUME NEW w \in Writers, Store!Move(w, Store!NotWriting),
             UNCHANGED <<artifacts_files, artifacts_boxes, artifacts_lost>>
      PROVE  /\ ArtifactsTyped' = (/\ artifacts_artifacts' \subseteq Commits
                                   /\ artifacts_blobs' \in
                                        [Store!Committed -> Store!Blobs \cup {Store!NoBlob}])
             /\ Sealed'
  <2>1. /\ artifacts_writer' \in
                [Writers -> [step : {"idle", "persist", "commit"}, commit : SUBSET Commits,
                             box : 0..MaxBoxes]]
        /\ artifacts_writer'[w].step = "idle"
        /\ \A v \in Writers \ {w} : artifacts_writer'[v] = artifacts_writer[v]
    <3>1. Store!Move(w, [step |-> "idle", commit |-> {}, box |-> 0])
      BY <1>1 DEF Store!NotWriting
    <3>2. "idle" \in {"idle", "persist", "commit"} /\ {} \in SUBSET Commits
      OBVIOUS
    <3>3. QED
      BY <1>0, <3>1, <3>2, WriterMoves, Zenon
  <2>2. QED
    BY <1>0, <1>1, <2>1 DEF ArtifactsTyped, Sealed, Store!Working
<1>2. ASSUME NEW w \in Writers, Store!Stop(w)
      PROVE  ArtifactsSound'
  <2>1. /\ Store!Move(w, Store!NotWriting)
        /\ UNCHANGED <<artifacts_files, artifacts_blobs, artifacts_artifacts, artifacts_boxes,
                       artifacts_lost>>
    BY <1>2 DEF Store!Stop
  <2>2. ArtifactsTyped' /\ Sealed'
    BY <1>0, <1>1, <2>1 DEF ArtifactsTyped
  <2>3. Published'
    BY <1>0, <2>1 DEF Published
  <2>4. QED
    BY <2>2, <2>3 DEF ArtifactsSound
<1>3. ASSUME NEW w \in Writers, NEW c \in Commits, Store!FindFile(w, c)
      PROVE  ArtifactsSound'
  <2>1. /\ artifacts_files[c.content] # Store!NoBlob
        /\ UNCHANGED <<artifacts_files, artifacts_blobs, artifacts_artifacts, artifacts_boxes,
                       artifacts_lost>>
    BY <1>3 DEF Store!FindFile
  <2>2. CASE artifacts_files[c.content].label = c.label
    <3> DEFINE box == artifacts_files[c.content].box
    <3>1. box \in 0..MaxBoxes /\ box # 0
      BY <1>0, <2>1 DEF ArtifactsTyped, Store!Blobs
    <3>2. Store!Move(w, [step |-> "commit", commit |-> {c}, box |-> box])
      BY <1>3, <2>2 DEF Store!FindFile, Store!At
    <3>3. "commit" \in {"idle", "persist", "commit"} /\ {c} \in SUBSET Commits
      OBVIOUS
    <3> HIDE DEF box
    <3>4. /\ artifacts_writer' \in
                [Writers -> [step : {"idle", "persist", "commit"}, commit : SUBSET Commits,
                             box : 0..MaxBoxes]]
          /\ artifacts_writer'[w].step = "commit" /\ artifacts_writer'[w].commit = {c}
          /\ artifacts_writer'[w].box = box
          /\ \A v \in Writers \ {w} : artifacts_writer'[v] = artifacts_writer[v]
      BY <1>0, <3>1, <3>2, <3>3, WriterMoves, Zenon
    <3>5. ArtifactsTyped' /\ Published'
      BY <1>0, <2>1, <3>4 DEF ArtifactsTyped, Published
    <3>6. Sealed'
      BY <1>0, <2>1, <2>2, <3>1, <3>4 DEF Sealed, Store!Working, box
    <3>7. QED
      BY <3>5, <3>6 DEF ArtifactsSound
  <2>3. CASE artifacts_files[c.content].label # c.label
    <3>1. Store!Move(w, Store!NotWriting)
      BY <1>3, <2>3 DEF Store!FindFile
    <3>2. ArtifactsTyped' /\ Sealed'
      BY <1>0, <1>1, <2>1, <3>1 DEF ArtifactsTyped
    <3>3. Published'
      BY <1>0, <2>1 DEF Published
    <3>4. QED
      BY <3>2, <3>3 DEF ArtifactsSound
  <2>4. QED
    BY <2>2, <2>3
<1>4. ASSUME NEW w \in Writers, NEW c \in Commits, Store!Encrypt(w, c)
      PROVE  ArtifactsSound'
  <2>1. /\ artifacts_boxes < MaxBoxes /\ artifacts_boxes' = artifacts_boxes + 1
        /\ Store!Move(w, [step |-> "persist", commit |-> {c}, box |-> artifacts_boxes + 1])
        /\ UNCHANGED <<artifacts_files, artifacts_blobs, artifacts_artifacts, artifacts_lost>>
    BY <1>4 DEF Store!Encrypt, Store!At
  <2>2. artifacts_boxes + 1 \in 0..MaxBoxes /\ artifacts_boxes + 1 # 0
    BY <1>0, <2>1 DEF ArtifactsTyped
  <2>3. "persist" \in {"idle", "persist", "commit"} /\ {c} \in SUBSET Commits
    OBVIOUS
  <2>4. /\ artifacts_writer' \in
                [Writers -> [step : {"idle", "persist", "commit"}, commit : SUBSET Commits,
                             box : 0..MaxBoxes]]
        /\ artifacts_writer'[w].step = "persist" /\ artifacts_writer'[w].commit = {c}
        /\ artifacts_writer'[w].box = artifacts_boxes + 1
        /\ \A v \in Writers \ {w} : artifacts_writer'[v] = artifacts_writer[v]
    BY <1>0, <2>1, <2>2, <2>3, WriterMoves, Zenon
  <2>5. ArtifactsTyped' /\ Published'
    BY <1>0, <2>1, <2>2, <2>4 DEF ArtifactsTyped, Published
  <2>6. Sealed'
    BY <1>0, <2>1, <2>2, <2>4 DEF Sealed, Store!Working
  <2>7. QED
    BY <2>5, <2>6 DEF ArtifactsSound
<1>5. ASSUME NEW w \in Writers, NEW c \in Commits, Store!Persist(w, c)
      PROVE  ArtifactsSound'
  <2> DEFINE box == artifacts_writer[w].box
  <2>1. /\ box \in 0..MaxBoxes /\ box # 0
        /\ UNCHANGED <<artifacts_blobs, artifacts_artifacts, artifacts_boxes>>
    BY <1>0, <1>5 DEF Store!Persist, ArtifactsTyped, Sealed
  <2>2. "commit" \in {"idle", "persist", "commit"} /\ {c} \in SUBSET Commits
    OBVIOUS
  <2>3. ASSUME Store!Move(w, Store!At("commit", c, box))
        PROVE  /\ artifacts_writer' \in
                    [Writers -> [step : {"idle", "persist", "commit"}, commit : SUBSET Commits,
                                 box : 0..MaxBoxes]]
               /\ artifacts_writer'[w].step = "commit" /\ artifacts_writer'[w].commit = {c}
               /\ artifacts_writer'[w].box = box
               /\ \A v \in Writers \ {w} : artifacts_writer'[v] = artifacts_writer[v]
    <3>1. Store!Move(w, [step |-> "commit", commit |-> {c}, box |-> box])
      BY <2>3 DEF Store!At
    <3> HIDE DEF box
    <3>2. QED
      BY <1>0, <2>1, <2>2, <3>1, WriterMoves, Zenon
  <2>4. CASE artifacts_files[c.content] = Store!NoBlob
    <3>1. /\ artifacts_files' =
                [artifacts_files EXCEPT ![c.content] = [box |-> box, label |-> c.label]]
          /\ Store!Move(w, Store!At("commit", c, box)) /\ UNCHANGED artifacts_lost
      BY <1>5, <2>4 DEF Store!Persist
    <3> HIDE DEF box
    <3>2. /\ artifacts_files' \in [Store!Committed -> Store!Blobs \cup {Store!NoBlob}]
          /\ artifacts_files'[c.content] # Store!NoBlob
          /\ artifacts_files'[c.content].label = c.label
          /\ artifacts_files'[c.content].box = box
          /\ \A x \in Store!Committed \ {c.content} : artifacts_files'[x] = artifacts_files[x]
      BY <1>0, <2>1, <3>1 DEF ArtifactsTyped, Store!Blobs, Store!NoBlob
    <3>3. ArtifactsTyped'
      BY <1>0, <2>1, <2>3, <3>1, <3>2 DEF ArtifactsTyped
    <3>4. Published'
      BY <1>0, <2>1, <2>4, <3>1, <3>2 DEF Published, ArtifactsTyped
    <3>5. ASSUME NEW v \in Writers, NEW d \in Commits
          PROVE  /\ Store!Working(v, "persist", d)' => artifacts_writer'[v].box # 0
                 /\ Store!Working(v, "commit", d)' =>
                    /\ artifacts_writer'[v].box # 0
                    /\ artifacts_files'[d.content] # Store!NoBlob
                    /\ artifacts_files'[d.content].label = d.label
                    /\ \/ artifacts_files'[d.content].box = artifacts_writer'[v].box
                       \/ d.content \in artifacts_lost'
      <4>1. CASE v = w
        BY <2>1, <2>3, <3>1, <3>2, <4>1 DEF Store!Working
      <4>2. CASE v # w
        BY <1>0, <2>3, <2>4, <3>1, <3>2, <4>2 DEF Store!Working, Sealed
      <4>3. QED
        BY <4>1, <4>2
    <3>6. QED
      BY <3>3, <3>4, <3>5 DEF ArtifactsSound, Sealed
  <2>5. CASE artifacts_files[c.content] # Store!NoBlob
    <3>1. artifacts_lost' = artifacts_lost \cup {c.content} /\ UNCHANGED artifacts_files
      BY <1>5, <2>5 DEF Store!Persist
    <3>2. Published'
      BY <1>0, <2>1, <3>1 DEF Published
    <3>3. CASE artifacts_files[c.content].label = c.label
      <4>1. Store!Move(w, Store!At("commit", c, box))
        BY <1>5, <2>5, <3>3 DEF Store!Persist
      <4> HIDE DEF box
      <4>2. ArtifactsTyped'
        BY <1>0, <2>1, <2>3, <3>1, <4>1 DEF ArtifactsTyped
      <4>3. Sealed'
        BY <1>0, <2>1, <2>3, <2>5, <3>1, <3>3, <4>1 DEF Sealed, Store!Working
      <4>4. QED
        BY <3>2, <4>2, <4>3 DEF ArtifactsSound
    <3>4. CASE artifacts_files[c.content].label # c.label
      <4>1. Store!Move(w, [step |-> "idle", commit |-> {}, box |-> 0])
        BY <1>5, <2>5, <3>4 DEF Store!Persist, Store!NotWriting
      <4>2. "idle" \in {"idle", "persist", "commit"} /\ {} \in SUBSET Commits
        OBVIOUS
      <4>3. /\ artifacts_writer' \in
                    [Writers -> [step : {"idle", "persist", "commit"}, commit : SUBSET Commits,
                                 box : 0..MaxBoxes]]
            /\ artifacts_writer'[w].step = "idle"
            /\ \A v \in Writers \ {w} : artifacts_writer'[v] = artifacts_writer[v]
        BY <1>0, <4>1, <4>2, WriterMoves, Zenon
      <4>4. ArtifactsTyped'
        BY <1>0, <2>1, <3>1, <4>3 DEF ArtifactsTyped
      <4>5. Sealed'
        BY <1>0, <3>1, <4>3 DEF Sealed, Store!Working
      <4>6. QED
        BY <3>2, <4>4, <4>5 DEF ArtifactsSound
    <3>5. QED
      BY <3>3, <3>4
  <2>6. QED
    BY <2>4, <2>5
<1>6. ASSUME NEW w \in Writers, NEW c \in Commits, Store!CommitArtifact(w, c)
      PROVE  ArtifactsSound'
  <2> DEFINE blob == [box |-> artifacts_writer[w].box, label |-> c.label]
  <2>1. /\ Store!Working(w, "commit", c) /\ Store!Move(w, Store!NotWriting)
        /\ UNCHANGED <<artifacts_files, artifacts_boxes, artifacts_lost>>
    BY <1>6 DEF Store!CommitArtifact
  <2>2. CASE UNCHANGED <<artifacts_blobs, artifacts_artifacts>>
    <3>1. ArtifactsTyped' /\ Sealed'
      BY <1>0, <1>1, <2>1, <2>2 DEF ArtifactsTyped
    <3>2. Published'
      BY <1>0, <2>1, <2>2 DEF Published
    <3>3. QED
      BY <3>1, <3>2 DEF ArtifactsSound
  <2>3. CASE /\ artifacts_blobs[c.content] \in {Store!NoBlob, blob}
             /\ artifacts_blobs' = [artifacts_blobs EXCEPT ![c.content] = blob]
             /\ artifacts_artifacts' = artifacts_artifacts \cup {c}
    <3>1. /\ blob \in Store!Blobs /\ blob # Store!NoBlob /\ blob.label = c.label
          /\ blob.box = artifacts_writer[w].box
      BY <1>0, <2>1 DEF ArtifactsTyped, Sealed, Store!Blobs, Store!NoBlob
    <3>2. artifacts_files[c.content] \in Store!Blobs
          /\ artifacts_files[c.content].label = c.label
          /\ (artifacts_files[c.content].box = blob.box \/ c.content \in artifacts_lost)
      BY <1>0, <2>1, <3>1 DEF Sealed, ArtifactsTyped
    <3>3. artifacts_files[c.content] = blob \/ c.content \in artifacts_lost
      BY <3>1, <3>2 DEF Store!Blobs
    <3> HIDE DEF blob
    <3>4. /\ artifacts_blobs' \in [Store!Committed -> Store!Blobs \cup {Store!NoBlob}]
          /\ artifacts_blobs'[c.content] = blob
          /\ \A x \in Store!Committed \ {c.content} : artifacts_blobs'[x] = artifacts_blobs[x]
      BY <1>0, <2>3, <3>1 DEF ArtifactsTyped
    <3>5. ArtifactsTyped' /\ Sealed'
      BY <1>0, <1>1, <2>1, <2>3, <3>4 DEF ArtifactsTyped
    <3>6. ASSUME NEW x \in Store!Committed, artifacts_blobs'[x] # Store!NoBlob
          PROVE  /\ artifacts_files[x] # Store!NoBlob
                 /\ artifacts_blobs'[x].label = artifacts_files[x].label
                 /\ artifacts_blobs'[x] = artifacts_files[x] \/ x \in artifacts_lost
      <4>1. CASE x = c.content
        BY <1>0, <2>1, <3>1, <3>2, <3>3, <3>4, <4>1 DEF Sealed
      <4>2. CASE x # c.content
        BY <1>0, <3>4, <3>6, <4>2 DEF Published
      <4>3. QED
        BY <4>1, <4>2
    <3>7. ASSUME NEW a \in artifacts_artifacts'
          PROVE  /\ artifacts_blobs'[a.content] # Store!NoBlob
                 /\ artifacts_blobs'[a.content].label = a.label
      <4>1. CASE a = c
        BY <3>1, <3>4, <4>1
      <4>2. CASE a # c
        <5>1. /\ a \in artifacts_artifacts /\ a.content \in Store!Committed
              /\ artifacts_blobs[a.content] # Store!NoBlob
              /\ artifacts_blobs[a.content].label = a.label
          BY <1>0, <2>3, <4>2 DEF Published, ArtifactsTyped
        <5>2. QED
          BY <2>3, <3>1, <3>4, <5>1
      <4>3. QED
        BY <4>1, <4>2
    <3>8. QED
      BY <2>1, <3>5, <3>6, <3>7 DEF ArtifactsSound, Published
  <2>4. QED
    BY <1>6, <2>2, <2>3 DEF Store!CommitArtifact, Store!InsertArtifactFact
<1>7. QED
  BY <1>2, <1>3, <1>4, <1>5, <1>6 DEF Store!ArtifactsNext

LEMMA ArtifactsStep == ArtifactsSound /\ [Next]_vars => ArtifactsSound'
<1> SUFFICES ASSUME ArtifactsSound, [Next]_vars
             PROVE  ArtifactsSound'
  OBVIOUS
<1>1. CASE Store!ArtifactsNext
  BY <1>1, ArtifactsNext
<1>2. CASE UNCHANGED artifacts
  BY <1>2 DEF artifacts, ArtifactsSound, ArtifactsTyped, Sealed, Published, Store!Working
<1>3. QED
  BY <1>1, <1>2 DEF Next, Unless, vars, artifacts

LEMMA ArtifactsAlways == Spec => [](Store!ArtifactsTypeOK /\ Store!RecordedIsReadable)
<1>1. ArtifactsSound => Store!ArtifactsTypeOK
  BY DEF ArtifactsSound, ArtifactsTyped, Store!ArtifactsTypeOK
<1>2. ArtifactsSound => Store!RecordedIsReadable
  BY DEF ArtifactsSound, ArtifactsTyped, Published, Store!RecordedIsReadable, Store!Readable,
         Store!Committed
<1>3. QED
  BY <1>1, <1>2, ArtifactsInit, ArtifactsStep, PTL DEF Spec

-----------------------------------------------------------------------------
(* The projection that is rebuilt from the log.                            *)

Entries == [run : StoredRuns, from : Store!States \cup {"none"}, to : Store!States]
Rows == [state : Store!States \cup {"none"}, at : 0..MaxLog]
RecoverySteps == {"idle", "compare", "rebuild", "replace", "recheck", "recompare"}

RecoveryTyped ==
    /\ recovery_log \in Seq(Entries) /\ Len(recovery_log) <= MaxLog
    /\ recovery_rows \in [StoredRuns -> Rows]
    /\ recovery_recovery \in [Recoverers -> [step : RecoverySteps, seen : Nat]]
    /\ \A p \in Recoverers : recovery_recovery[p].seen <= Len(recovery_log)
    /\ recovery_reports \in [Recoverers -> {"none", "sound", "repaired", "ProjectionMismatch"}]
    /\ recovery_drifted \subseteq recovery_blamed /\ recovery_blamed \subseteq StoredRuns

RecoverySound == RecoveryTyped /\ Store!RecoveryIsFaithful

LEMMA LeastIn ==
    ASSUME NEW S, S \subseteq Nat, S # {}
    PROVE  \E n \in S : \A m \in S : n <= m
<1> DEFINE R == OpToRel(<, Nat)
<1>1. IsWellFoundedOn(R, Nat)
  BY NatLessThanWellFounded
<1>2. \A x, y \in Nat : x < y => <<x, y>> \in R
  BY DEF OpToRel
<1> HIDE DEF R
<1>3. PICK x \in S : \A y \in S : ~ (<<y, x>> \in R)
  BY <1>1, WFMin
<1>4. \A y \in S : ~ (y < x)
  BY <1>2, <1>3, Zenon
<1>5. QED
  BY <1>3, <1>4

LEMMA LatestIn ==
    ASSUME NEW n \in Nat, NEW S, S \subseteq 1..n, S # {}
    PROVE  \E i \in S : \A j \in S : j <= i
<1> DEFINE T == {n - i : i \in S}
<1>1. T \subseteq Nat /\ T # {}
  OBVIOUS
<1> HIDE DEF T
<1>2. PICK k \in T : \A m \in T : k <= m
  BY <1>1, LeastIn, Zenon
<1>3. PICK i \in S : k = n - i
  BY <1>2 DEF T
<1>4. ASSUME NEW j \in S
      PROVE  j <= i
  <2>1. n - j \in T
    BY DEF T
  <2>2. QED
    BY <1>2, <1>3, <2>1
<1>5. QED
  BY <1>4

\* The row of a run after n events: its last event's.
LEMMA ReplayedRowIs ==
    ASSUME RecoveryTyped, NEW r \in StoredRuns, NEW n \in 0..Len(recovery_log)
    PROVE  /\ Store!EventsOf(r, n) = {} => Store!ReplayedRow(r, n) = Store!NoRow
           /\ \A i \in Store!EventsOf(r, n) :
                (\A j \in Store!EventsOf(r, n) : j <= i) =>
                    Store!ReplayedRow(r, n) = [state |-> recovery_log[i].to, at |-> i]
           /\ Store!ReplayedRow(r, n) \in Rows
<1>1. n \in Nat /\ Store!EventsOf(r, n) \subseteq 1..n
  BY DEF Store!EventsOf
<1>2. ASSUME NEW i \in Store!EventsOf(r, n), \A j \in Store!EventsOf(r, n) : j <= i
      PROVE  Store!ReplayedRow(r, n) = [state |-> recovery_log[i].to, at |-> i]
  <2> DEFINE last == CHOOSE k \in Store!EventsOf(r, n) : \A j \in Store!EventsOf(r, n) : j <= k
  <2>1. last \in Store!EventsOf(r, n) /\ \A j \in Store!EventsOf(r, n) : j <= last
    BY <1>2, Zenon
  <2>2. last = i
    <3> HIDE DEF last
    <3>1. QED
      BY <1>1, <1>2, <2>1
  <2>3. Store!ReplayedRow(r, n) = [state |-> recovery_log[last].to, at |-> last]
    BY <1>2, Zenon DEF Store!ReplayedRow
  <2>4. QED
    BY <2>2, <2>3, Zenon
<1>3. CASE Store!EventsOf(r, n) = {}
  <2>1. Store!ReplayedRow(r, n) = Store!NoRow
    BY <1>3 DEF Store!ReplayedRow
  <2>2. Store!NoRow \in Rows
    BY WorkspacesAssumption DEF Store!NoRow, Rows, Store!RecoveryAssumption
  <2>3. QED
    BY <1>3, <2>1, <2>2
<1>4. CASE Store!EventsOf(r, n) # {}
  <2>1. PICK i \in Store!EventsOf(r, n) : \A j \in Store!EventsOf(r, n) : j <= i
    BY <1>1, <1>4, LatestIn, Zenon
  <2>2. i \in 1..Len(recovery_log) /\ i \in 0..MaxLog /\ recovery_log[i].to \in Store!States
    <3>1. i \in 1..Len(recovery_log) /\ Len(recovery_log) \in Nat
      BY <1>1, <2>1 DEF RecoveryTyped
    <3>2. recovery_log[i] \in Entries
      BY <3>1, ElementOfSeq DEF RecoveryTyped
    <3>3. QED
      BY <3>1, <3>2, WorkspacesAssumption DEF RecoveryTyped, Entries, Store!RecoveryAssumption
  <2>3. [state |-> recovery_log[i].to, at |-> i] \in Rows
    BY <2>2 DEF Rows
  <2>4. QED
    BY <1>2, <1>4, <2>1, <2>3, Zenon
<1>5. QED
  BY <1>3, <1>4

LEMMA RecoveryInit == Init => RecoverySound
<1> SUFFICES ASSUME Store!Init
             PROVE  RecoverySound
  BY DEF Init
<1>1. RecoveryTyped
  BY WorkspacesAssumption, EmptySeq
  DEF Store!Init, RecoveryTyped, Store!RecoveryAssumption, Store!NoRow, Rows, Store!Idle,
      RecoverySteps
<1>2. Store!RecoveryIsFaithful
  <2>1. Len(recovery_log) = 0 /\ 0 \in 0..0
    BY DEF Store!Init
  <2>2. \A r \in StoredRuns : Store!EventsOf(r, 0) = {}
    BY DEF Store!EventsOf
  <2>3. \A r \in StoredRuns : Store!ReplayedRow(r, 0) = Store!NoRow
    BY <2>2 DEF Store!ReplayedRow
  <2>4. \A r \in StoredRuns : recovery_rows[r] = Store!NoRow
    BY DEF Store!Init
  <2>5. QED
    BY <2>1, <2>2, <2>3, <2>4 DEF Store!RecoveryIsFaithful, Store!SoundFor
<1>3. QED
  BY <1>1, <1>2 DEF RecoverySound

\* What the projection says of the log stays while neither changes.
LEMMA RecoveryRests ==
    ASSUME RecoverySound, RecoveryTyped',
           UNCHANGED <<recovery_log, recovery_rows, recovery_drifted, recovery_blamed>>
    PROVE  RecoverySound'
<1>1. \A r, m : /\ Store!EventsOf(r, m)' = Store!EventsOf(r, m)
               /\ Store!ReplayedRow(r, m)' = Store!ReplayedRow(r, m)
               /\ Store!SoundFor(r, m)' = Store!SoundFor(r, m)
  BY DEF Store!EventsOf, Store!ReplayedRow, Store!SoundFor
<1>2. QED
  BY <1>1 DEF RecoverySound, Store!RecoveryIsFaithful

LEMMA CommitKeeps ==
    ASSUME RecoverySound, NEW r \in StoredRuns, NEW to \in Store!States, Store!Commit(r, to)
    PROVE  RecoverySound'
<1>0. PICK n : n = Len(recovery_log)
  OBVIOUS
<1> DEFINE entry == [run |-> r, from |-> recovery_rows[r].state, to |-> to]
<1> DEFINE row == [state |-> to, at |-> n + 1]
<1>1. /\ n \in Nat /\ n < MaxLog /\ recovery_log \in Seq(Entries)
      /\ recovery_log' = Append(recovery_log, entry)
      /\ recovery_rows' = [recovery_rows EXCEPT ![r] = row]
      /\ Store!Follows(recovery_rows[r].state, to)
      /\ UNCHANGED <<recovery_recovery, recovery_reports, recovery_drifts, recovery_drifted,
                     recovery_blamed>>
  BY <1>0 DEF Store!Commit, RecoverySound, RecoveryTyped
<1>2. entry \in Entries /\ row \in Rows
  BY <1>1, WorkspacesAssumption
  DEF RecoverySound, RecoveryTyped, Entries, Rows, Store!RecoveryAssumption
<1>3. entry.run = r /\ entry.from = recovery_rows[r].state /\ entry.to = to
  OBVIOUS
<1> HIDE DEF entry
<1>4. /\ Len(recovery_log') = n + 1 /\ recovery_log' \in Seq(Entries)
      /\ recovery_log'[n + 1] = entry
      /\ \A i \in 1..n : recovery_log'[i] = recovery_log[i]
  BY <1>0, <1>1, <1>2
<1> HIDE DEF row
<1>5. /\ recovery_rows' \in [StoredRuns -> Rows] /\ recovery_rows'[r] = row
      /\ \A s \in StoredRuns \ {r} : recovery_rows'[s] = recovery_rows[s]
  BY <1>1, <1>2 DEF RecoverySound, RecoveryTyped
<1>6. RecoveryTyped'
  <2>1. \A p \in Recoverers : recovery_recovery[p].seen \in Nat
                              /\ recovery_recovery[p].seen <= n
    BY <1>0 DEF RecoverySound, RecoveryTyped
  <2>2. n + 1 <= MaxLog
    BY <1>1, WorkspacesAssumption DEF Store!RecoveryAssumption
  <2>3. QED
    BY <1>1, <1>4, <1>5, <2>1, <2>2 DEF RecoverySound, RecoveryTyped
\* The replay of what was there is what it was; this event is the last.
<1>7. ASSUME NEW s \in StoredRuns, NEW m \in 0..n
      PROVE  /\ Store!EventsOf(s, m)' = Store!EventsOf(s, m)
             /\ Store!ReplayedRow(s, m)' = Store!ReplayedRow(s, m)
  <2>1. \A i \in 1..m : recovery_log'[i] = recovery_log[i]
    BY <1>1, <1>4
  <2>2. Store!EventsOf(s, m)' = Store!EventsOf(s, m)
    BY <2>1 DEF Store!EventsOf
  <2>3. CASE Store!EventsOf(s, m) = {}
    BY <2>2, <2>3 DEF Store!ReplayedRow, Store!NoRow
  <2>4. CASE Store!EventsOf(s, m) # {}
    <3>1. m \in Nat /\ Store!EventsOf(s, m) \subseteq 1..m
      BY DEF Store!EventsOf
    <3>2. PICK i \in Store!EventsOf(s, m) : \A j \in Store!EventsOf(s, m) : j <= i
      BY <2>4, <3>1, LatestIn, Zenon
    <3>3. m \in 0..Len(recovery_log)
      BY <1>0
    <3>4. Store!ReplayedRow(s, m) = [state |-> recovery_log[i].to, at |-> i]
      BY <3>2, <3>3, ReplayedRowIs, Zenon DEF RecoverySound
    <3> DEFINE last == CHOOSE k \in Store!EventsOf(s, m) : \A j \in Store!EventsOf(s, m) : j <= k
    <3>5. last \in Store!EventsOf(s, m) /\ \A j \in Store!EventsOf(s, m) : j <= last
      BY <3>2, Zenon
    <3>6. Store!ReplayedRow(s, m)' = [state |-> recovery_log'[last].to, at |-> last]
      BY <2>2, <2>4, Zenon DEF Store!ReplayedRow
    <3> HIDE DEF last
    <3>7. last = i
      BY <3>1, <3>2, <3>5
    <3>8. recovery_log'[last] = recovery_log[i]
      BY <2>1, <3>1, <3>2, <3>7
    <3>9. QED
      BY <2>2, <3>4, <3>6, <3>7, <3>8, Zenon
  <2>5. QED
    BY <2>2, <2>3, <2>4
<1>8. /\ Store!EventsOf(r, n + 1)' = Store!EventsOf(r, n) \cup {n + 1}
      /\ \A s \in StoredRuns \ {r} : Store!EventsOf(s, n + 1)' = Store!EventsOf(s, n)
      /\ \A s \in StoredRuns : Store!EventsOf(s, n) \subseteq 1..n
  BY <1>1, <1>3, <1>4 DEF Store!EventsOf
<1>9. Store!ReplayedRow(r, n + 1)' = row
  <2> DEFINE events == Store!EventsOf(r, n + 1)'
             last == CHOOSE k \in events : \A j \in events : j <= k
  <2>1. n + 1 \in events /\ \A j \in events : j <= n + 1
    BY <1>1, <1>8
  <2>2. Store!ReplayedRow(r, n + 1)' = [state |-> recovery_log'[last].to, at |-> last]
    BY <2>1, Zenon DEF Store!ReplayedRow
  <2> HIDE DEF events
  <2>3. last \in events /\ \A j \in events : j <= last
    BY <2>1, Zenon
  <2> HIDE DEF last
  <2>4. last = n + 1
    BY <1>1, <1>8, <2>1, <2>3 DEF events
  <2>5. QED
    BY <1>3, <1>4, <2>2, <2>4 DEF row
<1>10. ASSUME NEW s \in StoredRuns \ {r}
       PROVE  Store!ReplayedRow(s, n + 1)' = Store!ReplayedRow(s, n)
  <2>1. Store!ReplayedRow(s, n + 1)' = Store!ReplayedRow(s, n)'
    <3>1. Store!EventsOf(s, n + 1)' = Store!EventsOf(s, n)'
      BY <1>1, <1>7, <1>8
    <3>2. QED
      BY <3>1, Zenon DEF Store!ReplayedRow
  <2>2. QED
    BY <1>1, <1>7, <2>1
<1>11. ASSUME NEW s \in StoredRuns \ recovery_blamed
       PROVE  /\ recovery_rows'[s] = Store!ReplayedRow(s, n + 1)'
              /\ Store!SoundFor(s, n + 1)'
  <2>1. recovery_rows[s] = Store!ReplayedRow(s, n) /\ Store!SoundFor(s, n)
    BY <1>0 DEF RecoverySound, Store!RecoveryIsFaithful
  <2>2. ASSUME NEW i \in Store!EventsOf(s, n)
        PROVE  /\ recovery_log'[i].from = Store!ReplayedRow(s, i - 1)'.state
               /\ Store!Follows(recovery_log'[i].from, recovery_log'[i].to)
    <3>1. i \in 1..n /\ i - 1 \in 0..n
      BY <1>1, <1>8
    <3>2. QED
      BY <1>4, <1>7, <2>1, <3>1 DEF Store!SoundFor
  <2>3. CASE s = r
    <3>1. /\ recovery_log'[n + 1].from = Store!ReplayedRow(r, n)'.state
          /\ Store!Follows(recovery_log'[n + 1].from, recovery_log'[n + 1].to)
      BY <1>1, <1>3, <1>4, <1>7, <2>1, <2>3
    <3>2. n + 1 - 1 = n
      BY <1>1
    <3>3. ASSUME NEW i \in Store!EventsOf(r, n + 1)'
          PROVE  /\ recovery_log'[i].from = Store!ReplayedRow(r, i - 1)'.state
                 /\ Store!Follows(recovery_log'[i].from, recovery_log'[i].to)
      <4>1. CASE i = n + 1
        <5>1. i - 1 = n
          BY <1>1, <4>1
        <5>2. QED
          BY <3>1, <4>1, <5>1
      <4>2. CASE i \in Store!EventsOf(r, n)
        BY <2>2, <2>3, <4>2, Zenon
      <4>3. QED
        BY <1>8, <4>1, <4>2
    <3>4. Store!SoundFor(r, n + 1)'
      BY <3>3, Zenon DEF Store!SoundFor
    <3>5. QED
      BY <1>5, <1>9, <2>3, <3>4
  <2>4. CASE s # r
    BY <1>5, <1>8, <1>10, <2>1, <2>2, <2>4 DEF Store!SoundFor
  <2>5. QED
    BY <2>3, <2>4
<1>12. ASSUME NEW s \in StoredRuns \ recovery_drifted
       PROVE  \E m \in 0..n + 1 : recovery_rows'[s] = Store!ReplayedRow(s, m)'
  <2>1. CASE s = r
    <3>1. n + 1 \in 0..n + 1
      BY <1>1
    <3>2. QED
      BY <1>5, <1>9, <2>1, <3>1
  <2>2. CASE s # r
    <3>1. PICK m \in 0..n : recovery_rows[s] = Store!ReplayedRow(s, m)
      BY <1>0 DEF RecoverySound, Store!RecoveryIsFaithful
    <3>2. m \in 0..n + 1
      BY <1>1
    <3>3. QED
      BY <1>5, <1>7, <2>2, <3>1, <3>2
  <2>3. QED
    BY <2>1, <2>2
<1>13. Store!RecoveryIsFaithful'
  BY <1>1, <1>4, <1>11, <1>12 DEF Store!RecoveryIsFaithful
<1>14. QED
  BY <1>6, <1>13 DEF RecoverySound

LEMMA ReplaceKeeps ==
    ASSUME RecoverySound, NEW p \in Recoverers, Store!Replace(p)
    PROVE  RecoverySound'
<1> DEFINE seen == recovery_recovery[p].seen
<1>1. seen \in 0..Len(recovery_log) /\ Len(recovery_log) \in 0..Len(recovery_log)
  BY DEF RecoverySound, RecoveryTyped
<1>2. /\ recovery_rows' = [r \in StoredRuns |-> Store!ReplayedRow(r, seen)]
      /\ recovery_recovery' =
            [recovery_recovery EXCEPT ![p] = [step |-> "recheck", seen |-> 0]]
      /\ recovery_drifted' = {}
      /\ recovery_blamed' = recovery_blamed \cup Store!SetBack(p)
      /\ UNCHANGED <<recovery_log, recovery_reports>>
  BY DEF Store!Replace, Store!Replayed, Store!Rebuilt, Store!Goto
<1>3. \A r \in StoredRuns : recovery_rows'[r] = Store!ReplayedRow(r, seen)
  BY <1>2
<1>4. \A r \in StoredRuns : Store!ReplayedRow(r, seen) \in Rows
  BY <1>1, ReplayedRowIs, Zenon DEF RecoverySound
<1>5. \A r \in StoredRuns \ Store!SetBack(p) :
        Store!ReplayedRow(r, seen) = Store!ReplayedRow(r, Len(recovery_log))
  BY DEF Store!SetBack
<1> HIDE DEF seen
<1>6. RecoveryTyped'
  BY <1>1, <1>2, <1>4
  DEF RecoverySound, RecoveryTyped, RecoverySteps, Store!SetBack
<1>7. \A r \in StoredRuns : \A m :
            /\ Store!EventsOf(r, m)' = Store!EventsOf(r, m)
            /\ Store!ReplayedRow(r, m)' = Store!ReplayedRow(r, m)
            /\ Store!SoundFor(r, m)' = Store!SoundFor(r, m)
  BY <1>2 DEF Store!EventsOf, Store!ReplayedRow, Store!SoundFor
<1>8. Store!RecoveryIsFaithful'
  <2>1. ASSUME NEW r \in StoredRuns \ recovery_blamed'
        PROVE  /\ recovery_rows'[r] = Store!ReplayedRow(r, Len(recovery_log))
               /\ Store!SoundFor(r, Len(recovery_log))
    BY <1>2, <1>3, <1>5 DEF RecoverySound, Store!RecoveryIsFaithful
  <2>2. ASSUME NEW r \in StoredRuns
        PROVE  \E m \in 0..Len(recovery_log) : recovery_rows'[r] = Store!ReplayedRow(r, m)
    BY <1>1, <1>3
  <2>3. QED
    BY <1>2, <1>7, <2>1, <2>2 DEF Store!RecoveryIsFaithful
<1>9. QED
  BY <1>6, <1>8 DEF RecoverySound

LEMMA DriftKeeps ==
    ASSUME RecoverySound, NEW r \in StoredRuns, NEW state \in Store!States, Store!Drift(r, state)
    PROVE  RecoverySound'
<1>1. /\ recovery_rows' = [recovery_rows EXCEPT ![r] = [@ EXCEPT !.state = state]]
      /\ recovery_drifted' = recovery_drifted \cup {r}
      /\ recovery_blamed' = recovery_blamed \cup {r}
      /\ UNCHANGED <<recovery_log, recovery_recovery, recovery_reports>>
  BY DEF Store!Drift
<1>2. /\ recovery_rows' \in [StoredRuns -> Rows]
      /\ \A s \in StoredRuns \ {r} : recovery_rows'[s] = recovery_rows[s]
  BY <1>1 DEF RecoverySound, RecoveryTyped, Rows
<1>3. RecoveryTyped'
  BY <1>1, <1>2 DEF RecoverySound, RecoveryTyped
<1>4. \A s \in StoredRuns : \A m :
            /\ Store!ReplayedRow(s, m)' = Store!ReplayedRow(s, m)
            /\ Store!SoundFor(s, m)' = Store!SoundFor(s, m)
  BY <1>1 DEF Store!EventsOf, Store!ReplayedRow, Store!SoundFor
<1>5. Store!RecoveryIsFaithful'
  BY <1>1, <1>2, <1>4 DEF RecoverySound, Store!RecoveryIsFaithful
<1>6. QED
  BY <1>3, <1>5 DEF RecoverySound

LEMMA RecoveryNext ==
    ASSUME RecoverySound, Store!Next
    PROVE  RecoverySound'
<1> USE DEF RecoverySteps, Store!Goto, Store!Report, Store!Idle
<1>1. ASSUME NEW r \in StoredRuns, NEW s \in Store!States, Store!Commit(r, s) \/ Store!Drift(r, s)
      PROVE  RecoverySound'
  BY <1>1, CommitKeeps, DriftKeeps
<1>2. ASSUME NEW p \in Recoverers, Store!Replace(p)
      PROVE  RecoverySound'
  BY <1>2, ReplaceKeeps
<1>3. ASSUME NEW p \in Recoverers, NEW step \in RecoverySteps, NEW seen \in 0..Len(recovery_log),
             NEW said \in {"none", "sound", "repaired", "ProjectionMismatch"},
             recovery_recovery' =
                [recovery_recovery EXCEPT ![p] = [step |-> step, seen |-> seen]],
             \/ UNCHANGED recovery_reports
             \/ recovery_reports' = [recovery_reports EXCEPT ![p] = said],
             UNCHANGED <<recovery_log, recovery_rows, recovery_drifted, recovery_blamed>>
      PROVE  RecoverySound'
  <2>1. RecoveryTyped'
    BY <1>3 DEF RecoverySound, RecoveryTyped
  <2>2. QED
    BY <1>3, <2>1, RecoveryRests
<1>4. Len(recovery_log) \in 0..Len(recovery_log) /\ 0 \in 0..Len(recovery_log)
  BY DEF RecoverySound, RecoveryTyped
<1>5. ASSUME NEW p \in Recoverers, Store!ReadLog(p)
      PROVE  RecoverySound'
  BY <1>3, <1>4, <1>5 DEF Store!ReadLog
<1>6. ASSUME NEW p \in Recoverers, Store!Compare(p)
      PROVE  RecoverySound'
  BY <1>3, <1>4, <1>6 DEF Store!Compare
<1>7. ASSUME NEW p \in Recoverers, Store!Rebuild(p)
      PROVE  RecoverySound'
  BY <1>3, <1>4, <1>7 DEF Store!Rebuild
<1>8. ASSUME NEW p \in Recoverers, Store!Recheck(p)
      PROVE  RecoverySound'
  BY <1>3, <1>4, <1>8 DEF Store!Recheck
<1>9. ASSUME NEW p \in Recoverers, Store!Recompare(p)
      PROVE  RecoverySound'
  BY <1>3, <1>4, <1>9 DEF Store!Recompare
<1>10. ASSUME NEW p \in Recoverers, Store!Die(p)
       PROVE  RecoverySound'
  BY <1>3, <1>4, <1>10 DEF Store!Die
<1>11. QED
  BY <1>1, <1>2, <1>5, <1>6, <1>7, <1>8, <1>9, <1>10 DEF Store!Next

LEMMA RecoveryStep == RecoverySound /\ [Next]_vars => RecoverySound'
<1> SUFFICES ASSUME RecoverySound, [Next]_vars
             PROVE  RecoverySound'
  OBVIOUS
<1>1. CASE Store!Next
  BY <1>1, RecoveryNext
<1>2. CASE UNCHANGED recovery
  <2>1. RecoveryTyped'
    BY <1>2 DEF recovery, RecoverySound, RecoveryTyped
  <2>2. QED
    BY <1>2, <2>1, RecoveryRests DEF recovery
<1>3. QED
  BY <1>1, <1>2 DEF Next, Unless, vars, recovery

LEMMA RecoveryAlways == Spec => [](Store!TypeOK /\ Store!RecoveryIsFaithful)
<1>1. RecoverySound => Store!TypeOK
  BY DEF RecoverySound, RecoveryTyped, Store!TypeOK, Rows, Entries, RecoverySteps
<1>2. QED
  BY <1>1, RecoveryInit, RecoveryStep, PTL DEF Spec, RecoverySound

-----------------------------------------------------------------------------
(* The address of the workspace.                                           *)

BindingSound == Endpoint!BindTypeOK /\ Endpoint!OneCoreServes

LEMMA BindingInit == Init => BindingSound
BY WorkspacesAssumption
DEF Init, Endpoint!BindInit, BindingSound, Endpoint!BindTypeOK, Endpoint!OneCoreServes,
    Endpoint!EndpointAssumption

LEMMA BindingNext ==
    ASSUME BindingSound, Endpoint!BindNext
    PROVE  BindingSound'
<1> USE WorkspacesAssumption
    DEF BindingSound, Endpoint!BindTypeOK, Endpoint!OneCoreServes, Endpoint!Step,
        Endpoint!EndpointAssumption
<1>1. ASSUME NEW c \in Cores, Endpoint!Look(c)
      PROVE  BindingSound'
  BY <1>1 DEF Endpoint!Look
<1>2. ASSUME NEW c \in Cores, Endpoint!Reap(c)
      PROVE  BindingSound'
  BY <1>2 DEF Endpoint!Reap
<1>3. ASSUME NEW c \in Cores, Endpoint!Bind(c)
      PROVE  BindingSound'
  BY <1>3 DEF Endpoint!Bind
<1>4. ASSUME NEW c \in Cores, Endpoint!Die(c)
      PROVE  BindingSound'
  BY <1>4 DEF Endpoint!Die
<1>5. QED
  BY <1>1, <1>2, <1>3, <1>4 DEF Endpoint!BindNext

LEMMA BindingStep == BindingSound /\ [Next]_vars => BindingSound'
<1> SUFFICES ASSUME BindingSound, [Next]_vars
             PROVE  BindingSound'
  OBVIOUS
<1>1. CASE Endpoint!BindNext
  BY <1>1, BindingNext
<1>2. CASE UNCHANGED binding
  BY <1>2 DEF binding, BindingSound, Endpoint!BindTypeOK, Endpoint!OneCoreServes
<1>3. QED
  BY <1>1, <1>2 DEF Next, Unless, vars, binding

LEMMA BindingAlways == Spec => [](Endpoint!BindTypeOK /\ Endpoint!OneCoreServes)
BY BindingInit, BindingStep, PTL DEF Spec, BindingSound

-----------------------------------------------------------------------------
(* The connections of a core.                                              *)

Ats == {"read", "accept", "audit", "subscribe", "count", "engine", "store", "answer", "closed"}

EndpointTyped ==
    /\ endpoint_thread \in [Clients -> [at : Ats, last : Nat, more : BOOLEAN, of : Nat]]
    /\ endpoint_told \in [Clients -> [cursor : Nat, more : BOOLEAN, of : Nat]]
    /\ endpoint_opened \subseteq Clients /\ endpoint_deaf \subseteq Clients
    /\ endpoint_spent \in BOOLEAN
    /\ endpoint_engine \in Clients \cup {"none"} /\ endpoint_store \in Clients \cup {"none"}
    /\ endpoint_stored \in 0..MaxStored

\* What a thread has to tell begins at the cursor and does not go beyond what
\* was stored when it read.
Paged ==
    \A c \in Clients :
        /\ endpoint_told[c].cursor <= endpoint_thread[c].last
        /\ endpoint_thread[c].last <= endpoint_thread[c].of
        /\ endpoint_thread[c].of <= endpoint_stored
        /\ ~endpoint_thread[c].more => endpoint_thread[c].of <= endpoint_thread[c].last

Told ==
    /\ endpoint_received \in [Clients -> SUBSET Nat]
    /\ Endpoint!FollowersMissNothing

EndpointSound == EndpointTyped /\ Paged /\ Told /\ Endpoint!LocksComeBack

LEMMA EndpointInit == Init => EndpointSound
<1> SUFFICES ASSUME Endpoint!Init
             PROVE  EndpointSound
  BY DEF Init
<1>1. EndpointTyped /\ Paged /\ Endpoint!LocksComeBack
  <2>1. \A c \in Clients : /\ endpoint_thread[c].last = 0 /\ endpoint_thread[c].of = 0
                           /\ endpoint_thread[c].more /\ endpoint_told[c].cursor = 0
    BY DEF Endpoint!Init
  <2>2. endpoint_stored \in 0..MaxStored
    BY DEF Endpoint!Init
  <2>3. EndpointTyped
    BY DEF Endpoint!Init, EndpointTyped, Ats
  <2>4. Paged
    BY <2>1, <2>2 DEF Paged
  <2>5. Endpoint!LocksComeBack
    BY DEF Endpoint!Init, Endpoint!LocksComeBack
  <2>6. QED
    BY <2>3, <2>4, <2>5
<1>2. Told
  <2>1. 1..0 = {}
    OBVIOUS
  <2>2. QED
    BY <2>1 DEF Endpoint!Init, Told, Endpoint!FollowersMissNothing
<1>3. QED
  BY <1>1, <1>2 DEF EndpointSound

\* A thread that goes on without a new page, and what it holds or gives back.
LEMMA ThreadGoes ==
    ASSUME EndpointSound, NEW c \in Clients, NEW at \in Ats, Endpoint!Goes(c, at),
           endpoint_engine' \in {endpoint_engine, c, "none"},
           endpoint_store' \in {endpoint_store, c, "none"},
           endpoint_store' = c => at \in {"count", "answer"},
           endpoint_engine' = c => at \in {"store", "answer"},
           endpoint_stored' \in {endpoint_stored, endpoint_stored + 1},
           endpoint_stored' <= MaxStored, endpoint_spent' \in BOOLEAN,
           endpoint_opened' \subseteq Clients,
           UNCHANGED <<endpoint_received, endpoint_told, endpoint_deaf>>
    PROVE  EndpointSound'
<1> USE DEF EndpointSound, Endpoint!Goes
<1>1. /\ endpoint_thread'[c].at = at
      /\ endpoint_thread'[c].last = endpoint_thread[c].last
      /\ endpoint_thread'[c].more = endpoint_thread[c].more
      /\ endpoint_thread'[c].of = endpoint_thread[c].of
      /\ \A d \in Clients \ {c} : endpoint_thread'[d] = endpoint_thread[d]
      /\ endpoint_thread' \in [Clients -> [at : Ats, last : Nat, more : BOOLEAN, of : Nat]]
  BY DEF EndpointTyped
<1>2. endpoint_stored \in Nat /\ endpoint_stored' \in 0..MaxStored
      /\ endpoint_stored <= endpoint_stored'
  BY WorkspacesAssumption DEF EndpointTyped, Endpoint!EndpointAssumption
<1>3. EndpointTyped'
  BY <1>1, <1>2 DEF EndpointTyped
<1>4. Paged'
  <2>1. \A d \in Clients : /\ endpoint_thread'[d].last = endpoint_thread[d].last
                           /\ endpoint_thread'[d].more = endpoint_thread[d].more
                           /\ endpoint_thread'[d].of = endpoint_thread[d].of
                           /\ endpoint_thread[d].of \in Nat
    BY <1>1 DEF EndpointTyped
  <2>2. QED
    BY <1>2, <2>1 DEF Paged
<1>5. Told'
  BY DEF Told, Endpoint!FollowersMissNothing
<1>6. Endpoint!LocksComeBack'
  BY <1>1 DEF Endpoint!LocksComeBack, EndpointTyped
<1>7. QED
  BY <1>3, <1>4, <1>5, <1>6

\* What a thread holds tells where it is.
LEMMA HeldAt ==
    ASSUME EndpointSound, NEW c \in Clients
    PROVE  /\ endpoint_store = c => endpoint_thread[c].at \in {"count", "answer"}
           /\ endpoint_engine = c => endpoint_thread[c].at \in {"store", "answer"}
           /\ endpoint_stored <= MaxStored /\ endpoint_spent \in BOOLEAN
           /\ endpoint_opened \subseteq Clients /\ c # "none"
BY WorkspacesAssumption
DEF EndpointSound, EndpointTyped, Endpoint!LocksComeBack, Endpoint!EndpointAssumption

LEMMA ServeKeeps ==
    ASSUME EndpointSound, NEW c \in Clients, Endpoint!Serve(c)
    PROVE  EndpointSound'
<1> USE DEF Endpoint!locks, Endpoint!peers
<1>0. /\ endpoint_store = c => endpoint_thread[c].at \in {"count", "answer"}
      /\ endpoint_engine = c => endpoint_thread[c].at \in {"store", "answer"}
      /\ endpoint_stored <= MaxStored /\ endpoint_spent \in BOOLEAN
      /\ endpoint_opened \subseteq Clients /\ c # "none"
  BY HeldAt
<1>1. CASE Endpoint!Accept(c)
  <2>1. "answer" \in Ats
    BY DEF Ats
  <2>2. QED
    BY <1>0, <1>1, <2>1, ThreadGoes DEF Endpoint!Accept
<1>2. CASE Endpoint!AuditRejection(c)
  <2>1. "answer" \in Ats
    BY DEF Ats
  <2>2. QED
    BY <1>0, <1>2, <2>1, ThreadGoes DEF Endpoint!AuditRejection
<1>3. CASE Endpoint!LockEngine(c)
  <2>1. "store" \in Ats
    BY DEF Ats
  <2>2. QED
    BY <1>0, <1>3, <2>1, ThreadGoes DEF Endpoint!LockEngine
<1>4. CASE Endpoint!DispatchRun(c)
  <2>1. "answer" \in Ats
    BY DEF Ats
  <2>2. QED
    BY <1>0, <1>4, <2>1, ThreadGoes DEF Endpoint!DispatchRun
<1>5. CASE Endpoint!ReplayEvents(c)
  <2> DEFINE last == Endpoint!LastOfPage(c)
  <2>1. /\ endpoint_told[c].cursor \in Nat /\ endpoint_stored \in Nat
        /\ endpoint_told[c].cursor <= endpoint_stored
    <3>1. /\ endpoint_told[c].cursor \in Nat /\ endpoint_thread[c].last \in Nat
          /\ endpoint_thread[c].of \in Nat /\ endpoint_stored \in Nat
      BY DEF EndpointSound, EndpointTyped
    <3>2. QED
      BY <3>1 DEF EndpointSound, Paged
  <2>2. last \in Nat /\ endpoint_told[c].cursor <= last /\ last <= endpoint_stored
    BY <2>1, WorkspacesAssumption DEF Endpoint!LastOfPage, Endpoint!EndpointAssumption
  <2>3. /\ endpoint_thread' = [endpoint_thread EXCEPT ![c] =
                [at |-> "count", last |-> last, more |-> TRUE, of |-> endpoint_stored]]
        /\ endpoint_store' = c /\ endpoint_thread[c].at = "subscribe"
        /\ UNCHANGED <<endpoint_opened, endpoint_spent, endpoint_engine, endpoint_stored,
                       endpoint_received, endpoint_told, endpoint_deaf>>
    BY <1>5 DEF Endpoint!ReplayEvents
  <2> HIDE DEF last
  <2>4. /\ endpoint_thread' \in [Clients -> [at : Ats, last : Nat, more : BOOLEAN, of : Nat]]
        /\ endpoint_thread'[c].at = "count" /\ endpoint_thread'[c].last = last
        /\ endpoint_thread'[c].more /\ endpoint_thread'[c].of = endpoint_stored
        /\ \A d \in Clients \ {c} : endpoint_thread'[d] = endpoint_thread[d]
    BY <2>1, <2>2, <2>3 DEF EndpointSound, EndpointTyped, Ats
  <2>5. EndpointTyped'
    BY <2>3, <2>4 DEF EndpointSound, EndpointTyped
  <2>6. Paged'
    BY <2>1, <2>2, <2>3, <2>4 DEF EndpointSound, Paged
  <2>7. Told'
    BY <2>3 DEF EndpointSound, Told, Endpoint!FollowersMissNothing
  <2>8. Endpoint!LocksComeBack'
    BY <1>0, <2>3, <2>4 DEF EndpointSound, EndpointTyped, Endpoint!LocksComeBack
  <2>9. QED
    BY <2>5, <2>6, <2>7, <2>8 DEF EndpointSound
<1>6. CASE Endpoint!CountEvents(c)
  <2>1. /\ endpoint_thread[c].at = "count"
        /\ endpoint_thread' = [endpoint_thread EXCEPT ![c] =
                [@ EXCEPT !.at = "answer", !.more = endpoint_thread[c].last < endpoint_stored]]
        /\ UNCHANGED <<endpoint_opened, endpoint_spent, endpoint_engine, endpoint_store,
                       endpoint_stored, endpoint_received, endpoint_told, endpoint_deaf>>
    BY <1>6 DEF Endpoint!CountEvents
  <2>2. /\ endpoint_thread' \in [Clients -> [at : Ats, last : Nat, more : BOOLEAN, of : Nat]]
        /\ endpoint_thread'[c].at = "answer"
        /\ endpoint_thread'[c].last = endpoint_thread[c].last
        /\ endpoint_thread'[c].more <=> endpoint_thread[c].last < endpoint_stored
        /\ endpoint_thread'[c].of = endpoint_thread[c].of
        /\ \A d \in Clients \ {c} : endpoint_thread'[d] = endpoint_thread[d]
    <3>1. PICK more \in BOOLEAN : more = (endpoint_thread[c].last < endpoint_stored)
      <4>1. (endpoint_thread[c].last < endpoint_stored) \in BOOLEAN
        BY SMT DEF EndpointSound, EndpointTyped
      <4>2. QED
        BY <4>1, Zenon
    <3>2. endpoint_thread' = [endpoint_thread EXCEPT ![c] =
                [@ EXCEPT !.at = "answer", !.more = more]]
      BY <2>1, <3>1, Zenon
    <3>3. /\ endpoint_thread' \in [Clients -> [at : Ats, last : Nat, more : BOOLEAN, of : Nat]]
          /\ endpoint_thread'[c].at = "answer"
          /\ endpoint_thread'[c].last = endpoint_thread[c].last
          /\ endpoint_thread'[c].more = more
          /\ endpoint_thread'[c].of = endpoint_thread[c].of
          /\ \A d \in Clients \ {c} : endpoint_thread'[d] = endpoint_thread[d]
      BY <3>2 DEF EndpointSound, EndpointTyped, Ats
    <3>4. QED
      BY <3>1, <3>3, Zenon
  <2>3. endpoint_thread[c].last \in Nat /\ endpoint_thread[c].of \in Nat
        /\ endpoint_stored \in Nat
    BY DEF EndpointSound, EndpointTyped
  <2>4. EndpointTyped'
    BY <2>1, <2>2 DEF EndpointSound, EndpointTyped
  <2>5. Paged'
    BY <2>1, <2>2, <2>3 DEF EndpointSound, Paged
  <2>6. Told'
    BY <2>1 DEF EndpointSound, Told, Endpoint!FollowersMissNothing
  <2>7. Endpoint!LocksComeBack'
    BY <1>0, <2>1, <2>2 DEF EndpointSound, EndpointTyped, Endpoint!LocksComeBack
  <2>8. QED
    BY <2>4, <2>5, <2>6, <2>7 DEF EndpointSound
<1>7. CASE Endpoint!Answer(c)
  <2>1. /\ Endpoint!Goes(c, "read") /\ Endpoint!Unlock(c)
        /\ endpoint_received' = [endpoint_received EXCEPT
                ![c] = @ \cup {e \in Endpoint!Page(c) : e <= endpoint_thread[c].of}]
        /\ endpoint_told' = [endpoint_told EXCEPT ![c] =
                [cursor |-> endpoint_thread[c].last, more |-> endpoint_thread[c].more,
                 of |-> endpoint_thread[c].of]]
        /\ UNCHANGED <<endpoint_opened, endpoint_spent, endpoint_stored, endpoint_deaf>>
    BY <1>7 DEF Endpoint!Answer
  <2>2. /\ endpoint_thread' \in [Clients -> [at : Ats, last : Nat, more : BOOLEAN, of : Nat]]
        /\ endpoint_thread'[c].at = "read"
        /\ endpoint_thread'[c].last = endpoint_thread[c].last
        /\ endpoint_thread'[c].more = endpoint_thread[c].more
        /\ endpoint_thread'[c].of = endpoint_thread[c].of
        /\ \A d \in Clients \ {c} : endpoint_thread'[d] = endpoint_thread[d]
    BY <2>1 DEF Endpoint!Goes, EndpointSound, EndpointTyped, Ats
  <2>3. /\ endpoint_told' \in [Clients -> [cursor : Nat, more : BOOLEAN, of : Nat]]
        /\ endpoint_told'[c].cursor = endpoint_thread[c].last
        /\ endpoint_told'[c].more = endpoint_thread[c].more
        /\ endpoint_told'[c].of = endpoint_thread[c].of
        /\ \A d \in Clients \ {c} : endpoint_told'[d] = endpoint_told[d]
    BY <2>1 DEF EndpointSound, EndpointTyped
  <2>4. /\ endpoint_engine' \in Clients \cup {"none"} /\ endpoint_store' \in Clients \cup {"none"}
        /\ endpoint_engine' \in {endpoint_engine, "none"}
        /\ endpoint_store' \in {endpoint_store, "none"}
        /\ endpoint_engine' # c /\ endpoint_store' # c
    BY <1>0, <2>1 DEF Endpoint!Unlock, EndpointSound, EndpointTyped
  <2>5. EndpointTyped'
    BY <2>1, <2>2, <2>3, <2>4 DEF EndpointSound, EndpointTyped
  <2>6. endpoint_thread[c].last \in Nat /\ endpoint_thread[c].of \in Nat
        /\ endpoint_told[c].cursor \in Nat
    BY DEF EndpointSound, EndpointTyped
  <2>7. Paged'
    BY <2>1, <2>2, <2>3, <2>6 DEF EndpointSound, Paged
  <2>8. Endpoint!LocksComeBack'
    BY <2>2, <2>4 DEF EndpointSound, EndpointTyped, Endpoint!LocksComeBack
  <2>9. Told'
    <3>1. endpoint_received[c] = 1..endpoint_told[c].cursor
      BY DEF EndpointSound, Told, Endpoint!FollowersMissNothing
    <3>2. /\ endpoint_told[c].cursor <= endpoint_thread[c].last
          /\ endpoint_thread[c].last <= endpoint_thread[c].of
          /\ ~endpoint_thread[c].more => endpoint_thread[c].of <= endpoint_thread[c].last
      BY DEF EndpointSound, Paged
    <3>3. endpoint_received[c] \cup {e \in Endpoint!Page(c) : e <= endpoint_thread[c].of}
            = 1..endpoint_thread[c].last
      BY <2>6, <3>1, <3>2 DEF Endpoint!Page
    <3>4. /\ endpoint_received' \in [Clients -> SUBSET Nat]
          /\ endpoint_received'[c] = 1..endpoint_thread[c].last
          /\ \A d \in Clients \ {c} : endpoint_received'[d] = endpoint_received[d]
      BY <2>1, <2>6, <3>3 DEF EndpointSound, Told
    <3>5. QED
      BY <2>3, <3>2, <3>4 DEF EndpointSound, Told, Endpoint!FollowersMissNothing
  <2>10. QED
    BY <2>5, <2>7, <2>8, <2>9 DEF EndpointSound
<1>8. QED
  BY <1>1, <1>2, <1>3, <1>4, <1>5, <1>6, <1>7 DEF Endpoint!Serve

LEMMA EndpointNext ==
    ASSUME EndpointSound, Endpoint!Next
    PROVE  EndpointSound'
<1> USE DEF Endpoint!locks, Endpoint!peers
<1>1. ASSUME Endpoint!RecordElsewhere
      PROVE  EndpointSound'
  <2>1. /\ endpoint_stored' = endpoint_stored + 1 /\ endpoint_stored < MaxStored
        /\ UNCHANGED <<endpoint_thread, endpoint_opened, endpoint_spent, endpoint_engine,
                       endpoint_store, endpoint_received, endpoint_told, endpoint_deaf>>
    BY <1>1 DEF Endpoint!RecordElsewhere
  <2>2. endpoint_stored \in Nat /\ \A c \in Clients : endpoint_thread[c].of \in Nat
    BY DEF EndpointSound, EndpointTyped
  <2>3. EndpointTyped' /\ Paged'
    BY <2>1, <2>2, WorkspacesAssumption
    DEF EndpointSound, EndpointTyped, Paged, Endpoint!EndpointAssumption
  <2>4. Told' /\ Endpoint!LocksComeBack'
    BY <2>1 DEF EndpointSound, Told, Endpoint!FollowersMissNothing, Endpoint!LocksComeBack
  <2>5. QED
    BY <2>3, <2>4 DEF EndpointSound
<1>2. ASSUME NEW c \in Clients, Endpoint!StopReading(c)
      PROVE  EndpointSound'
  <2>1. /\ endpoint_deaf' = endpoint_deaf \cup {c}
        /\ UNCHANGED <<endpoint_thread, endpoint_opened, endpoint_spent, endpoint_engine,
                       endpoint_store, endpoint_stored, endpoint_received, endpoint_told>>
    BY <1>2 DEF Endpoint!StopReading
  <2>2. EndpointTyped' /\ Paged'
    BY <2>1 DEF EndpointSound, EndpointTyped, Paged
  <2>3. Told' /\ Endpoint!LocksComeBack'
    BY <2>1 DEF EndpointSound, Told, Endpoint!FollowersMissNothing, Endpoint!LocksComeBack
  <2>4. QED
    BY <2>2, <2>3 DEF EndpointSound
<1>3. ASSUME NEW c \in Clients, Endpoint!Ask(c)
      PROVE  EndpointSound'
  <2>1. PICK at \in Ats : /\ Endpoint!Goes(c, at) /\ endpoint_thread[c].at = "read"
                          /\ UNCHANGED <<endpoint_opened, endpoint_spent, endpoint_engine,
                                         endpoint_store, endpoint_stored, endpoint_received,
                                         endpoint_told, endpoint_deaf>>
    BY <1>3 DEF Endpoint!Ask, Endpoint!PresentToken, Endpoint!Reject, Endpoint!Subscribe,
                Endpoint!CallRun, Ats
  <2>2. QED
    BY <2>1, HeldAt, ThreadGoes
<1>4. ASSUME NEW c \in Clients, Endpoint!Disconnect(c)
      PROVE  EndpointSound'
  <2>1. "closed" \in Ats
    BY DEF Ats
  <2>2. /\ endpoint_engine' \in {endpoint_engine, "none"} /\ endpoint_engine' # c
        /\ endpoint_store' \in {endpoint_store, "none"} /\ endpoint_store' # c
    BY <1>4, HeldAt DEF Endpoint!Disconnect, Endpoint!Unlock
  <2>3. QED
    BY <1>4, <2>1, <2>2, HeldAt, ThreadGoes DEF Endpoint!Disconnect
<1>5. QED
  BY <1>1, <1>2, <1>3, <1>4, ServeKeeps DEF Endpoint!Next

LEMMA EndpointStep == EndpointSound /\ [Next]_vars => EndpointSound'
<1> SUFFICES ASSUME EndpointSound, [Next]_vars
             PROVE  EndpointSound'
  OBVIOUS
<1>1. CASE Endpoint!Next
  BY <1>1, EndpointNext
<1>2. CASE UNCHANGED endpoint
  BY <1>2
  DEF endpoint, EndpointSound, EndpointTyped, Paged, Told, Endpoint!FollowersMissNothing,
      Endpoint!LocksComeBack
<1>3. QED
  BY <1>1, <1>2 DEF Next, Unless, vars, endpoint

LEMMA EndpointAlways ==
    Spec => [](Endpoint!TypeOK /\ Endpoint!FollowersMissNothing /\ Endpoint!LocksComeBack)
<1>1. EndpointSound => Endpoint!TypeOK
  <2> SUFFICES ASSUME EndpointSound
               PROVE  Endpoint!TypeOK
    OBVIOUS
  <2>1. ASSUME NEW c \in Clients
        PROVE  /\ endpoint_thread[c].at \in Ats
               /\ endpoint_thread[c].last \in 0..MaxStored
               /\ endpoint_thread[c].of \in 0..MaxStored
               /\ endpoint_told[c].cursor \in 0..MaxStored
               /\ endpoint_received[c] \subseteq 1..MaxStored
    <3>1. /\ endpoint_told[c].cursor \in Nat /\ endpoint_thread[c].last \in Nat
          /\ endpoint_thread[c].of \in Nat /\ endpoint_stored \in 0..MaxStored
          /\ endpoint_thread[c].at \in Ats
      BY DEF EndpointSound, EndpointTyped
    <3>2. /\ endpoint_told[c].cursor <= endpoint_thread[c].last
          /\ endpoint_thread[c].last <= endpoint_thread[c].of
          /\ endpoint_thread[c].of <= endpoint_stored
      BY DEF EndpointSound, Paged
    <3>3. endpoint_received[c] = 1..endpoint_told[c].cursor
      BY DEF EndpointSound, Told, Endpoint!FollowersMissNothing
    <3>4. MaxStored \in Nat
      BY WorkspacesAssumption DEF Endpoint!EndpointAssumption
    <3>5. QED
      BY <3>1, <3>2, <3>3, <3>4
  <2>2. QED
    BY <2>1 DEF EndpointSound, EndpointTyped, Endpoint!TypeOK, Ats
<1>2. EndpointSound => Endpoint!FollowersMissNothing /\ Endpoint!LocksComeBack
  BY DEF EndpointSound, Told
<1>3. QED
  BY <1>1, <1>2, EndpointInit, EndpointStep, PTL DEF Spec

-----------------------------------------------------------------------------

\* The fields and bounds of every machine of the service.
THEOREM WorkspacesTyped == Spec => []TypeOK
<1>1. Spec => [](/\ Changes!TypeOK /\ Worktrees!TypeOK /\ Worktrees!ChildTypeOK
                 /\ Worktrees!IntegrationTypeOK /\ Capsules!TypeOK /\ Store!ArtifactsTypeOK
                 /\ Endpoint!BindTypeOK /\ Endpoint!TypeOK /\ Store!TypeOK)
  BY ChangesAlways, TreesAlways, ChildrenAlways, IntegrationAlways, CapsulesAlways,
     ArtifactsAlways, BindingAlways, EndpointAlways, RecoveryAlways, PTL
<1>2. QED
  BY <1>1, PTL DEF TypeOK

\* change_set, commit_change_set and rollback, with edits, deaths and calls in
\* any order: the lists add up, a commit was disclosed, a rollback proves.
THEOREM ChangesToldAlways == Spec => []ChangesAreTold
BY ChangesAlways, PTL

\* create_worktree, quarantine_worktree, delegate_task, integrate and continue_from: the
\* log tells of every worktree, no delegation widens what it was given, an
\* integration loses nothing untold, and a continuation is of what was
\* captured.
THEOREM AgentsHeldAlways == Spec => []AgentsAreHeld
<1>1. Spec => [](/\ Worktrees!WorktreesAreTold /\ Worktrees!ChildrenNarrow
                 /\ Worktrees!NothingLostInReview /\ Capsules!ContinuedAsCaptured)
  BY TreesAlways, ChildrenAlways, IntegrationAlways, CapsulesAlways, PTL
<1>2. QED
  BY <1>1, PTL DEF AgentsAreHeld

\* commit_artifact, recover, bind_hardened and handle_connection, over races and deaths:
\* what is recorded can be read, the runs table is a replay, one core serves,
\* the mutexes come back and a follower misses nothing.
THEOREM StoreKeepsAlways == Spec => []StoreKeeps
<1>1. Spec => [](/\ Store!RecordedIsReadable /\ Store!RecoveryIsFaithful
                 /\ Endpoint!OneCoreServes /\ Endpoint!LocksComeBack
                 /\ Endpoint!FollowersMissNothing)
  BY ArtifactsAlways, RecoveryAlways, BindingAlways, EndpointAlways, PTL
<1>2. QED
  BY <1>1, PTL DEF StoreKeeps
=============================================================================
