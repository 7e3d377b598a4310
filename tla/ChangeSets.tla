----------------------------- MODULE ChangeSets -----------------------------
(***************************************************************************)
(* ChangeSetEngine (crates/saber-core/src/change_set.rs): the baseline of  *)
(* a run's worktree is copied file by file, reviewed against, restored     *)
(* file by file and proven by a second walk, and committed with git after  *)
(* a disclosure.  The engine makes one call at a time; the worktree is     *)
(* also a user's, who edits between any two steps, and the engine may be   *)
(* killed between them.  A walk of the tree is one step.                   *)
(***************************************************************************)
EXTENDS Naturals, FiniteSets

CONSTANTS
    Paths,
    Contents,
    Skipped,        \* paths under .saber-snapshots or node_modules
    Ignored,        \* paths the .gitignore of the worktree names
    InitialTrees,
    MaxEdits,       \* bound: edits by the user
    MaxCalls        \* bound: calls of the engine

Absent == "absent"
Trees == [Paths -> Contents \cup {Absent}]

ChangeSetAssumption ==
    /\ Absent \notin Contents /\ InitialTrees \subseteq Trees
    /\ Skipped \subseteq Paths /\ Ignored \subseteq Paths
    /\ MaxEdits \in Nat /\ MaxCalls \in Nat

Present(t) == {p \in Paths : t[p] # Absent}
NoTree == [p \in Paths |-> Absent]

\* A walk lists every file, tracked or not, but those of IGNORED_PATHS.
Inventory(t) == [p \in Paths |-> IF p \in Skipped THEN Absent ELSE t[p]]

\* External: git knows nothing of IGNORED_PATHS; it leaves out what .gitignore
\* names, unless that is tracked already.
AddAll(index, t) ==
    [p \in Paths |-> IF p \in Ignored /\ index[p] = Absent THEN Absent ELSE t[p]]

Idle == [step |-> "idle", todo |-> {}, seen |-> NoTree]
Steps == {"idle", "snapshot", "restore", "remove", "add", "commit", "record"}

VARIABLES
    tree,           \* the worktree now
    copies,         \* the snapshot directory of the run
    manifest,       \* run.baseline_snapshot: {} or {the tree it lists}
    touched,        \* paths an approval card of the run names
    staged, head,   \* what git has staged, and at HEAD
    disclosed,      \* the last changeset.commit_disclosed event: {} or {a tree}
    call,           \* the call in progress
    answer,         \* what the last call, if it was this one, came to: {} or one
                    \* of a change set, prepared or applied, a rollback, a commit
    calls, edits,
    raced           \* "snapshot", "call": the user edited in it (history)

vars == <<tree, copies, manifest, touched, staged, head, disclosed, call, answer, calls, edits,
          raced>>

repository == <<staged, head>>
baseline == <<copies, manifest, touched>>

Init ==
    /\ tree \in InitialTrees
    /\ copies = NoTree /\ manifest = {} /\ touched = {}
    /\ \E tracked \in SUBSET Ignored :
        head = [p \in Paths |-> IF p \in Ignored \ tracked THEN Absent ELSE tree[p]]
    /\ staged = head
    /\ disclosed = {} /\ call = Idle /\ answer = {}
    /\ calls = 0 /\ edits = 0 /\ raced = {}

\* External: the user writes or removes a file.
Edit(p, content) ==
    /\ edits < MaxEdits /\ content # tree[p]
    /\ edits' = edits + 1
    /\ tree' = [tree EXCEPT ![p] = content]
    /\ raced' = CASE call.step = "idle" -> raced
                  [] call.step = "snapshot" -> raced \cup {"snapshot"}
                  [] OTHER -> raced \cup {"call"}
    /\ UNCHANGED <<baseline, repository, disclosed, call, answer, calls>>

\* External: a card of the run names the path (run_touched).
TouchPath(p) ==
    /\ call = Idle /\ p \notin touched
    /\ touched' = touched \cup {p}
    /\ UNCHANGED <<tree, copies, manifest, repository, disclosed, call, answer, calls, edits, raced>>

Begin(step, todo, seen) ==
    /\ call = Idle /\ calls < MaxCalls
    /\ calls' = calls + 1
    /\ call' = [step |-> step, todo |-> todo, seen |-> seen]
    /\ answer' = {}

Goto(step, todo) == call' = [call EXCEPT !.step = step, !.todo = todo]

\* A kill, or an error between two steps: what was done stays done.
Die ==
    /\ call # Idle
    /\ call' = Idle
    /\ UNCHANGED <<tree, baseline, repository, disclosed, answer, calls, edits, raced>>

-----------------------------------------------------------------------------
(* snapshot_baseline: the inventory, then a copy of each file it lists.    *)

Snapshot ==
    /\ manifest = {}
    /\ Begin("snapshot", Present(Inventory(tree)), Inventory(tree))
    /\ raced' = raced \ {"snapshot"}
    /\ UNCHANGED <<tree, baseline, repository, disclosed, edits>>

\* A file that is gone is an error (Die).
CopyFile(p) ==
    /\ call.step = "snapshot" /\ p \in call.todo /\ tree[p] # Absent
    /\ copies' = [copies EXCEPT ![p] = tree[p]]
    /\ Goto("snapshot", call.todo \ {p})
    /\ UNCHANGED <<tree, manifest, touched, repository, disclosed, answer, calls, edits, raced>>

RecordBaseline ==
    /\ call.step = "snapshot" /\ call.todo = {}
    /\ manifest' = {call.seen}
    /\ call' = Idle
    /\ UNCHANGED <<tree, copies, touched, repository, disclosed, answer, calls, edits, raced>>

-----------------------------------------------------------------------------
(* prepare.                                                                *)

Added(base, now) == Present(now) \ Present(base)
Deleted(base, now) == Present(base) \ Present(now)
Modified(base, now) == {p \in Present(base) \cap Present(now) : base[p] # now[p]}

\* Mutant: a file that is gone is not in the change set.
ChangesPresent(base, now) == Added(base, now) \cup Modified(base, now)

Changes(base, now) == Added(base, now) \cup Modified(base, now) \cup Deleted(base, now)

ChangeSet(base, now) ==
    [of |-> "changes", base |-> base, tree |-> now,
     files |-> [p \in Changes(base, now) |-> now[p]],
     external |-> Modified(base, now) \ touched]

Prepare ==
    /\ call = Idle /\ calls < MaxCalls
    /\ calls' = calls + 1
    /\ \E base \in manifest : answer' = {ChangeSet(base, Inventory(tree))}
    /\ UNCHANGED <<tree, baseline, repository, disclosed, call, edits, raced>>

\* apply: of the tree a prepared change set names, if it is the tree there is.
Apply ==
    /\ call = Idle /\ calls < MaxCalls
    /\ calls' = calls + 1
    /\ \E c \in answer :
        /\ c.of = "changes" /\ c.tree = Inventory(tree)
        /\ answer' = {[c EXCEPT !.of = "applied"]}
    /\ UNCHANGED <<tree, baseline, repository, disclosed, call, edits, raced>>

-----------------------------------------------------------------------------
(* rollback: restore what is listed, remove what is not, prove.            *)

Rollback ==
    /\ \E base \in manifest : Begin("restore", Present(base), base)
    /\ raced' = raced \ {"call"}
    /\ UNCHANGED <<tree, baseline, repository, disclosed, edits>>

RestoreFile(p) ==
    /\ call.step = "restore" /\ p \in call.todo
    /\ tree' = [tree EXCEPT ![p] = copies[p]]
    /\ Goto("restore", call.todo \ {p})
    /\ UNCHANGED <<baseline, repository, disclosed, answer, calls, edits, raced>>

ListExtras ==
    /\ call.step = "restore" /\ call.todo = {}
    /\ Goto("remove", Present(Inventory(tree)) \ Present(call.seen))
    /\ UNCHANGED <<tree, baseline, repository, disclosed, answer, calls, edits, raced>>

\* A file that is gone already is an error (Die).
RemoveExtra(p) ==
    /\ call.step = "remove" /\ p \in call.todo /\ tree[p] # Absent
    /\ tree' = [tree EXCEPT ![p] = Absent]
    /\ Goto("remove", call.todo \ {p})
    /\ UNCHANGED <<baseline, repository, disclosed, answer, calls, edits, raced>>

RollbackAnswer(restored) ==
    [of |-> "rollback", restored |-> restored, found |-> Inventory(tree), base |-> call.seen,
     raced |-> raced # {}]

\* Mutant: what the baseline does not list is not compared.
ProveListed ==
    /\ call.step = "remove" /\ call.todo = {}
    /\ answer' = {RollbackAnswer(\A p \in Present(call.seen) : tree[p] = call.seen[p])}
    /\ call' = Idle
    /\ UNCHANGED <<tree, baseline, repository, disclosed, calls, edits, raced>>

\* The proof is recorded whether it holds or not; the answer says which.
Prove ==
    /\ call.step = "remove" /\ call.todo = {}
    /\ answer' = {RollbackAnswer(Inventory(tree) = call.seen)}
    /\ call' = Idle
    /\ UNCHANGED <<tree, baseline, repository, disclosed, calls, edits, raced>>

-----------------------------------------------------------------------------
(* commit: disclose, git add -A, git commit, record.                       *)

\* Mutant: the disclosure comes with the record.
DiscloseLater ==
    /\ Begin("add", {}, Inventory(tree))
    /\ raced' = raced \ {"call"}
    /\ UNCHANGED <<tree, baseline, repository, disclosed, edits>>

Disclose ==
    /\ Begin("add", {}, Inventory(tree))
    /\ disclosed' = {Inventory(tree)}
    /\ raced' = raced \ {"call"}
    /\ UNCHANGED <<tree, baseline, repository, edits>>

\* git add -A stages the tree as git sees it, not the inventory.
GitAdd ==
    /\ call.step = "add"
    /\ staged' = AddAll(staged, tree)
    /\ Goto("commit", {})
    /\ UNCHANGED <<tree, baseline, disclosed, head, answer, calls, edits, raced>>

\* Nothing to commit is an error (Die).
GitCommit ==
    /\ call.step = "commit" /\ staged # head
    /\ head' = staged
    /\ answer' = {[of |-> "commit", said |-> call.seen, raced |-> "call" \in raced]}
    /\ Goto("record", {})
    /\ UNCHANGED <<tree, baseline, disclosed, staged, calls, edits, raced>>

RecordCommit ==
    /\ call.step = "record"
    /\ call' = Idle
    /\ UNCHANGED <<tree, baseline, repository, disclosed, answer, calls, edits, raced>>

Next ==
    \/ \E p \in Paths :
        \/ \E content \in Contents \cup {Absent} : Edit(p, content)
        \/ TouchPath(p) \/ CopyFile(p) \/ RestoreFile(p) \/ RemoveExtra(p)
    \/ Die \/ Snapshot \/ RecordBaseline \/ Prepare \/ Apply
    \/ Rollback \/ ListExtras \/ Prove
    \/ Disclose \/ GitAdd \/ GitCommit \/ RecordCommit

Spec == Init /\ [][Next]_vars

-----------------------------------------------------------------------------

Answers(kind) == {a \in answer : a.of = kind}

TypeOK ==
    /\ {tree, copies, staged, head} \subseteq Trees
    /\ manifest \subseteq Trees /\ disclosed \subseteq Trees
    /\ Cardinality(manifest) <= 1 /\ Cardinality(answer) <= 1
    /\ touched \subseteq Paths
    /\ call \in [step : Steps, todo : SUBSET Paths, seen : Trees]
    /\ calls \in 0..MaxCalls /\ edits \in 0..MaxEdits
    /\ raced \subseteq {"snapshot", "call"}

\* snapshot_baseline and rollback: "restores the baseline content and PROVES it
\* by hash": a proof that says restored is of an inventory that is the baseline,
\* and a rollback can only fail it when the user edited during the snapshot or
\* during that rollback: a kill of an earlier call, wherever, does not matter.
\* What the inventory skips is neither proven nor restored.
RollbackProves ==
    \A r \in Answers("rollback") :
        /\ r.restored => r.found = r.base
        /\ r.found = r.base \/ r.raced

\* commit: what the repository gets was disclosed before and is as disclosed,
\* unless the user edits in between, of every path both the inventory and git
\* look at.  An ignored file may be disclosed and not committed; a file that the
\* inventory skips is committed and was not disclosed.
CommitsAreDisclosed ==
    \A c \in Answers("commit") :
        /\ c.said \in disclosed
        /\ \A p \in Paths \ Skipped :
            \/ head[p] = c.said[p] \/ c.raced
            \/ p \in Ignored /\ head[p] = Absent

\* "real git commit in the worktree, after the message and authorship disclosure
\* are durably recorded" (change_set.rs), with the digest of the tree: not so of
\* node_modules that no .gitignore names, nor of a file that one does.
DisclosedIsCommitted ==
    \A c \in Answers("commit") : head = c.said \/ c.raced

\* prepare, apply: a change set adds up: the baseline with its files replaced is the
\* tree it names, and only a path that changed is in it; an edit of a file the
\* run was never allowed to touch is told.
ChangeSetAddsUp ==
    \A c \in Answers("changes") \cup Answers("applied") :
        /\ c.tree = [p \in Paths |-> IF p \in DOMAIN c.files THEN c.files[p] ELSE c.base[p]]
        /\ \A p \in DOMAIN c.files : c.base[p] # c.tree[p]
        /\ \A p \in c.external : {c.base[p], c.tree[p]} \subseteq Contents
=============================================================================
