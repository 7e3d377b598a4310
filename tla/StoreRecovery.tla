--------------------------- MODULE StoreRecovery ---------------------------
(***************************************************************************)
(* What the fact store (crates/event-store) keeps apart from its log of    *)
(* events, and how the two are kept the same.                              *)
(*                                                                         *)
(* recover, beside connections that commit: the log of run events and its  *)
(* projection, the runs table.  A commit is one transaction.  recover      *)
(* reads the log, then the table, and where they differ reads the log      *)
(* again and replaces the table in a transaction of its own; then it       *)
(* compares once more.                                                     *)
(***************************************************************************)
EXTENDS Naturals, Sequences

CONSTANTS
    Runs,
    Recoverers,     \* connections that recover
    MaxEvents,      \* bound: the log
    MaxDrifts       \* bound: rows changed outside the store

RecoveryAssumption == MaxEvents \in Nat /\ MaxDrifts \in Nat

States == {"queued", "running", "blocked", "succeeded"}

\* valid_transition, of the states a run goes through here; a run begins queued.
Follows(from, to) ==
    <<from, to>> \in {<<"none", "queued">>, <<"queued", "running">>, <<"running", "blocked">>,
                      <<"blocked", "running">>, <<"running", "succeeded">>}

NoRow == [state |-> "none", at |-> 0]

VARIABLES
    log,            \* [run, from, to]
    rows,           \* Runs -> [state, at]: the projection
    recovery,       \* Recoverers -> [step, seen]: how much of the log it read
    reports,        \* Recoverers -> what the last recover said
    drifts,         \* rows changed outside the store so far
    drifted,        \* runs whose row was, since it was replaced (history)
    blamed          \* runs whose row was, or was set back by a recovery (history)

vars == <<log, rows, recovery, reports, drifts, drifted, blamed>>

Idle == [step |-> "idle", seen |-> 0]

Init ==
    /\ log = <<>> /\ rows = [r \in Runs |-> NoRow]
    /\ recovery = [p \in Recoverers |-> Idle]
    /\ reports = [p \in Recoverers |-> "none"]
    /\ drifts = 0 /\ drifted = {} /\ blamed = {}

\* replayed_runs, of the first n events.
EventsOf(r, n) == {i \in 1..n : log[i].run = r}

ReplayedRow(r, n) ==
    IF EventsOf(r, n) = {} THEN NoRow
    ELSE LET last == CHOOSE i \in EventsOf(r, n) : \A j \in EventsOf(r, n) : j <= i
         IN  [state |-> log[last].to, at |-> last]

Replayed(n) == [r \in Runs |-> ReplayedRow(r, n)]

\* An event that does not follow from those before it refuses the replay.
SoundFor(r, n) ==
    \A i \in EventsOf(r, n) :
        /\ log[i].from = ReplayedRow(r, i - 1).state
        /\ Follows(log[i].from, log[i].to)

Sound(n) == \A r \in Runs : SoundFor(r, n)

\* create_run and transition_run: on the row; a run is created once.
Commit(r, to) ==
    /\ Len(log) < MaxEvents
    /\ Follows(rows[r].state, to)
    /\ rows[r] = NoRow => EventsOf(r, Len(log)) = {}
    /\ log' = Append(log, [run |-> r, from |-> rows[r].state, to |-> to])
    /\ rows' = [rows EXCEPT ![r] = [state |-> to, at |-> Len(log) + 1]]
    /\ UNCHANGED <<recovery, reports, drifts, drifted, blamed>>

\* What the repair is for: a row that is not what the log says.
Drift(r, state) ==
    /\ drifts < MaxDrifts /\ rows[r] # NoRow
    /\ drifts' = drifts + 1
    /\ rows' = [rows EXCEPT ![r].state = state]
    /\ drifted' = drifted \cup {r} /\ blamed' = blamed \cup {r}
    /\ UNCHANGED <<log, recovery, reports>>

-----------------------------------------------------------------------------

Goto(p, step, seen) == recovery' = [recovery EXCEPT ![p] = [step |-> step, seen |-> seen]]

Report(p, said) ==
    /\ recovery' = [recovery EXCEPT ![p] = Idle]
    /\ reports' = [reports EXCEPT ![p] = said]

\* verify_run_projection: the log.  What cannot be replayed is a mismatch too.
ReadLog(p) ==
    /\ recovery[p].step = "idle"
    /\ Goto(p, IF Sound(Len(log)) THEN "compare" ELSE "rebuild", Len(log))
    /\ UNCHANGED <<log, rows, reports, drifts, drifted, blamed>>

\* verify_run_projection: the table.
Compare(p) ==
    /\ recovery[p].step = "compare"
    /\ IF rows = Replayed(recovery[p].seen) THEN Report(p, "sound")
       ELSE Goto(p, "rebuild", 0) /\ UNCHANGED reports
    /\ UNCHANGED <<log, rows, drifts, drifted, blamed>>

\* rebuild_run_projection, before its transaction.
Rebuild(p) ==
    /\ recovery[p].step = "rebuild"
    /\ IF Sound(Len(log)) THEN Goto(p, "replace", Len(log)) /\ UNCHANGED reports
       ELSE Report(p, "ProjectionMismatch")
    /\ UNCHANGED <<log, rows, drifts, drifted, blamed>>

\* Its transaction, on what was read before it.
SetBack(p) == {r \in Runs : ReplayedRow(r, recovery[p].seen) # ReplayedRow(r, Len(log))}

Rebuilt(p) ==
    /\ Goto(p, "recheck", 0)
    /\ drifted' = {} /\ blamed' = blamed \cup SetBack(p)
    /\ UNCHANGED <<log, reports, drifts>>

\* Mutant: rows that are there are left.
ReplaceMissing(p) ==
    /\ recovery[p].step = "replace"
    /\ rows' = [r \in Runs |->
                    IF rows[r] # NoRow THEN rows[r] ELSE ReplayedRow(r, recovery[p].seen)]
    /\ Rebuilt(p)

Replace(p) ==
    /\ recovery[p].step = "replace"
    /\ rows' = Replayed(recovery[p].seen)
    /\ Rebuilt(p)

\* recover: verify_run_projection again.
Recheck(p) ==
    /\ recovery[p].step = "recheck"
    /\ IF Sound(Len(log)) THEN Goto(p, "recompare", Len(log)) /\ UNCHANGED reports
       ELSE Report(p, "ProjectionMismatch")
    /\ UNCHANGED <<log, rows, drifts, drifted, blamed>>

Recompare(p) ==
    /\ recovery[p].step = "recompare"
    /\ Report(p, IF rows = Replayed(recovery[p].seen) THEN "repaired" ELSE "ProjectionMismatch")
    /\ UNCHANGED <<log, rows, drifts, drifted, blamed>>

Die(p) ==
    /\ recovery[p] # Idle
    /\ recovery' = [recovery EXCEPT ![p] = Idle]
    /\ UNCHANGED <<log, rows, reports, drifts, drifted, blamed>>

Next ==
    \/ \E r \in Runs, s \in States : Commit(r, s) \/ Drift(r, s)
    \/ \E p \in Recoverers :
        \/ ReadLog(p) \/ Compare(p) \/ Rebuild(p) \/ Replace(p) \/ Recheck(p) \/ Recompare(p)
        \/ Die(p)

Spec == Init /\ [][Next]_vars

-----------------------------------------------------------------------------

TypeOK ==
    /\ log \in Seq([run : Runs, from : States \cup {"none"}, to : States])
    /\ \A r \in Runs : rows[r].state \in States \cup {"none"} /\ rows[r].at \in 0..MaxEvents
    /\ \A p \in Recoverers :
        /\ recovery[p].step \in
            {"idle", "compare", "rebuild", "replace", "recheck", "recompare"}
        /\ reports[p] \in {"none", "sound", "repaired", "ProjectionMismatch"}
    /\ drifted \subseteq blamed /\ blamed \subseteq Runs

\* create_run, transition_run and recover, whatever their order and wherever a
\* recovery dies: the row of a run is its replay and its events can be
\* replayed, unless the row was changed outside the store or a recovery set it
\* back; and even then a row a recovery left is what the log said once.
RecoveryIsFaithful ==
    /\ \A r \in Runs \ blamed :
        rows[r] = ReplayedRow(r, Len(log)) /\ SoundFor(r, Len(log))
    /\ \A r \in Runs \ drifted : \E n \in 0..Len(log) : rows[r] = ReplayedRow(r, n)

\* "Rebuild the Run projection transactionally from the append-only event log"
\* (lib.rs): no commit is taken back from the table.
CommitsStand == [][\A r \in Runs : rows[r].at <= rows'[r].at]_vars

-----------------------------------------------------------------------------
(***************************************************************************)
(* Artifacts: a content is encrypted into a file named by its digest,      *)
(* published before the transaction that records the artifact.  A          *)
(* ciphertext is a box, new at each encryption, that opens under the label *)
(* (media type and classification) it was sealed with.  Writers are        *)
(* processes on one store.                                                 *)
(***************************************************************************)
CONSTANTS
    Writers,
    Commits,        \* [artifact, content, label]; its idempotency key goes with
                    \* the artifact
    MaxBoxes        \* bound: encryptions

ArtifactsAssumption == MaxBoxes \in Nat /\ \A c \in Commits : c.label # "none"

Committed == {c.content : c \in Commits}

\* A file, and a row of blobs: the box and its label.
Blobs == [box : 1..MaxBoxes, label : {c.label : c \in Commits}]

NoBlob == [box |-> 0, label |-> "none"]

VARIABLES
    files,          \* Committed -> what stands under its digest
    blobs,          \* Committed -> its row
    artifacts,      \* commits recorded
    writer,         \* Writers -> [step, commit, box]
    boxes,          \* encryptions so far
    lost            \* contents for which a writer found the file published
                    \* after it had encrypted its own (history)

artifactVars == <<files, blobs, artifacts, writer, boxes, lost>>

NotWriting == [step |-> "idle", commit |-> {}, box |-> 0]

ArtifactsInit ==
    /\ files = [c \in Committed |-> NoBlob] /\ blobs = [c \in Committed |-> NoBlob]
    /\ artifacts = {} /\ lost = {} /\ boxes = 0
    /\ writer = [w \in Writers |-> NotWriting]

At(step, commit, box) == [step |-> step, commit |-> {commit}, box |-> box]

\* The commit a writer is at.
Working(w, step, c) == writer[w].step = step /\ writer[w].commit = {c}

Move(w, next) == writer' = [writer EXCEPT ![w] = next]

\* write: the file is there; another label does not open it.
FindFile(w, c) ==
    /\ writer[w] = NotWriting /\ files[c.content] # NoBlob
    /\ Move(w, IF files[c.content].label = c.label
               THEN At("commit", c, files[c.content].box) ELSE NotWriting)
    /\ UNCHANGED <<files, blobs, artifacts, boxes, lost>>

\* write: it is not, and the content is encrypted under a new nonce.
Encrypt(w, c) ==
    /\ writer[w] = NotWriting /\ files[c.content] = NoBlob
    /\ boxes < MaxBoxes
    /\ boxes' = boxes + 1
    /\ Move(w, At("persist", c, boxes + 1))
    /\ UNCHANGED <<files, blobs, artifacts, lost>>

\* Mutant: the file published last stands.
PersistOver(w, c) ==
    /\ Working(w, "persist", c)
    /\ files' = [files EXCEPT ![c.content] = [box |-> writer[w].box, label |-> c.label]]
    /\ Move(w, At("commit", c, writer[w].box))
    /\ UNCHANGED <<blobs, artifacts, boxes, lost>>

\* persist_noclobber: the first file stands, and the writer that comes second
\* goes on with the digest of its own.
Persist(w, c) ==
    /\ Working(w, "persist", c)
    /\ \/ /\ files[c.content] = NoBlob
          /\ files' = [files EXCEPT ![c.content] = [box |-> writer[w].box, label |-> c.label]]
          /\ Move(w, At("commit", c, writer[w].box))
          /\ UNCHANGED lost
       \/ /\ files[c.content] # NoBlob
          /\ Move(w, IF files[c.content].label = c.label
                     THEN At("commit", c, writer[w].box) ELSE NotWriting)
          /\ lost' = lost \cup {c.content}
          /\ UNCHANGED files
    /\ UNCHANGED <<blobs, artifacts, boxes>>

\* insert_artifact_fact: a row of the content that says otherwise undoes the
\* transaction.
InsertArtifactFact(c, blob) ==
    IF blobs[c.content] \in {NoBlob, blob}
    THEN /\ blobs' = [blobs EXCEPT ![c.content] = blob]
         /\ artifacts' = artifacts \cup {c}
    ELSE UNCHANGED <<blobs, artifacts>>

\* commit_artifact: one transaction.  An artifact that is recorded is replayed
\* or in conflict.
CommitArtifact(w, c) ==
    /\ Working(w, "commit", c)
    /\ IF \E a \in artifacts : a.artifact = c.artifact
       THEN UNCHANGED <<blobs, artifacts>>
       ELSE InsertArtifactFact(c, [box |-> writer[w].box, label |-> c.label])
    /\ Move(w, NotWriting)
    /\ UNCHANGED <<files, boxes, lost>>

\* An I/O error, or the death of the process.
Stop(w) ==
    /\ writer[w] # NotWriting
    /\ Move(w, NotWriting)
    /\ UNCHANGED <<files, blobs, artifacts, boxes, lost>>

ArtifactsNext ==
    \E w \in Writers :
        \/ Stop(w)
        \/ \E c \in Commits :
            FindFile(w, c) \/ Encrypt(w, c) \/ Persist(w, c) \/ CommitArtifact(w, c)

ArtifactsSpec == ArtifactsInit /\ [][ArtifactsNext]_artifactVars

-----------------------------------------------------------------------------

ArtifactsTypeOK ==
    /\ files \in [Committed -> Blobs \cup {NoBlob}]
    /\ blobs \in [Committed -> Blobs \cup {NoBlob}]
    /\ artifacts \subseteq Commits /\ lost \subseteq Committed
    /\ boxes \in 0..MaxBoxes
    /\ \A w \in Writers : writer[w].step \in {"idle", "persist", "commit"}

\* read_artifact: the file has the digest of the row and opens under its label.
Readable(a) == files[a.content] # NoBlob /\ files[a.content] = blobs[a.content]

\* commit_artifact and write, over races, errors and deaths: a recorded
\* artifact has its file, under its own label, and can be read, unless two
\* writers encrypted its content at once.
RecordedIsReadable ==
    \A a \in artifacts :
        /\ files[a.content].label = a.label /\ blobs[a.content].label = a.label
        /\ Readable(a) \/ a.content \in lost

\* "A crash in that narrow window can leave only an unreachable encrypted
\* object, never a dangling SQL fact" (lib.rs, commit_artifact).
NeverDangling == \A a \in artifacts : Readable(a)
=============================================================================
