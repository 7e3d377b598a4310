----------------------------- MODULE Resumption -----------------------------
(***************************************************************************)
(* Resumption capsules (crates/resumption): a capsule is made of facts and *)
(* of the workspace as it is, verified against the workspace as it is      *)
(* then, and continued from with the report of that verification.  The     *)
(* workspace is others' to change in between.  Digests are symbolic: they  *)
(* are equal when what they digest is.                                     *)
(***************************************************************************)
EXTENDS Naturals, FiniteSets

CONSTANTS
    Paths,
    Contents,
    Lineages,       \* what a capsule carries: lineage and decisions
    Referenced,     \* the paths of the artifacts facts refer to
    MaxCapsules     \* bound: the capsules made

ResumptionAssumption == Referenced \subseteq Paths /\ MaxCapsules \in Nat

Absent == "absent"
FileStates == Contents \cup {Absent}

\* The inventory names what is there; its fingerprint is of all of it.
Fingerprint(files) == {<<p, files[p]>> : p \in {q \in Paths : files[q] # Absent}}

VARIABLES
    files,          \* Paths -> its content now
    capsules,       \* capsules made: [lineage, artifacts, fingerprint]; its
                    \* identifier is a digest of all of it
    report,         \* the last verification: [capsule, state, seen]; seen is the
                    \* workspace it saw (history)
    continued       \* the last continuation: [capsule, report, files] (history)

vars == <<files, capsules, report, continued>>

CapsuleOf(lineage, present) ==
    [lineage |-> lineage, artifacts |-> [p \in Referenced |-> present[p]],
     fingerprint |-> Fingerprint(present)]

Init ==
    /\ files \in [Paths -> FileStates]
    /\ capsules = {} /\ report = {} /\ continued = {}

\* External: the workspace changes.
Edit(p, content) ==
    /\ files' = [files EXCEPT ![p] = content]
    /\ UNCHANGED <<capsules, report, continued>>

\* capsule_from_facts: of artifacts that are there.
Capture(lineage) ==
    /\ Cardinality(capsules) < MaxCapsules
    /\ \A p \in Referenced : files[p] # Absent
    /\ capsules' = capsules \cup {CapsuleOf(lineage, files)}
    /\ UNCHANGED <<files, report, continued>>

Missing(capsule) == {p \in DOMAIN capsule.artifacts : files[p] = Absent}
Mutated(capsule) ==
    {p \in DOMAIN capsule.artifacts : files[p] # capsule.artifacts[p]} \ Missing(capsule)

\* Mutant: what no artifact refers to may change.
ReadyByArtifacts(capsule) == Missing(capsule) = {} /\ Mutated(capsule) = {}

Ready(capsule) ==
    /\ Missing(capsule) = {} /\ Mutated(capsule) = {}
    /\ Fingerprint(files) = capsule.fingerprint

\* verify_capsule, in the scope of the capsule.
VerifyCapsule(capsule) ==
    /\ report' = {[capsule |-> capsule, seen |-> files,
                   state |-> IF Ready(capsule) THEN "Ready" ELSE "NeedsReconcile"]}
    /\ UNCHANGED <<files, capsules, continued>>

\* continue_from: with a report of that capsule, however old.
Continue(capsule) ==
    /\ \E r \in report :
        /\ r.state = "Ready" /\ r.capsule = capsule
        /\ continued' = {[capsule |-> capsule, report |-> r, files |-> files]}
    /\ UNCHANGED <<files, capsules, report>>

Next ==
    \/ \E p \in Paths, content \in FileStates : Edit(p, content)
    \/ \E lineage \in Lineages : Capture(lineage)
    \/ \E capsule \in capsules : VerifyCapsule(capsule) \/ Continue(capsule)

Spec == Init /\ [][Next]_vars

-----------------------------------------------------------------------------

TypeOK ==
    /\ files \in [Paths -> FileStates]
    /\ \A c \in capsules : c.lineage \in Lineages /\ DOMAIN c.artifacts = Referenced
    /\ \A r \in report : r.capsule \in capsules /\ r.state \in {"Ready", "NeedsReconcile"}

\* verify_capsule and continue_from: a continuation is of a capsule that was
\* made, with a report that saw the very workspace it was made of; a report
\* of drift is of a workspace that differs.
ContinuedAsCaptured ==
    /\ \A c \in continued :
        /\ c.report.capsule = c.capsule /\ c.capsule \in capsules
        /\ c.capsule = CapsuleOf(c.capsule.lineage, c.report.seen)
    /\ \A r \in report :
        r.state = "Ready" <=> r.capsule = CapsuleOf(r.capsule.lineage, r.seen)

\* "Drift yields NeedsReconcile with evidence: never a silent continue"
\* (verify.rs): the workspace continued in is the one that was captured.
NeverSilent == \A c \in continued : c.capsule = CapsuleOf(c.capsule.lineage, c.files)
=============================================================================
