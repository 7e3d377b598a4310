---------------------------- MODULE MCWorkspaces ----------------------------
(***************************************************************************)
(* Three paths of two contents, one of a package and one that git ignores, *)
(* a third that is not there at first, edited by the user in between; two  *)
(* worktrees asked for twice, two or three to integrate, with a file that  *)
(* is passed over and one of a package; two runs, the name of one of them  *)
(* within the other's; two capsules of two files; four artifacts of two    *)
(* contents, one content under two labels; two cores; two connections and  *)
(* up to three events in pages of two; two recoveries of a log.            *)
(***************************************************************************)
EXTENDS Workspaces

MCTrees == {[p \in TreePaths |-> IF p = "a" THEN "absent" ELSE "x"]}

\* Every worktree has the package.
MCSourceTrees == {t \in [Files -> FileContents \cup {"absent"}] : t["package"] = "x"}

MCWithin == {<<"r1", "r10">>}

MCBudgets == {1, 3}

LOCAL Commit(artifact, content, label) ==
    [artifact |-> artifact, content |-> content, label |-> label]
MCCommits ==
    {Commit("a1", "x", "t"), Commit("a2", "x", "t"), Commit("a3", "x", "u"), Commit("a1", "y", "t")}
=============================================================================
