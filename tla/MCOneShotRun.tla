----------------------------- MODULE MCOneShotRun -----------------------------
(***************************************************************************)
(* Two processes on one store.  They ask the same, or differ in one thing: *)
(* the millisecond, the command, the task, the approval or the permission. *)
(***************************************************************************)
EXTENDS OneShotRun, TLC

CONSTANTS t1, t2, c1, c2

MCAsk ==
    [task |-> t1, cmd |-> c1, permitted |-> TRUE, approved |-> TRUE, now |-> 1]

MCOptions ==
    { MCAsk,
      [MCAsk EXCEPT !.now = 2],
      [MCAsk EXCEPT !.cmd = c2],
      [MCAsk EXCEPT !.task = t2],
      [MCAsk EXCEPT !.approved = FALSE],
      [MCAsk EXCEPT !.permitted = FALSE] }

\* Nothing depends on the order of facts of different processes, and what was
\* performed follows from who executed: states that differ in these are one.
MCView == <<Facts, at, opt, seq, realm, outcome, executed, report>>

MCSymmetry == Permutations(Procs) \cup Permutations(Outcomes)
=============================================================================
