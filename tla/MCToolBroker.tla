----------------------------- MODULE MCToolBroker -----------------------------
(***************************************************************************)
(* Two runs of five tools over one overlay with two files and the hook of  *)
(* a repository, under a policy that allows or denies, and one edit by     *)
(* somebody else or one death.                                             *)
(***************************************************************************)
EXTENDS ToolBroker, TLC

CONSTANTS d1, d2, p1, a, b, hook, x, y

Ask == [digest |-> d1, plan |-> p1, occurred |-> 0, network |-> FALSE,
        egress |-> "none", leases |-> <<>>, child |-> TRUE]

Shell == [effect |-> [Ask EXCEPT !.digest = d2], kind |-> "shell", wellformed |-> TRUE,
          path |-> a, before |-> x, after |-> y, declared |-> {}, expect |-> TRUE]

MCTools ==
    {[Shell EXCEPT !.effect = Ask, !.kind = "patch", !.declared = {a}],
     [Shell EXCEPT !.declared = {b}],
     [Shell EXCEPT !.effect = [Ask EXCEPT !.child = FALSE], !.kind = "hash"],
     [Shell EXCEPT !.kind = "git"],
     [Shell EXCEPT !.wellformed = FALSE]}

MCEffects == {t.effect : t \in MCTools}

MCStarts == {[files |-> [Empty EXCEPT ![a] = x], index |-> "clean"]}

\* A command that declares nothing, over an overlay that has nothing.
MCBareTools == {Shell}
MCBareEffects == {Shell.effect}
MCBareStarts == {[files |-> Empty, index |-> NoRepository]}

MCPolicies == {[d \in {d1, d2} |-> said] : said \in {"allow", "deny"}}

DigestOf(fact) == IF fact.op \in {"decide", "enforce"} THEN fact.obj[2].digest ELSE fact.obj[2]

\* After the last call of run only its own facts are asked for.
Asked == IF runs < MaxRuns THEN Facts
                           ELSE {fact \in Facts : DigestOf(fact) = tool.effect.digest}

Shape(content) == IF content \in Contents THEN "some" ELSE content

\* The overlay and what was captured of it.  No tool names the contents of b, no
\* inventory sees the hook, and an index is only compared with the captured.
Compared ==
    <<files[a], checkpoint.files[a],
      Shape(files[b]), Shape(checkpoint.files[b]), files[b] = checkpoint.files[b],
      index = NoRepository, checkpoint.git = <<>>,
      checkpoint.git # <<>> /\ checkpoint.git[1] = index, link, root>>

\* No guard reads the realms or the order of the facts, and of the effects
\* performed the properties ask whether this call performed one.  Until run
\* calls the effect broker, what its last call was is not asked.
MCView ==
    <<Asked, at, policy, consumed, clock, calls, life,
      IF phase \in {"checkpoint", "execute"} THEN <<>> ELSE <<call, answer, exit, Ran>>,
      Compared, phase, tool, lock, verdict, report, history>>
=============================================================================
