------------------------------ MODULE MCRunEngine ------------------------------
(***************************************************************************)
(* Two runs of one plan, the second started afresh or forked from the      *)
(* first.  The plans mix the three classes of effects, so a run can meet a *)
(* card after an effect that needs none, and two cards in turn for one     *)
(* step when the first got no decision; in the first plan two steps have   *)
(* one id, and the acceptance is a command; in the second two checks do.   *)
(***************************************************************************)
EXTENDS RunEngine

MCNamed(id, kind) == [id |-> id, kind |-> kind]

MCPlans ==
    { [steps  |-> <<MCNamed("s1", "file.read"), MCNamed("s2", "file.edit"),
                    MCNamed("s2", "command.run")>>,
       checks |-> <<MCNamed("s1", "command_succeeds")>>],
      [steps  |-> <<MCNamed("s1", "network"), MCNamed("s2", "file.read")>>,
       checks |-> <<MCNamed("s1", "file_contains"), MCNamed("s1", "file_contains")>>] }

MCIds == {"s1", "s2"}
=============================================================================
