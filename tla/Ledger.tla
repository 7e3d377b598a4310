-------------------------------- MODULE Ledger --------------------------------
(***************************************************************************)
(* What the fact store promises its callers, with no transaction, snapshot,*)
(* lock or crash in sight: a sequence of facts that only grows, each       *)
(* legal after the ones before it and recorded once, and answers that only *)
(* ever name a fact of the sequence recorded for the same request.         *)
(***************************************************************************)
EXTENDS StoreCommands

VARIABLES
    ledger,     \* the facts, oldest first: commands that took effect
    answers     \* [cmd, event]: callers told that cmd is recorded as event

vars == <<ledger, answers>>

\* The state of run r is that of the last fact about it.
InState(r, s) ==
    \/ /\ s = "absent"
       /\ \A i \in 1..Len(ledger) : ~AboutRun(ledger[i], r)
    \/ \E i \in 1..Len(ledger) :
        /\ AboutRun(ledger[i], r)
        /\ StateOf(ledger[i]) = s
        /\ \A j \in (i+1)..Len(ledger) : ~AboutRun(ledger[j], r)

Has(op, obj) ==
    \E i \in 1..Len(ledger) : ledger[i].op = op /\ ledger[i].obj = obj

\* What may be recorded after the facts so far.
Legal(m) ==
    /\ \A i \in 1..Len(ledger) : ledger[i].event # m.event
    /\ m.key # NoKey => \A i \in 1..Len(ledger) : ledger[i].key # m.key
    /\ m.op = "create" => InState(m.obj, "absent")
    /\ m.op = "transition" =>
        \E s \in RunStates : InState(m.obj, s) /\ TransitionAllowed(s, m)
    /\ m.op = "intent" => ~Has("intent", m.obj)
    /\ m.op = "result" => Has("intent", m.obj) /\ ~Has("result", m.obj)
    /\ m.op = "decide" => ~Has("decide", m.obj)
    /\ m.op = "enforce" =>
        /\ ~Has("enforce", m.obj)
        /\ \E i \in 1..Len(ledger) :
            ledger[i].op = "decide" /\ ledger[i].obj = m.obj /\ ledger[i].at <= m.at

Init == ledger = <<>> /\ answers = {}

Record(m) ==
    /\ Legal(m)
    /\ ledger' = Append(ledger, m)
    /\ UNCHANGED answers

Answer(m) ==
    /\ \E i \in 1..Len(ledger) :
        /\ SameRequest(ledger[i], m)
        /\ answers' = answers \cup {[cmd |-> m, event |-> ledger[i].event]}
    /\ UNCHANGED ledger

Next == \E m \in Commands : Record(m) \/ Answer(m)

Spec == Init /\ [][Next]_vars
=============================================================================
