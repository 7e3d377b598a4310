---------------------------- MODULE StoreCommands ----------------------------
(***************************************************************************)
(* The operations callers ask of the fact store (crates/event-store), as   *)
(* records.  Payloads, task ids, effect kinds and audit documents are      *)
(* abstracted to arg, which is only ever compared for equality; evidence   *)
(* says whether a transition carries acceptance evidence; at is its time.  *)
(***************************************************************************)
EXTENDS Naturals, Sequences, FiniteSets

CONSTANTS
    Runs, Intents, Decisions, Keys, EventIds,
    Args,       \* payloads, states, dispositions, audit documents
    Commands,   \* the operations callers may ask for, again and again
    NoKey,      \* the operation takes no idempotency key
    NoEvent     \* no event id

RunStates == {"queued", "running", "blocked", "succeeded", "failed", "cancelled"}

\* The operations that look their idempotency key up before they append ...
KeyedOps == {"create", "transition", "intent", "result", "core"}

\* ... and record_handshake_failure and the two calls of the audit sink.
Ops == KeyedOps \cup {"handshake", "decide", "enforce"}

CommandType ==
    [op : Ops, obj : Runs \cup Intents \cup Decisions \cup {"-"},
     arg : Args, evidence : BOOLEAN,
     key : Keys \cup {NoKey}, event : EventIds, at : Nat]

ASSUME CommandsAssumption ==
    /\ Commands \subseteq CommandType
    /\ \A m \in Commands :
        /\ m.op \in KeyedOps <=> m.key # NoKey
        /\ m.op \in {"create", "transition"} => m.obj \in Runs
        /\ m.op = "transition" => m.arg \in RunStates
        /\ m.op \in {"intent", "result"} => m.obj \in Intents
        /\ m.op = "result" => m.arg \in {"completed", "abandoned"}
        /\ m.op \in {"decide", "enforce"} => m.obj \in Decisions
        /\ m.op = "enforce" => m.arg \in {"succeeded", "failed"}
        /\ m.op # "transition" => ~m.evidence

\* The event of an audit record is named after the record: the decision id,
\* or the digest of decision id, result and time.
ASSUME AuditIdAssumption ==
    \A m, n \in Commands :
        /\ m.op = n.op /\ m.obj = n.obj
        /\ \/ m.op = "decide"
           \/ m.op = "enforce" /\ m.arg = n.arg /\ m.at = n.at
        => m.event = n.event

ASSUME ArgsAssumption == "none" \notin Args

ASSUME NoKeyAssumption == NoKey \notin Keys

ASSUME NoEventAssumption == NoEvent \notin EventIds

\* valid_transition.
ValidTransition(current, target) ==
    <<current, target>> \in
        ({"queued"}  \X {"running", "cancelled"}) \cup
        ({"running"} \X {"blocked", "succeeded", "failed", "cancelled"}) \cup
        ({"blocked"} \X {"running", "failed", "cancelled"})

\* A success must carry evidence.
TransitionAllowed(current, m) ==
    /\ ValidTransition(current, m.arg)
    /\ m.arg = "succeeded" => m.evidence

\* The request hash: everything but the event id, the key and the time.
Body(m) == [op |-> m.op, obj |-> m.obj, arg |-> m.arg, evidence |-> m.evidence]

AboutRun(m, r) == m.op \in {"create", "transition"} /\ m.obj = r

\* The state a run is left in by command m.
StateOf(m) == IF m.op = "create" THEN "queued" ELSE m.arg

\* Fact n answers request m: m itself, or an earlier equal request.
SameRequest(n, m) ==
    \/ n = m
    \/ m.key # NoKey /\ n.key = m.key /\ Body(n) = Body(m)
    \/ m.op \in {"decide", "enforce"} /\ Body(n) = Body(m) /\ n.at = m.at
=============================================================================
