----------------------------- MODULE MCEventStore -----------------------------
(***************************************************************************)
(* Two connections on one store, three groups of commands.  In a group the *)
(* commands meet: a request retried under its key, a key reused for another*)
(* request, transitions out of one state under different keys, a success   *)
(* without evidence, two results for one intent, an event id used twice, a *)
(* decision enforced twice with different results.  The state constraint   *)
(* keeps a behaviour inside one group, which is explored to its end: no    *)
(* bound on the log, the retries or the crashes.                           *)
(***************************************************************************)
EXTENDS EventStore, TLC

MCCmd(op, obj, arg, evidence, key, event, at) ==
    [op |-> op, obj |-> obj, arg |-> arg, evidence |-> evidence,
     key |-> key, event |-> event, at |-> at]

CONSTANTS r1, i1, d1, k1, k2, k3, k4, c1, c2

RunGroup ==
    { MCCmd("create", r1, "task", FALSE, k1, "e1", 0),
      MCCmd("create", r1, "task", FALSE, k1, "e2", 0),          \* a retry
      MCCmd("transition", r1, "running", FALSE, k2, "e3", 0),
      MCCmd("transition", r1, "cancelled", FALSE, k3, "e4", 0),
      MCCmd("transition", r1, "succeeded", FALSE, k4, "e5", 0), \* no evidence
      MCCmd("core", "-", "note", FALSE, k2, "e6", 0) }          \* k2 reused

EffectGroup ==
    { MCCmd("intent", i1, "edit", FALSE, k1, "e1", 0),
      MCCmd("intent", i1, "edit", FALSE, k2, "e2", 0),          \* another key
      MCCmd("result", i1, "completed", FALSE, k3, "e3", 0),
      MCCmd("result", i1, "abandoned", FALSE, k4, "e4", 0) }

AuditGroup ==
    { MCCmd("decide", d1, "allow", FALSE, NoKey, "d1", 1),
      MCCmd("decide", d1, "deny", FALSE, NoKey, "d1", 1),       \* same id
      MCCmd("enforce", d1, "succeeded", FALSE, NoKey, "s0", 0), \* too early
      MCCmd("enforce", d1, "succeeded", FALSE, NoKey, "s1", 1),
      MCCmd("enforce", d1, "failed", FALSE, NoKey, "f2", 2),
      MCCmd("handshake", "-", "token", FALSE, NoKey, "h1", 0) } \* twice in a ms

MCCommands == RunGroup \cup EffectGroup \cup AuditGroup
MCArgs == {m.arg : m \in MCCommands}
MCEventIds == {m.event : m \in MCCommands}

InPlay ==
    {events[i].cmd : i \in 1..Len(events)} \cup {txn[c].cmd : c \in Conns}

MCOneGroup ==
    \E g \in {RunGroup, EffectGroup, AuditGroup} : InPlay \subseteq g \cup {NoCmd}

MCSymmetry == Permutations(Conns)
=============================================================================
