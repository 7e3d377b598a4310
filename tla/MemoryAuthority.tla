-------------------------- MODULE MemoryAuthority --------------------------
(***************************************************************************)
(* MemoryAuthority (crates/memory-authority): the memories of a workspace, *)
(* proposed, promoted by review, superseded by a later promotion of their  *)
(* key, expired by a query that finds them past their time, revoked.  An   *)
(* entry is named by key, value and origin; a proposal of another          *)
(* workspace or without origin is refused at once.                         *)
(***************************************************************************)
EXTENDS Naturals, FiniteSets

CONSTANTS
    Entries,        \* [key, name, sensitivity, expires]; expires 0: never
    MaxTime         \* bound: the clock

States == {"absent", "Candidate", "Promoted", "Stale", "Revoked"}

MemoryAssumption ==
    /\ \A e \in Entries : e.sensitivity \in Nat /\ e.expires \in Nat
    /\ MaxTime \in Nat

KeysOf == {e.key : e \in Entries}

VARIABLES
    state,          \* Entries -> MemoryState
    superseded,     \* entries a later promotion replaced
    conflicts,      \* Entries -> what its promotion replaced
    clock,
    asked,          \* the last query: [keys, ceiling, now]
    views           \* and what it answered

vars == <<state, superseded, conflicts, clock, asked, views>>

Init ==
    /\ state = [e \in Entries |-> "absent"]
    /\ superseded = {}
    /\ conflicts = [e \in Entries |-> {}]
    /\ clock = 0
    /\ asked = [keys |-> {}, ceiling |-> 0, now |-> 0] /\ views = {}

Tick ==
    /\ clock < MaxTime
    /\ clock' = clock + 1
    /\ UNCHANGED <<state, superseded, conflicts, asked, views>>

\* propose: an entry the history of its key holds is a duplicate for ever.
Propose(e) ==
    /\ state[e] = "absent"
    /\ state' = [state EXCEPT ![e] = "Candidate"]
    /\ UNCHANGED <<superseded, conflicts, clock, asked, views>>

Rivals(e) == {o \in Entries : o # e /\ o.key = e.key /\ state[o] = "Promoted"}

\* Mutant: the entry it replaces stays promoted.
PromoteBeside(e) ==
    /\ state[e] = "Candidate"
    /\ state' = [state EXCEPT ![e] = "Promoted"]
    /\ superseded' = superseded \cup Rivals(e)
    /\ conflicts' = [conflicts EXCEPT ![e] = Rivals(e)]
    /\ UNCHANGED <<clock, asked, views>>

\* promote: under a review authority.
Promote(e) ==
    /\ state[e] = "Candidate"
    /\ state' = [o \in Entries |->
            IF o = e THEN "Promoted" ELSE IF o \in Rivals(e) THEN "Stale" ELSE state[o]]
    /\ superseded' = superseded \cup Rivals(e)
    /\ conflicts' = [conflicts EXCEPT ![e] = Rivals(e)]
    /\ UNCHANGED <<clock, asked, views>>

Revoke(e) ==
    /\ state[e] # "absent"
    /\ state' = [state EXCEPT ![e] = "Revoked"]
    /\ UNCHANGED <<superseded, conflicts, clock, asked, views>>

\* Mutant: the entry is good at the millisecond it expires.
ExpiredAfter(e, now) == e.expires # 0 /\ e.expires < now

Expired(e, now) == e.expires # 0 /\ e.expires <= now

\* query, of one key or of all: what it finds expired, within the ceiling, turns
\* stale.
Query(keys, ceiling) ==
    LET seen == {e \in Entries :
                    state[e] = "Promoted" /\ e.key \in keys /\ e.sensitivity <= ceiling}
        expired == {e \in seen : Expired(e, clock)}
    IN  /\ views' = seen \ expired
        /\ asked' = [keys |-> keys, ceiling |-> ceiling, now |-> clock]
        /\ state' = [e \in Entries |-> IF e \in expired THEN "Stale" ELSE state[e]]
        /\ UNCHANGED <<superseded, conflicts, clock>>

Next ==
    \/ Tick
    \/ \E e \in Entries : Propose(e) \/ Promote(e) \/ Revoke(e)
    \/ \E ceiling \in {e.sensitivity : e \in Entries} :
        \E keys \in {{e.key} : e \in Entries} \cup {KeysOf} : Query(keys, ceiling)

Spec == Init /\ [][Next]_vars

-----------------------------------------------------------------------------

TypeOK ==
    /\ state \in [Entries -> States]
    /\ superseded \subseteq Entries
    /\ conflicts \in [Entries -> SUBSET Entries]
    /\ clock \in 0..MaxTime
    /\ asked.keys \subseteq KeysOf /\ asked.ceiling \in Nat /\ asked.now \in 0..MaxTime
    /\ views \subseteq Entries

\* promote: of one key one value is truth, and what it replaced stays in its
\* history, linked from the entry that replaced it.
OneTruthPerKey ==
    /\ \A e, o \in Entries :
        e.key = o.key /\ state[e] = "Promoted" /\ state[o] = "Promoted" => e = o
    /\ \A o \in superseded :
        /\ state[o] \in {"Stale", "Revoked"}
        /\ \E e \in Entries : o \in conflicts[e]

\* query: the answer holds one value of a key that was asked for, none past its
\* time or above the ceiling of who asked.
AnswersAreTruth ==
    /\ \A e, o \in views : e.key = o.key => e = o
    /\ \A e \in views :
        /\ e.key \in asked.keys /\ e.sensitivity <= asked.ceiling
        /\ e.expires # 0 => asked.now < e.expires

\* revoke: what is revoked or stale is never truth again.
NeverTruthAgain ==
    [][\A e \in Entries :
        /\ state[e] = "Revoked" => state'[e] = "Revoked"
        /\ state[e] = "Stale" => state'[e] \in {"Stale", "Revoked"}
        /\ state[e] \in {"Stale", "Revoked"} /\ views' # views => e \notin views']_vars
=============================================================================
