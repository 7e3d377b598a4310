-------------------------- MODULE ControlEndpoint --------------------------
(***************************************************************************)
(* The supervision endpoint (crates/saber-core/src/serve.rs): the cores of *)
(* a workspace bind one address, and a core that serves answers each of    *)
(* its connections in a thread, under the mutexes of the run engine and of *)
(* the store.  What a governed call does under them is RunEngine's         *)
(* subject; here it is the events it records.                              *)
(***************************************************************************)
EXTENDS Naturals, FiniteSets

CONSTANT Cores      \* processes that serve the workspace

VARIABLES
    address,        \* the socket file: "none", "dead", or a core that listens
    core,           \* Cores -> "off", "reap", "bind" or "serving"
    raced           \* a socket was removed that a core listened on (history)

bindVars == <<address, core, raced>>

BindInit ==
    /\ address \in {"none", "dead"}
    /\ core = [c \in Cores |-> "off"] /\ raced = FALSE

Step(c, step) == core' = [core EXCEPT ![c] = step]

\* Mutant: whether somebody listens is not tried.
LookUntried(c) ==
    /\ core[c] = "off"
    /\ Step(c, IF address = "none" THEN "bind" ELSE "reap")
    /\ UNCHANGED <<address, raced>>

\* bind_hardened: symlink_metadata and connect.  A core that finds another
\* one serving ends.
Look(c) ==
    /\ core[c] = "off" /\ address \notin Cores
    /\ Step(c, IF address = "none" THEN "bind" ELSE "reap")
    /\ UNCHANGED <<address, raced>>

\* remove_file, of what is there by now.
Reap(c) ==
    /\ core[c] = "reap"
    /\ Step(c, IF address = "none" THEN "off" ELSE "bind")
    /\ address' = "none"
    /\ raced' = (raced \/ address \in Cores)

Bind(c) ==
    /\ core[c] = "bind"
    /\ IF address = "none" THEN Step(c, "serving") /\ address' = c
       ELSE Step(c, "off") /\ UNCHANGED address
    /\ UNCHANGED raced

\* A core that is killed, or that cannot go on, leaves its socket.
Die(c) ==
    /\ core[c] # "off" /\ Step(c, "off")
    /\ address' = IF address = c THEN "dead" ELSE address
    /\ UNCHANGED raced

BindNext == \E c \in Cores : Look(c) \/ Reap(c) \/ Bind(c) \/ Die(c)

BindSpec == BindInit /\ [][BindNext]_bindVars

BindTypeOK ==
    /\ address \in {"none", "dead"} \cup Cores
    /\ core \in [Cores -> {"off", "reap", "bind", "serving"}]
    /\ raced \in BOOLEAN

\* bind_hardened: "refuse when a live server already owns the socket", over
\* cores that start at once, die and start again: what listens at the address
\* serves, and is the only one, unless a live socket was taken for a stale one.
OneCoreServes ==
    /\ address \in Cores => core[address] = "serving"
    /\ raced \/ \A c \in Cores : core[c] = "serving" => address = c

\* "reap only provably stale sockets" (serve.rs).
LiveIsNeverReaped == ~raced

-----------------------------------------------------------------------------
(***************************************************************************)
(* The connections of one core.                                            *)
(***************************************************************************)
CONSTANTS
    Clients,        \* connections
    PageLimit,      \* events of one answer: the request's limit, 1..500
    MaxStored       \* bound: events in the store

EndpointAssumption ==
    /\ PageLimit \in Nat \ {0} /\ MaxStored \in Nat
    /\ {"none", "dead"} \cap Cores = {} /\ "none" \notin Clients

VARIABLES
    thread,         \* Clients -> [at, last, more, of]: what it does next, and
                    \* the answer of a subscription it has
    opened,         \* connections with an accepted handshake
    spent,          \* token_spent
    engine, store,  \* who holds the mutexes
    stored,         \* events in the store
    received,       \* Clients -> the events it was sent
    told,           \* Clients -> [cursor, more, of]: the last answer
    deaf            \* peers that do not read their socket

vars == <<thread, opened, spent, engine, store, stored, received, told, deaf>>

locks == <<engine, store>>
peers == <<received, told>>

Goes(c, at) == thread' = [thread EXCEPT ![c] = [@ EXCEPT !.at = at]]

Init ==
    /\ thread = [c \in Clients |-> [at |-> "read", last |-> 0, more |-> TRUE, of |-> 0]]
    /\ opened = {} /\ spent = FALSE
    /\ engine = "none" /\ store = "none"
    /\ stored \in 0..MaxStored
    /\ received = [c \in Clients |-> {}]
    /\ told = [c \in Clients |-> [cursor |-> 0, more |-> TRUE, of |-> 0]]
    /\ deaf = {}

\* External: another process records an event; a peer stops reading.
RecordElsewhere ==
    /\ stored < MaxStored /\ stored' = stored + 1
    /\ UNCHANGED <<thread, opened, spent, locks, peers, deaf>>

StopReading(c) ==
    /\ deaf' = deaf \cup {c}
    /\ UNCHANGED <<thread, opened, spent, locks, stored, peers>>

\* handshake: the token is looked at ...
PresentToken(c) ==
    /\ thread[c].at = "read" /\ c \notin opened /\ ~spent
    /\ Goes(c, "accept")
    /\ UNCHANGED <<opened, spent, locks, stored, peers, deaf>>

\* ... and spent afterwards.
Accept(c) ==
    /\ thread[c].at = "accept"
    /\ Goes(c, "answer")
    /\ spent' = TRUE /\ opened' = opened \cup {c}
    /\ UNCHANGED <<locks, stored, peers, deaf>>

\* Not an initialize, not the token, or not the first time.
Reject(c) ==
    /\ thread[c].at = "read" /\ c \notin opened
    /\ Goes(c, "audit")
    /\ UNCHANGED <<opened, spent, locks, stored, peers, deaf>>

\* audit_rejection: an event, or nothing where it cannot be appended.
AuditRejection(c) ==
    /\ thread[c].at = "audit" /\ store = "none"
    /\ Goes(c, "answer")
    /\ stored' \in {stored, stored + 1} /\ stored' <= MaxStored
    /\ UNCHANGED <<opened, spent, locks, peers, deaf>>

\* events.subscribe after the cursor the peer was told last; core.health takes
\* the same way.
Subscribe(c) ==
    /\ thread[c].at = "read" /\ c \in opened
    /\ Goes(c, "subscribe")
    /\ UNCHANGED <<opened, spent, locks, stored, peers, deaf>>

\* Mutant: the cursor moves on by the limit.
ReplayEventsByLimit(c) ==
    /\ thread[c].at = "subscribe" /\ store = "none"
    /\ store' = c
    /\ thread' = [thread EXCEPT ![c] =
            [at |-> "count", last |-> told[c].cursor + PageLimit, more |-> TRUE, of |-> stored]]
    /\ UNCHANGED <<opened, spent, engine, stored, peers, deaf>>

\* next_cursor: the sequence of the last event of the page.
LastOfPage(c) ==
    IF told[c].cursor + PageLimit < stored THEN told[c].cursor + PageLimit ELSE stored

\* replay_events.
ReplayEvents(c) ==
    /\ thread[c].at = "subscribe" /\ store = "none"
    /\ store' = c
    /\ thread' = [thread EXCEPT ![c] =
            [at |-> "count", last |-> LastOfPage(c), more |-> TRUE, of |-> stored]]
    /\ UNCHANGED <<opened, spent, engine, stored, peers, deaf>>

\* event_count, in a read of its own.
CountEvents(c) ==
    /\ thread[c].at = "count"
    /\ thread' = [thread EXCEPT ![c] = 
            [@ EXCEPT !.at = "answer", !.more = thread[c].last < stored]]
    /\ UNCHANGED <<opened, spent, locks, stored, peers, deaf>>

\* A governed call: the engine, then the store.
CallRun(c) ==
    /\ thread[c].at = "read" /\ c \in opened
    /\ Goes(c, "engine")
    /\ UNCHANGED <<opened, spent, locks, stored, peers, deaf>>

LockEngine(c) ==
    /\ thread[c].at = "engine" /\ engine = "none"
    /\ engine' = c /\ Goes(c, "store")
    /\ UNCHANGED <<opened, spent, store, stored, peers, deaf>>

DispatchRun(c) ==
    /\ thread[c].at = "store" /\ store = "none"
    /\ store' = c /\ Goes(c, "answer")
    /\ stored' \in {stored, stored + 1} /\ stored' <= MaxStored
    /\ UNCHANGED <<opened, spent, engine, peers, deaf>>

Unlock(c) ==
    /\ engine' = IF engine = c THEN "none" ELSE engine
    /\ store' = IF store = c THEN "none" ELSE store

Page(c) == (told[c].cursor + 1)..thread[c].last

\* write_frame, still under the locks of the call.
Answer(c) ==
    /\ thread[c].at = "answer" /\ c \notin deaf
    /\ received' = [received EXCEPT ![c] = @ \cup {e \in Page(c) : e <= thread[c].of}]
    /\ told' = [told EXCEPT ![c] =
            [cursor |-> thread[c].last, more |-> thread[c].more, of |-> thread[c].of]]
    /\ Goes(c, "read") /\ Unlock(c)
    /\ UNCHANGED <<opened, spent, stored, deaf>>

\* The peer is gone, where its thread reads or writes.
Disconnect(c) ==
    /\ thread[c].at \in {"read", "answer"}
    /\ Goes(c, "closed") /\ Unlock(c)
    /\ UNCHANGED <<opened, spent, stored, peers, deaf>>

Serve(c) ==
    \/ Accept(c) \/ AuditRejection(c) \/ ReplayEvents(c) \/ CountEvents(c)
    \/ LockEngine(c) \/ DispatchRun(c) \/ Answer(c)

Ask(c) == PresentToken(c) \/ Reject(c) \/ Subscribe(c) \/ CallRun(c)

Next ==
    \/ RecordElsewhere
    \/ \E c \in Clients : Serve(c) \/ Ask(c) \/ StopReading(c) \/ Disconnect(c)

Spec == Init /\ [][Next]_vars

\* A thread that can go on does; a peer may do nothing for ever.
FairSpec == Spec /\ \A c \in Clients : SF_vars(Serve(c))

TypeOK ==
    /\ \A c \in Clients :
        /\ thread[c].at \in {"read", "accept", "audit", "subscribe", "count", "engine", "store",
                             "answer", "closed"}
        /\ thread[c].last \in 0..MaxStored /\ thread[c].of \in 0..MaxStored
        /\ told[c].cursor \in 0..MaxStored
        /\ received[c] \subseteq 1..MaxStored
    /\ opened \subseteq Clients /\ deaf \subseteq Clients /\ spent \in BOOLEAN
    /\ {engine, store} \subseteq Clients \cup {"none"}
    /\ stored \in 0..MaxStored

\* replay_events and event_count, beside other processes that record: a peer
\* that follows its cursor got every event up to it, and where it is told that
\* there are no more, it has all that were stored when it was answered for.
FollowersMissNothing ==
    \A c \in Clients :
        /\ received[c] = 1..told[c].cursor
        /\ ~told[c].more => told[c].of <= told[c].cursor

\* "handlers always lock engine-then-store": who holds a mutex is on its way to
\* give it back, and nobody waits for the engine with the store in hand.
LocksComeBack ==
    /\ store # "none" => thread[store].at \in {"count", "answer"}
    /\ engine # "none" => thread[engine].at \in {"store", "answer"}

\* "never accept a second handshake" (serve.rs).
OneHandshake == Cardinality(opened) <= 1

\* "a serial accept loop would starve every peer after the first" (serve.rs):
\* a peer that reads is answered, or leaves, whatever the others do.
PeersAreAnswered ==
    \A c \in Clients : thread[c].at # "read" ~> thread[c].at \in {"read", "closed"} \/ c \in deaf
=============================================================================
