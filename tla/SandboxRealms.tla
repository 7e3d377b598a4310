--------------------------- MODULE SandboxRealms ---------------------------
(***************************************************************************)
(* The realms of a sandbox (crates/sandbox): a plan is validated, a        *)
(* backend that covers it is selected, a realm is created, its command is  *)
(* executed where the mounts map it, and the realm is destroyed.  A path   *)
(* is the sequence of its segments; no target and no working directory has *)
(* a "..", a command may have one.  The forms of names, the environment    *)
(* and the budget are one verdict, sound.  What the wrapper lets a command *)
(* do once it is asked to run it is the operating system's.                *)
(***************************************************************************)
EXTENDS Naturals, Sequences

CONSTANTS
    Plans,          \* [realm, mounts, network, command, sound]; a mount is
                    \* [target, host, source, writable, executable], a command
                    \* {} or {[entry, cwd]}; realms S0..S4 are 0..4
    MaxRealms       \* bound: realms created

SandboxAssumption ==
    /\ MaxRealms \in Nat
    /\ \A p \in Plans :
        /\ p.realm \in 0..4
        /\ \A m \in p.mounts : m.target \in Seq(STRING) /\ m.host \in Seq(STRING)
        /\ \A c \in p.command : c.entry \in Seq(STRING)

Sources == {"Workspace", "Overlay", "SystemTools", "Temporary"}

-----------------------------------------------------------------------------
(* SandboxPlan::validate.                                                  *)

InherentlyWritable(m) == m.source \in {"Overlay", "Temporary"}

MountValid(m) ==
    /\ m.writable = InherentlyWritable(m)
    /\ InherentlyWritable(m) => ~m.executable
    /\ m.source = "SystemTools" => m.executable

\* The path is the target or falls within it.
Under(path, target) ==
    Len(target) <= Len(path) /\ \A i \in 1..Len(target) : path[i] = target[i]

\* Mutant: two targets conflict when they are the same.
ConflictSame(m, n) == m.target = n.target

\* target_conflict: one within the other, of other writability.
Conflict(m, n) ==
    \/ m.target = n.target
    \/ /\ Under(n.target, m.target) \/ Under(m.target, n.target)
       /\ m.writable # n.writable

FilesystemFits(p) ==
    LET sources == {m.source : m \in p.mounts}
    IN  CASE p.realm = 0 -> sources = {}
          [] p.realm = 1 -> sources \subseteq {"Workspace"}
          [] p.realm = 2 -> "Overlay" \notin sources
          [] OTHER -> "Overlay" \in sources

NetworkFits(p) == p.network = IF p.realm = 4 THEN "Mediated" ELSE "Denied"

\* path_within_executable_mount: in any of them.
CommandFits(p) ==
    /\ p.command = {} <=> p.realm < 2
    /\ \A c \in p.command :
        \E m \in p.mounts : /\ m.executable
                             /\ Under(c.entry, m.target) /\ c.entry # m.target

Valid(p) ==
    /\ p.sound
    /\ \A m \in p.mounts : MountValid(m)
    /\ \A m, n \in p.mounts : m # n => ~Conflict(m, n)
    /\ FilesystemFits(p) /\ NetworkFits(p) /\ CommandFits(p)

-----------------------------------------------------------------------------
(* The registry and its two backends, the in-core one and the OS wrapper,  *)
(* and what the realms of the wrapper leave on disk.                       *)

VARIABLES
    platform,       \* "macos", "linux" or "windows"
    healthy,        \* the wrapper passed its probes when it was made
    realms,         \* [id, plan, profiled]: those that were not destroyed
    created,        \* backends -> realms created: its counter
    profiles,       \* plans whose profile file exists
    unfinished,     \* of these, the ones a write that failed left (history)
    ran             \* executions: [plan, mount, at], at the path on the host, the
                    \* mount {} where paths are not mapped (history)

vars == <<platform, healthy, realms, created, profiles, unfinished, ran>>

Init ==
    /\ platform \in {"macos", "linux", "windows"} /\ healthy \in BOOLEAN
    /\ platform = "windows" => ~healthy
    /\ realms = {} /\ profiles = {} /\ unfinished = {} /\ ran = {}
    /\ created = [b \in {"guarded", "wrapper"} |-> 0]

Registry == IF platform = "windows" THEN {"guarded"} ELSE {"guarded", "wrapper"}

Descriptor(b) ==
    IF b = "guarded"
    THEN [max_realm |-> 1, filesystem |-> "none", network |-> "none"]
    ELSE [max_realm |-> 3, filesystem |-> "Overlay", network |-> "Denied"]

Healthy(b) == b = "guarded" \/ healthy

Covers(d, realm) ==
    /\ realm = 2 => d.filesystem \in {"ReadOnlyRootfs", "Overlay"}
    /\ realm > 2 => d.filesystem = "Overlay"
    /\ realm > 1 => d.network \in {"Denied", "Mediated"}

Qualified(p) ==
    {b \in Registry :
        /\ p.realm <= Descriptor(b).max_realm
        /\ Covers(Descriptor(b), p.realm)
        /\ Healthy(b)}

\* select_for: the in-core one comes first.
Selected(p) == IF "guarded" \in Qualified(p) THEN {"guarded"} ELSE Qualified(p)

\* The in-core backend has no child to give a command to.
Admits(b, p) == b = "guarded" => p.command = {}

Create(p) ==
    /\ Valid(p)
    /\ \E b \in Selected(p) :
        /\ Admits(b, p)
        /\ created[b] < MaxRealms
        /\ created' = [created EXCEPT ![b] = @ + 1]
        /\ realms' = realms \cup {[id |-> <<b, created'[b]>>, plan |-> p, profiled |-> FALSE]}
    /\ UNCHANGED <<platform, healthy, profiles, unfinished, ran>>

\* map_realm_path: the mount with the longest target.
MountOf(p, path) ==
    {m \in p.mounts :
        /\ Under(path, m.target)
        /\ \A n \in p.mounts : Under(path, n.target) => Len(n.target) <= Len(m.target)}

\* What follows the target is looked for on the host, and may not climb.
HostPath(m, path) == m.host \o SubSeq(path, Len(m.target) + 1, Len(path))
Climbs(path) == \E i \in DOMAIN path : path[i] = ".."

\* build_wrapper_for: the profile is written again each time.
WriteProfile(realm) ==
    /\ profiles' = profiles \cup {realm.plan}
    /\ realms' = (realms \ {realm}) \cup {[realm EXCEPT !.profiled = TRUE]}

\* A write that fails may leave a file, which no realm removes.
ProfileFails(realm) ==
    /\ realm \in realms /\ realm.id[1] = "wrapper" /\ healthy /\ platform = "macos"
    /\ profiles' = profiles \cup {realm.plan} /\ unfinished' = unfinished \cup {realm.plan}
    /\ UNCHANGED <<platform, healthy, realms, created, ran>>

\* exec: the profile comes first; then the paths are mapped, where they are.
Exec(realm, command) ==
    /\ realm \in realms /\ realm.id[1] = "wrapper" /\ healthy
    /\ command \in realm.plan.command
    /\ IF platform = "macos"
       THEN /\ WriteProfile(realm)
            /\ ran' = ran \cup
                {[plan |-> realm.plan, mount |-> {m}, at |-> HostPath(m, command.entry)] :
                    m \in {n \in MountOf(realm.plan, command.entry) :
                            /\ ~Climbs(command.entry)
                            /\ MountOf(realm.plan, command.cwd) # {}}}
       ELSE /\ ran' = ran \cup {[plan |-> realm.plan, mount |-> {}, at |-> command.entry]}
            /\ UNCHANGED <<profiles, realms>>
    /\ UNCHANGED <<platform, healthy, created, unfinished>>

\* destroy: another realm of the plan loses its profile too, until it executes.
Destroy(realm) ==
    /\ realm \in realms
    /\ realms' = realms \ {realm}
    /\ IF realm.profiled
       THEN profiles' = profiles \ {realm.plan} /\ unfinished' = unfinished \ {realm.plan}
       ELSE UNCHANGED <<profiles, unfinished>>
    /\ UNCHANGED <<platform, healthy, created, ran>>

Commands == UNION {p.command : p \in Plans}

Next ==
    \/ \E p \in Plans : Create(p)
    \/ \E realm \in realms :
        Destroy(realm) \/ ProfileFails(realm) \/ \E c \in Commands : Exec(realm, c)

Spec == Init /\ [][Next]_vars

-----------------------------------------------------------------------------

TypeOK ==
    /\ platform \in {"macos", "linux", "windows"} /\ healthy \in BOOLEAN
    /\ \A r \in realms : r.plan \in Plans /\ r.id[2] \in 1..created[r.id[1]]
    /\ \A q, r \in realms : q.id = r.id => q = r
    /\ created \in [{"guarded", "wrapper"} -> 0..MaxRealms]
    /\ profiles \subseteq Plans /\ unfinished \subseteq profiles
    /\ \A e \in ran : e.plan \in Plans

\* validate, select_for, create, exec and destroy: a child runs in a realm of a
\* healthy wrapper that confines it, from a path below the host directory of a
\* mount it may not write, however the targets of its plan are nested; without a
\* wrapper nothing runs; no profile that was written outlives the realms that
\* use it.
RealmsAreConfined ==
    /\ \A r \in realms : r.plan.realm > 1 <=> r.id[1] = "wrapper"
    /\ \A e \in ran :
        /\ healthy /\ e.plan.realm \in {2, 3} /\ e.plan.network = "Denied"
        /\ platform = "macos" => e.mount # {}
        /\ \A m \in e.mount :
            ~m.writable /\ Under(e.at, m.host)
    /\ profiles \ unfinished \subseteq {r.plan : r \in {q \in realms : q.profiled}}

\* "argv[0] is realm-absolute and must resolve inside an executable mount"
\* (plan.rs): the mount it is mapped to is executable.
CommandsResolveExecutable == \A e \in ran : \A m \in e.mount : m.executable

\* MountSpec: "Whether binaries may execute from this mount" (plan.rs), which no
\* writable one says: what runs is not in a directory of the host the plan lets
\* it write.  Host directories are not compared: minimal_s3_plan mounts one as
\* the tools and as the scratch.
NothingRunsFromWhatIsWritten ==
    \A e \in ran : \A n \in e.plan.mounts : n.writable => ~Under(e.at, n.host)
=============================================================================
