----------------------------- MODULE SealedSync -----------------------------
(***************************************************************************)
(* Sealed sync objects (crates/sync-e2ee): objects sealed by a client      *)
(* under a key, epoch and metadata, kept by a server that may replay,      *)
(* delay, relabel or cut them, opened and admitted by another client's     *)
(* epoch ledger.  Encryption is symbolic: a box opens under the key, with  *)
(* the epoch it was authenticated with, or not at all.                     *)
(***************************************************************************)
EXTENDS Naturals

CONSTANTS
    Workspaces,
    SealKeys,
    Epochs          \* a finite set of numbers

SyncAssumption == Epochs \subseteq Nat

Boxes == [key : SealKeys, epoch : Epochs, workspace : Workspaces]

VARIABLES
    server,         \* sealed objects the server holds: [box, epoch] as labelled
    last_seen,      \* Workspaces -> {} or {the epoch}
    floor,          \* revoked_below_epoch: Workspaces -> the floor, 0 for none
    advanced,       \* <<workspace, epoch>> admitted by the ledger (history)
    opened          \* boxes opened, with the key and the epoch they came under (history)

vars == <<server, last_seen, floor, advanced, opened>>

Init ==
    /\ server = {} /\ opened = {} /\ advanced = {}
    /\ last_seen = [w \in Workspaces |-> {}]
    /\ floor = [w \in Workspaces |-> 0]

\* seal: the epoch is authenticated with the ciphertext and stands beside it.
Seal(key, epoch, w) ==
    /\ server' = server \cup {[box |-> [key |-> key, epoch |-> epoch, workspace |-> w],
                               epoch |-> epoch]}
    /\ UNCHANGED <<last_seen, floor, advanced, opened>>

\* External: the server offers what it holds under another epoch.
Relabel(o, epoch) ==
    /\ o \in server
    /\ server' = server \cup {[o EXCEPT !.epoch = epoch]}
    /\ UNCHANGED <<last_seen, floor, advanced, opened>>

\* Mutant: the epoch is not authenticated.
OpensUnbound(key, o) == o.box.key = key

\* open: the wrapped key opens under the workspace key, the ciphertext with the
\* epoch the object says.
Opens(key, o) == o.box.key = key /\ o.box.epoch = o.epoch

Open(key, o) ==
    /\ o \in server
    /\ Opens(key, o)
    /\ opened' = opened \cup {[key |-> key, epoch |-> o.epoch, box |-> o.box]}
    /\ UNCHANGED <<server, last_seen, floor, advanced>>

\* Mutant: the floor is not looked at.
AdvanceRevoked(w, epoch) ==
    /\ \A last \in last_seen[w] : epoch > last
    /\ last_seen' = [last_seen EXCEPT ![w] = {epoch}]
    /\ advanced' = advanced \cup {<<w, epoch>>}
    /\ UNCHANGED <<server, floor, opened>>

\* EpochLedger::advance: Revoked below the floor, Rollback at or below the last.
Advance(w, epoch) ==
    /\ epoch >= floor[w]
    /\ \A last \in last_seen[w] : epoch > last
    /\ last_seen' = [last_seen EXCEPT ![w] = {epoch}]
    /\ advanced' = advanced \cup {<<w, epoch>>}
    /\ UNCHANGED <<server, floor, opened>>

\* revoke_device: the floor is what this revocation says, were it lower.
RevokeDevice(w, epoch) ==
    /\ floor' = [floor EXCEPT ![w] = epoch]
    /\ UNCHANGED <<server, last_seen, advanced, opened>>

Next ==
    \/ \E k \in SealKeys, e \in Epochs, w \in Workspaces : Seal(k, e, w)
    \/ \E o \in server :
        (\E e \in Epochs : Relabel(o, e)) \/ (\E k \in SealKeys : Open(k, o))
    \/ \E w \in Workspaces, e \in Epochs : Advance(w, e) \/ RevokeDevice(w, e)

Spec == Init /\ [][Next]_vars

-----------------------------------------------------------------------------

TypeOK ==
    /\ server \subseteq [box : Boxes, epoch : Epochs]
    /\ last_seen \in [Workspaces -> SUBSET Epochs]
    /\ floor \in [Workspaces -> Epochs \cup {0}]
    /\ advanced \subseteq Workspaces \X Epochs
    /\ opened \subseteq [key : SealKeys, epoch : Epochs, box : Boxes]

\* open: whatever the server offers, what opens is what was sealed under the
\* key, in the epoch it was sealed for.
OpenedAsSealed ==
    \A o \in opened : o.box.key = o.key /\ o.box.epoch = o.epoch

\* advance: an epoch is admitted once, in rising order, and not below the floor
\* that stood then; the last seen is the highest ever admitted.
EpochsRise ==
    [][\A w \in Workspaces :
        /\ \A e \in Epochs : <<w, e>> \in advanced' \ advanced =>
            e >= floor[w] /\ \A o \in Epochs : <<w, o>> \in advanced => o < e
        /\ \A e \in last_seen[w] : \A n \in last_seen'[w] : e <= n]_vars

\* revoke_device: "epochs strictly below floor are refused from now on": no
\* revocation is taken back.
FloorsHold == [][\A w \in Workspaces : floor'[w] >= floor[w]]_vars
=============================================================================
