----------------------------- MODULE StoreCustody -----------------------------
(***************************************************************************)
(* Coming to an open store, and changing its key: EventStore::initialize,  *)
(* open, configure, migrate and rotate_database_key (crates/event-store),  *)
(* with the two custodians of the database key, OsKeyringProvider          *)
(* (key_custody.rs) and KeyFileProvider (saber-core/src/lib.rs).           *)
(*                                                                         *)
(* Three things outlive a process: the custody record, which names one key *)
(* or, during a rotation, two; the key the database file is encrypted      *)
(* with; and what migrations have committed to the file.  No transaction   *)
(* covers them, and no lock of the program orders two processes, so a      *)
(* crash or another process can come between any two steps below.          *)
(***************************************************************************)
EXTENDS Naturals, Sequences, SequencesExt

CONSTANTS
    Procs,
    DrawnKeys,   \* the random keys there are to draw: bounds the rotations
    NoKey,
    KeyFile,     \* the custodian is KeyFileProvider, which cannot rotate
    \* What callers keep to, and the code does not enforce:
    Founders,    \* who may come while the store is being created
    Rotators,    \* who calls rotate_database_key
    Reopens      \* a caller drops the handle when its rotation failed

ASSUME CustodyAssumption ==
    /\ NoKey \notin DrawnKeys
    /\ KeyFile \in BOOLEAN /\ Reopens \in BOOLEAN
    /\ Founders \subseteq Procs /\ Rotators \subseteq Procs

SchemaVersion == 3

VARIABLES
    record,     \* the candidates the custodian would load, primary first
    drawn,      \* keys already drawn: a random key is never drawn twice
    dbKey,      \* the key of the file's pages; NoKey while the file is empty
    schema,     \* [version, level]: PRAGMA user_version, migrations applied
    blobKey,    \* store_metadata's blob_master_key_v1
    pc,         \* Procs -> where the process is
    handle      \* Procs -> what it holds in memory

disk == <<record, drawn, dbKey, schema, blobKey>>
vars == <<record, drawn, dbKey, schema, blobKey, pc, handle>>

NoHandle == [candidates |-> <<>>, codec |-> NoKey, key |-> NoKey, next |-> NoKey,
             seen |-> 0, blob |-> NoKey]

Opening == {"attached", "migrating", "keying"}
Rotating == {"staged", "detached", "rekeyed", "verified"}

\* The process has a connection on the file.
Connected(p) == pc[p] \in Opening \cup Rotating \cup {"open"}

\* Its codec decrypts the file, without which every statement fails.
Reads(p) == handle[p].codec = dbKey

Init ==
    /\ record = <<>>
    /\ drawn = {}
    /\ dbKey = NoKey
    /\ schema = [version |-> 0, level |-> 0]
    /\ blobKey = NoKey
    /\ pc = [p \in Procs |-> "closed"]
    /\ handle = [p \in Procs |-> NoHandle]

Goto(p, place) == pc' = [pc EXCEPT ![p] = place]
Hold(p, h) == handle' = [handle EXCEPT ![p] = h]
Drop(p) == Goto(p, "closed") /\ Hold(p, NoHandle)

-----------------------------------------------------------------------------
(* initialize and open.                                                    *)

\* provision, or load_or_create: look for the record.
LookUp(p) ==
    /\ pc[p] = "closed"
    /\ p \in Founders \/ schema.version > 0
    /\ IF record = <<>>
       THEN Goto(p, "provisioning") /\ UNCHANGED handle
       ELSE /\ Goto(p, "loaded")
            /\ Hold(p, [NoHandle EXCEPT !.candidates = record])
    /\ UNCHANGED disk

\* There was none when it looked: draw a key and write it.  initialize loads
\* the record again afterwards; load_or_create goes on with its own key.
Provision(p) ==
    /\ pc[p] = "provisioning"
    /\ \E k \in DrawnKeys \ drawn :
        /\ drawn' = drawn \cup {k}
        /\ record' = <<k>>
        /\ IF KeyFile
           THEN Goto(p, "loaded") /\ Hold(p, [NoHandle EXCEPT !.candidates = <<k>>])
           ELSE Goto(p, "closed") /\ UNCHANGED handle
    /\ UNCHANGED <<dbKey, schema, blobKey>>

\* open tries every candidate; an empty file takes the first one.
Attach(p) ==
    /\ pc[p] = "loaded"
    /\ \/ /\ dbKey = NoKey
          /\ dbKey' = handle[p].candidates[1]
       \/ /\ dbKey \in ToSet(handle[p].candidates)
          /\ UNCHANGED dbKey
    /\ Goto(p, "attached")
    /\ Hold(p, [handle[p] EXCEPT !.codec = dbKey', !.key = dbKey'])
    /\ UNCHANGED <<record, drawn, schema, blobKey>>

\* No candidate reads the file: the last error is returned.
AttachFails(p) ==
    /\ pc[p] = "loaded"
    /\ dbKey # NoKey /\ dbKey \notin ToSet(handle[p].candidates)
    /\ Drop(p)
    /\ UNCHANGED disk

\* migrate reads user_version once, before any transaction.
ReadVersion(p) ==
    /\ pc[p] = "attached" /\ Reads(p)
    /\ Goto(p, "migrating")
    /\ Hold(p, [handle[p] EXCEPT !.seen = schema.version])
    /\ UNCHANGED disk

\* Mutant: user_version is not written with the tables.
MigratedUnversioned(target) == [schema EXCEPT !.level = target]

\* What migrate_to_v1, v2 and v3 commit; v1 says IF NOT EXISTS throughout.
Migrated(target) ==
    [version |-> target, level |-> IF target = 1 /\ schema.level > 1
                                   THEN schema.level ELSE target]

\* A column or a table of the target is there already.
Duplicates(target) == target > 1 /\ schema.level >= target

MigrateStep(p) ==
    LET target == handle[p].seen + 1 IN
    /\ pc[p] = "migrating" /\ Reads(p)
    /\ target <= SchemaVersion
    /\ ~Duplicates(target)
    /\ schema' = Migrated(target)
    /\ Hold(p, [handle[p] EXCEPT !.seen = target])
    /\ UNCHANGED <<record, drawn, dbKey, blobKey, pc>>

MigrateFails(p) ==
    /\ pc[p] = "migrating" /\ Reads(p)
    /\ handle[p].seen < SchemaVersion
    /\ Duplicates(handle[p].seen + 1)
    /\ Drop(p)
    /\ UNCHANGED disk

\* load_or_create_blob_key, its SELECT ...
LoadBlobKey(p) ==
    /\ pc[p] = "migrating" /\ Reads(p)
    /\ handle[p].seen = SchemaVersion
    /\ IF blobKey = NoKey
       THEN Goto(p, "keying") /\ UNCHANGED handle
       ELSE Goto(p, "open") /\ Hold(p, [handle[p] EXCEPT !.blob = blobKey])
    /\ UNCHANGED disk

\* Mutant: INSERT OR REPLACE.
CreateBlobKeyReplaces(p) ==
    /\ pc[p] = "keying" /\ Reads(p)
    /\ \E k \in DrawnKeys \ drawn :
        /\ drawn' = drawn \cup {k}
        /\ blobKey' = k
        /\ Hold(p, [handle[p] EXCEPT !.blob = k])
    /\ Goto(p, "open")
    /\ UNCHANGED <<record, dbKey, schema>>

\* ... and its INSERT, which the primary key refuses to the second process.
CreateBlobKey(p) ==
    /\ pc[p] = "keying" /\ Reads(p)
    /\ blobKey = NoKey
    /\ \E k \in DrawnKeys \ drawn :
        /\ drawn' = drawn \cup {k}
        /\ blobKey' = k
        /\ Hold(p, [handle[p] EXCEPT !.blob = k])
    /\ Goto(p, "open")
    /\ UNCHANGED <<record, dbKey, schema>>

CreateFails(p) ==
    /\ pc[p] = "keying" /\ Reads(p)
    /\ blobKey # NoKey
    /\ Drop(p)
    /\ UNCHANGED disk

\* The file was given another key while this process was opening it.
Unreadable(p) ==
    /\ pc[p] \in Opening /\ ~Reads(p)
    /\ Drop(p)
    /\ UNCHANGED disk

-----------------------------------------------------------------------------
(* rotate_database_key.                                                    *)

\* Mutant: the new key replaces the old one before the file is rekeyed.
StagedAlone(current, next) == <<next>>

\* Mutant: the next key is added to whatever candidates there are.
StagedAdded(current, next) == Append(record, next)

\* The record of stage_rotation: the current key first, the next as fallback.
Staged(current, next) == <<current, next>>

Stage(p) ==
    /\ pc[p] = "open" /\ p \in Rotators /\ ~KeyFile
    /\ \E k \in DrawnKeys \ drawn :
        /\ drawn' = drawn \cup {k}
        /\ record' = Staged(handle[p].key, k)
        /\ Hold(p, [handle[p] EXCEPT !.next = k])
    /\ Goto(p, "staged")
    /\ UNCHANGED <<dbKey, schema, blobKey>>

\* Checkpoint and leave WAL mode: only without another connection.
Detach(p) ==
    /\ pc[p] = "staged" /\ Reads(p)
    /\ \A q \in Procs \ {p} : ~Connected(q)
    /\ Goto(p, "detached")
    /\ UNCHANGED <<disk, handle>>

\* PRAGMA rekey: one transaction over every page of the file.
Rekey(p) ==
    /\ pc[p] = "detached" /\ Reads(p)
    /\ dbKey' = handle[p].next
    /\ Hold(p, [handle[p] EXCEPT !.codec = handle[p].next])
    /\ Goto(p, "rekeyed")
    /\ UNCHANGED <<record, drawn, schema, blobKey>>

\* Back to WAL mode, and verify_database_integrity.
Verify(p) ==
    /\ pc[p] = "rekeyed" /\ Reads(p)
    /\ Goto(p, "verified")
    /\ UNCHANGED <<disk, handle>>

\* commit_rotation, then self.database_key = next.
Promote(p) ==
    /\ pc[p] = "verified"
    /\ record' = <<handle[p].next>>
    /\ Hold(p, [handle[p] EXCEPT !.key = handle[p].next, !.next = NoKey])
    /\ Goto(p, "open")
    /\ UNCHANGED <<drawn, dbKey, schema, blobKey>>

\* Any step of the rotation fails: the error is returned, the handle lives
\* on with the database_key it had, whatever the file is encrypted with now.
RotateFails(p) ==
    /\ pc[p] \in Rotating
    /\ IF Reopens
       THEN Drop(p)
       ELSE Goto(p, "open") /\ Hold(p, [handle[p] EXCEPT !.next = NoKey])
    /\ UNCHANGED disk

-----------------------------------------------------------------------------
\* The process dies, or drops its handle.
Crash(p) ==
    /\ pc[p] # "closed"
    /\ Drop(p)
    /\ UNCHANGED disk

Next ==
    \E p \in Procs :
        \/ LookUp(p) \/ Provision(p) \/ Attach(p) \/ AttachFails(p)
        \/ ReadVersion(p) \/ MigrateStep(p) \/ MigrateFails(p)
        \/ LoadBlobKey(p) \/ CreateBlobKey(p) \/ CreateFails(p) \/ Unreadable(p)
        \/ Stage(p) \/ Detach(p) \/ Rekey(p) \/ Verify(p) \/ Promote(p)
        \/ RotateFails(p)
        \/ Crash(p)

Spec == Init /\ [][Next]_vars

-----------------------------------------------------------------------------
(* Properties.                                                             *)

KeyOrNone == DrawnKeys \cup {NoKey}

\* A custody record names one key, or two; none before the first.
Records == {<<>>} \cup {<<k>> : k \in DrawnKeys} \cup (DrawnKeys \X DrawnKeys)

HandleType ==
    [candidates : Records, codec : KeyOrNone, key : KeyOrNone, next : KeyOrNone,
     seen : 0..SchemaVersion, blob : KeyOrNone]

Places == {"closed", "provisioning", "loaded", "open"} \cup Opening \cup Rotating

\* Every variable holds a value of its kind; a record never names three keys.
TypeOK ==
    /\ record \in Records
    /\ drawn \subseteq DrawnKeys
    /\ dbKey \in KeyOrNone
    /\ schema \in [version : 0..SchemaVersion, level : 0..SchemaVersion]
    /\ blobKey \in KeyOrNone
    /\ pc \in [Procs -> Places]
    /\ handle \in [Procs -> HandleType]

\* Whatever step a rotation stopped at, and whatever came after, the
\* custodian still holds the key the file is encrypted with: "returns a
\* custody, database or integrity error while leaving a recoverable key pair"
\* (rotate_database_key).
KeyRecoverable == dbKey # NoKey => dbKey \in ToSet(record)

\* The version in the file is always the version of its tables, or no later
\* open could migrate it; and a store that was opened stays at the schema it
\* was opened for.
SchemaCurrent ==
    /\ schema.version = schema.level
    /\ \A p \in Procs : pc[p] \in {"open"} \cup Rotating => schema.version = SchemaVersion

\* "assert_eq!(version, SCHEMA_VERSION)" after open, in the test of the
\* upgrade of a version 1 store: an open store is at the current version.
OpenedIsCurrent ==
    \A p \in Procs : pc[p] = "open" => schema.version = SchemaVersion

\* The key of the encrypted blobs is drawn once in the life of a store and
\* outlives every rotation: blobs written by one process open in the next.
BlobKeyPermanent ==
    /\ [][blobKey # NoKey => blobKey' = blobKey]_blobKey
    /\ [](\A p \in Procs : pc[p] \in {"open"} \cup Rotating => handle[p].blob = blobKey)
=============================================================================
