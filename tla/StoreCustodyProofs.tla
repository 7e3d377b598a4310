-------------------------- MODULE StoreCustodyProofs --------------------------
(***************************************************************************)
(* Proofs about store custody, for every set of processes and keys.  What  *)
(* the code leaves to its callers is a hypothesis of the theorem that      *)
(* needs it.                                                               *)
(***************************************************************************)
EXTENDS StoreCustody, TLAPS

\* One process at most creates the store; one at most rotates its key.
OneFounder == \A p, q \in Founders : p = q
OneRotator == \A p, q \in Rotators : p = q

\* The candidates of a record of one key, and of two.
LEMMA Candidates ==
    /\ ToSet(<<>>) = {}
    /\ \A k : ToSet(<<k>>) = {k}
    /\ \A k, l : ToSet(<<k, l>>) = {k, l}
  BY DEF ToSet

\* What a process has in hand where it is.
Holding(p) ==
    /\ pc[p] = "loaded" => handle[p].candidates # <<>>
    /\ pc[p] \in Opening \cup Rotating \cup {"open"} => handle[p].key \in DrawnKeys
    /\ pc[p] \in Rotating => handle[p].next \in DrawnKeys

Typed == TypeOK /\ \A p \in Procs : Holding(p)

\* Every step keeps the types and what a process holds.
LEMMA CustodyTyped == Spec => []Typed
<1> USE DEF KeyOrNone, Places, Opening, Rotating, SchemaVersion
<1>1. Init => Typed
  BY DEF Init, Typed, Holding, TypeOK, NoHandle, HandleType, Records
<1>2. Typed /\ [Next]_vars => Typed'
  <2> SUFFICES ASSUME Typed, [Next]_vars PROVE Typed'
    OBVIOUS
  <2>0. NoHandle \in HandleType
    BY DEF NoHandle, HandleType, Records
  <2>. USE DEF Typed, TypeOK, Holding, Goto, Hold, Drop, disk
  <2>1. ASSUME NEW p \in Procs, LookUp(p) PROVE Typed'
    <3>1. record \in Records /\ [NoHandle EXCEPT !.candidates = record] \in HandleType
      BY <2>0 DEF NoHandle, HandleType
    <3>2. [NoHandle EXCEPT !.candidates = record].candidates = record
      BY DEF NoHandle
    <3>3. CASE record = <<>>
      BY <2>1, <3>3 DEF LookUp
    <3>4. CASE record # <<>>
      BY <2>1, <3>1, <3>2, <3>4 DEF LookUp
    <3>5. QED
      BY <3>3, <3>4
  <2>2. ASSUME NEW p \in Procs, Provision(p) PROVE Typed'
    <3>1. PICK k \in DrawnKeys \ drawn :
            /\ drawn' = drawn \cup {k}
            /\ record' = <<k>>
            /\ IF KeyFile
               THEN Goto(p, "loaded") /\ Hold(p, [NoHandle EXCEPT !.candidates = <<k>>])
               ELSE Goto(p, "closed") /\ UNCHANGED handle
      BY <2>2 DEF Provision
    <3>2. <<k>> \in Records /\ <<k>> # <<>>
      BY DEF Records
    <3>3. [NoHandle EXCEPT !.candidates = <<k>>] \in HandleType
      BY <2>0, <3>2 DEF NoHandle, HandleType
    <3>4. CASE KeyFile
      <4>1. [NoHandle EXCEPT !.candidates = <<k>>].candidates = <<k>>
        BY DEF NoHandle
      <4>2. QED
        BY <2>2, <3>1, <3>2, <3>3, <3>4, <4>1 DEF Provision
    <3>5. CASE ~KeyFile
      BY <2>2, <3>1, <3>2, <3>5 DEF Provision
    <3>6. QED
      BY <3>4, <3>5
  <2>3. ASSUME NEW p \in Procs, Attach(p) PROVE Typed'
    <3>1. dbKey' \in DrawnKeys
      <4>1. /\ handle[p].candidates \in Records /\ handle[p].candidates # <<>>
            /\ dbKey' = handle[p].candidates[1] \/ (dbKey # NoKey /\ dbKey' = dbKey)
              \/ (dbKey \in ToSet(handle[p].candidates) /\ dbKey' = dbKey)
        BY <2>3 DEF Attach, HandleType
      <4>2. /\ handle[p].candidates[1] \in DrawnKeys
            /\ \A k \in ToSet(handle[p].candidates) : k \in DrawnKeys
        BY <4>1 DEF Records, ToSet
      <4>3. QED
        BY <4>1, <4>2
    <3>2. /\ handle' = [handle EXCEPT ![p] = [handle[p] EXCEPT !.codec = dbKey',
                                                               !.key = dbKey']]
          /\ pc' = [pc EXCEPT ![p] = "attached"]
          /\ UNCHANGED <<record, drawn, schema, blobKey>>
      BY <2>3 DEF Attach
    <3>3. [handle[p] EXCEPT !.codec = dbKey', !.key = dbKey'] \in HandleType
      BY <3>1 DEF HandleType
    <3>4. TypeOK'
      BY <3>1, <3>2, <3>3
    <3>5. \A q \in Procs : Holding(q)'
      BY <3>1, <3>2, <3>3 DEF HandleType
    <3>6. QED
      BY <3>4, <3>5
  <2>4. ASSUME NEW p \in Procs, AttachFails(p) \/ MigrateFails(p) \/ CreateFails(p)
                               \/ Unreadable(p) \/ Crash(p)
        PROVE Typed'
    BY <2>0, <2>4 DEF AttachFails, MigrateFails, CreateFails, Unreadable, Crash
  <2>5. ASSUME NEW p \in Procs, ReadVersion(p) PROVE Typed'
    BY <2>5 DEF ReadVersion, HandleType
  <2>6. ASSUME NEW p \in Procs, MigrateStep(p) PROVE Typed'
    <3> DEFINE target == handle[p].seen + 1
    <3>1. /\ handle[p] \in HandleType /\ pc' = pc
          /\ target <= 3
          /\ schema' = Migrated(target)
          /\ handle' = [handle EXCEPT ![p] = [handle[p] EXCEPT !.seen = target]]
          /\ UNCHANGED <<record, drawn, dbKey, blobKey>>
      BY <2>6 DEF MigrateStep
    <3>2. target \in 1..3
      BY <3>1 DEF HandleType
    <3>3. [handle[p] EXCEPT !.seen = target] \in HandleType
      BY <3>1, <3>2 DEF HandleType
    <3>4. Migrated(target) \in [version : 0..3, level : 0..3]
      BY <3>2 DEF Migrated
    <3>5. \A q \in Procs : handle'[q].candidates = handle[q].candidates
                          /\ handle'[q].key = handle[q].key /\ handle'[q].next = handle[q].next
      BY <3>1 DEF HandleType
    <3>6. TypeOK'
      BY <3>1, <3>3, <3>4
    <3>7. QED
      BY <3>1, <3>5, <3>6
  <2>7. ASSUME NEW p \in Procs, LoadBlobKey(p) PROVE Typed'
    <3>1. [handle[p] EXCEPT !.blob = blobKey] \in HandleType
      BY DEF HandleType
    <3>2. /\ pc[p] = "migrating" /\ pc' = [pc EXCEPT ![p] = IF blobKey = NoKey THEN "keying" ELSE "open"]
          /\ handle' = handle
             \/ handle' = [handle EXCEPT ![p] = [handle[p] EXCEPT !.blob = blobKey]]
          /\ UNCHANGED disk
      BY <2>7 DEF LoadBlobKey
    <3>3. \A q \in Procs : handle'[q].candidates = handle[q].candidates
                          /\ handle'[q].key = handle[q].key /\ handle'[q].next = handle[q].next
      BY <3>2 DEF HandleType
    <3>4. TypeOK'
      BY <3>1, <3>2
    <3>5. QED
      BY <3>2, <3>3, <3>4
  <2>8. ASSUME NEW p \in Procs, CreateBlobKey(p) PROVE Typed'
    BY <2>8 DEF CreateBlobKey, HandleType
  <2>9. ASSUME NEW p \in Procs, Stage(p) PROVE Typed'
    <3>1. PICK k \in DrawnKeys \ drawn :
            /\ drawn' = drawn \cup {k}
            /\ record' = <<handle[p].key, k>>
            /\ Hold(p, [handle[p] EXCEPT !.next = k])
      BY <2>9 DEF Stage, Staged
    <3>2. <<handle[p].key, k>> \in Records
      BY <2>9 DEF Stage, Records
    <3>3. QED
      BY <2>9, <3>1, <3>2 DEF Stage, HandleType
  <2>10. ASSUME NEW p \in Procs, Detach(p) \/ Verify(p) PROVE Typed'
    BY <2>10 DEF Detach, Verify
  <2>11. ASSUME NEW p \in Procs, Rekey(p) PROVE Typed'
    BY <2>11 DEF Rekey, HandleType
  <2>12. ASSUME NEW p \in Procs, Promote(p) PROVE Typed'
    <3>1. <<handle[p].next>> \in Records
      BY <2>12 DEF Promote, Records
    <3> DEFINE h == [handle[p] EXCEPT !.key = handle[p].next, !.next = NoKey]
    <3>2. /\ handle' = [handle EXCEPT ![p] = h]
          /\ pc' = [pc EXCEPT ![p] = "open"] /\ pc[p] = "verified"
          /\ record' = <<handle[p].next>>
          /\ UNCHANGED <<drawn, dbKey, schema, blobKey>>
      BY <2>12 DEF Promote
    <3>3. h \in HandleType /\ h.key = handle[p].next
      BY <3>2 DEF HandleType
    <3>4. TypeOK'
      BY <3>1, <3>2, <3>3
    <3>5. Holding(p)'
      BY <3>2, <3>3
    <3>6. \A q \in Procs : q # p => Holding(q)'
      BY <3>2
    <3>7. QED
      BY <3>4, <3>5, <3>6
  <2>13. ASSUME NEW p \in Procs, RotateFails(p) PROVE Typed'
    <3>1. CASE Reopens
      BY <2>0, <2>13, <3>1 DEF RotateFails
    <3>2. CASE ~Reopens
      <4>1. [handle[p] EXCEPT !.next = NoKey] \in HandleType
        BY DEF HandleType
      <4>2. [handle[p] EXCEPT !.next = NoKey].key = handle[p].key
        BY DEF HandleType
      <4>3. /\ handle' = [handle EXCEPT ![p] = [handle[p] EXCEPT !.next = NoKey]]
            /\ pc' = [pc EXCEPT ![p] = "open"] /\ pc[p] \in Rotating
            /\ UNCHANGED disk
        BY <2>13, <3>2 DEF RotateFails
      <4>4. TypeOK'
        BY <4>1, <4>3
      <4>5. Holding(p)'
        BY <4>2, <4>3
      <4>6. \A q \in Procs : q # p => Holding(q)'
        BY <4>3
      <4>7. QED
        BY <4>4, <4>5, <4>6
    <3>3. QED
      BY <3>1, <3>2
  <2>14. CASE UNCHANGED vars
    BY <2>14 DEF vars
  <2>15. QED
    BY <2>1, <2>2, <2>3, <2>4, <2>5, <2>6, <2>7, <2>8, <2>9, <2>10, <2>11, <2>12,
       <2>13, <2>14 DEF Next
<1>3. QED
  BY <1>1, <1>2, PTL DEF Spec

\* Every variable keeps its type: whatever fails, the record names at most two.
THEOREM CustodyTypes == Spec => []TypeOK
<1>1. Typed => TypeOK
  BY DEF Typed
<1>2. QED
  BY <1>1, CustodyTyped, PTL

-----------------------------------------------------------------------------
(* The blob key.                                                           *)

\* An open handle has the blob key of the store.
BlobHeld ==
    \A p \in Procs :
        pc[p] \in {"open"} \cup Rotating => handle[p].blob = blobKey /\ blobKey # NoKey

\* Every step keeps BlobHeld, and none changes a blob key there is.
LEMMA BlobStep ==
    ASSUME Typed, BlobHeld, [Next]_vars
    PROVE  BlobHeld' /\ (blobKey # NoKey => blobKey' = blobKey)
<1>. USE DEF Typed, TypeOK, BlobHeld, Goto, Hold, Drop, disk, Rotating, Opening
<1>1. ASSUME NEW p \in Procs, UNCHANGED disk, Drop(p)
      PROVE  BlobHeld'
  BY <1>1
<1>2. ASSUME NEW p \in Procs,
             \/ LookUp(p) \/ AttachFails(p) \/ ReadVersion(p) \/ MigrateFails(p)
             \/ CreateFails(p) \/ Unreadable(p) \/ Detach(p) \/ Verify(p) \/ Crash(p)
      PROVE  BlobHeld' /\ blobKey' = blobKey
  BY <1>1, <1>2 DEF LookUp, AttachFails, ReadVersion, MigrateFails, CreateFails,
                    Unreadable, Detach, Verify, Crash
<1>3. ASSUME NEW p \in Procs, Provision(p) \/ Attach(p) \/ MigrateStep(p)
      PROVE  BlobHeld' /\ blobKey' = blobKey
  <2>1. CASE Provision(p)
    <3>1. /\ blobKey' = blobKey
          /\ \A q \in Procs : q # p => pc'[q] = pc[q] /\ handle'[q] = handle[q]
          /\ pc'[p] \in {"loaded", "closed"}
      BY <2>1 DEF Provision
    <3>2. QED
      BY <3>1
  <2>2. CASE Attach(p)
    BY <2>2 DEF Attach
  <2>3. CASE MigrateStep(p)
    BY <2>3 DEF MigrateStep
  <2>4. QED
    BY <1>3, <2>1, <2>2, <2>3
<1>4. ASSUME NEW p \in Procs, LoadBlobKey(p)
      PROVE  BlobHeld' /\ blobKey' = blobKey
  <2>1. [handle[p] EXCEPT !.blob = blobKey].blob = blobKey
    BY DEF HandleType
  <2>2. QED
    BY <1>4, <2>1 DEF LoadBlobKey
<1>5. ASSUME NEW p \in Procs, CreateBlobKey(p)
      PROVE  BlobHeld' /\ blobKey = NoKey
  <2>1. PICK k \in DrawnKeys \ drawn :
          /\ blobKey' = k
          /\ Hold(p, [handle[p] EXCEPT !.blob = k])
    BY <1>5 DEF CreateBlobKey
  <2>2. [handle[p] EXCEPT !.blob = k].blob = k /\ k # NoKey
    BY CustodyAssumption DEF HandleType
  <2>3. blobKey = NoKey /\ pc' = [pc EXCEPT ![p] = "open"]
    BY <1>5 DEF CreateBlobKey
  <2>4. \A q \in Procs : q # p => pc[q] \notin {"open"} \cup Rotating
    BY <2>3
  <2>5. QED
    BY <2>1, <2>2, <2>3, <2>4
<1>6. ASSUME NEW p \in Procs, Stage(p) \/ Rekey(p) \/ Promote(p) \/ RotateFails(p)
      PROVE  BlobHeld' /\ blobKey' = blobKey
  <2>1. CASE RotateFails(p) /\ Reopens
    BY <1>1, <2>1 DEF RotateFails
  <2>2. CASE Stage(p) \/ Rekey(p) \/ Promote(p) \/ (RotateFails(p) /\ ~Reopens)
    <3>1. /\ blobKey' = blobKey
          /\ pc[p] \in {"open"} \cup Rotating
          /\ \E k \in KeyOrNone :
                \/ handle' = [handle EXCEPT ![p] = [handle[p] EXCEPT !.next = k]]
                \/ handle' = [handle EXCEPT ![p] = [handle[p] EXCEPT !.codec = k]]
                \/ handle' = [handle EXCEPT ![p] = [handle[p] EXCEPT !.key = k, !.next = NoKey]]
          /\ \A q \in Procs : q # p => pc'[q] = pc[q]
      <4>1. CASE Stage(p)
        BY <4>1 DEF Stage, KeyOrNone
      <4>2. CASE Rekey(p)
        BY <4>2 DEF Rekey, HandleType
      <4>3. CASE Promote(p)
        BY <4>3 DEF Promote, HandleType
      <4>4. CASE RotateFails(p) /\ ~Reopens
        BY <4>4 DEF RotateFails, KeyOrNone
      <4>5. QED
        BY <2>2, <4>1, <4>2, <4>3, <4>4
    <3>2. handle'[p].blob = handle[p].blob /\ \A q \in Procs : q # p => handle'[q] = handle[q]
      BY <3>1 DEF HandleType
    <3>3. QED
      BY <3>1, <3>2
  <2>3. QED
    BY <1>6, <2>1, <2>2
<1>7. CASE UNCHANGED vars
  BY <1>7 DEF vars
<1>8. QED
  BY <1>2, <1>3, <1>4, <1>5, <1>6, <1>7 DEF Next

\* One blob key for the life of the store, whoever creates, opens and rotates.
THEOREM BlobKeyIsPermanent == Spec => BlobKeyPermanent
<1>1. Init => BlobHeld
  BY DEF Init, BlobHeld, Rotating
<1>2. Typed /\ BlobHeld /\ [Next]_vars => BlobHeld'
  BY BlobStep
<1>3. Typed /\ BlobHeld /\ [Next]_vars => [blobKey # NoKey => blobKey' = blobKey]_blobKey
  BY BlobStep
<1>4. BlobHeld => \A p \in Procs : pc[p] \in {"open"} \cup Rotating => handle[p].blob = blobKey
  BY DEF BlobHeld
<1>5. QED
  BY <1>1, <1>2, <1>3, <1>4, CustodyTyped, PTL DEF Spec, BlobKeyPermanent

-----------------------------------------------------------------------------
(* The schema.                                                             *)

\* The inductive form of SchemaCurrent: only the founder can still be at
\* version 0, and nobody has seen a version the file does not have yet.
SchemaSafe ==
    /\ schema.version = schema.level
    /\ schema.version = 0 => \A p \in Procs : pc[p] # "closed" => p \in Founders
    /\ \A p \in Procs :
        /\ pc[p] \in {"migrating", "keying"} => handle[p].seen <= schema.version
        /\ pc[p] = "migrating" /\ handle[p].seen = 0 => schema.version = 0
        /\ pc[p] \in {"keying", "open"} \cup Rotating => schema.version = SchemaVersion

\* Every step keeps SchemaSafe: no process migrates from a version the file
\* has left behind.
LEMMA SchemaStep ==
    ASSUME OneFounder, Typed, SchemaSafe, [Next]_vars
    PROVE  SchemaSafe'
<1>. USE DEF Typed, TypeOK, SchemaSafe, Goto, Hold, Drop, disk, Rotating, Opening,
             SchemaVersion
<1>1. ASSUME NEW p \in Procs, UNCHANGED schema, Drop(p)
      PROVE  SchemaSafe'
  BY <1>1
<1>2. ASSUME NEW p \in Procs,
             AttachFails(p) \/ MigrateFails(p) \/ CreateFails(p) \/ Unreadable(p) \/ Crash(p)
      PROVE  SchemaSafe'
  BY <1>1, <1>2 DEF AttachFails, MigrateFails, CreateFails, Unreadable, Crash
<1>3. ASSUME NEW p \in Procs, LookUp(p)
      PROVE  SchemaSafe'
  BY <1>3 DEF LookUp
<1>4. ASSUME NEW p \in Procs, Provision(p) \/ Attach(p)
      PROVE  SchemaSafe'
  <2>1. /\ schema' = schema /\ pc[p] # "closed"
        /\ pc'[p] \in {"loaded", "closed", "attached"}
        /\ \A q \in Procs : q # p => pc'[q] = pc[q] /\ handle'[q] = handle[q]
    BY <1>4 DEF Provision, Attach
  <2>2. QED
    BY <2>1
<1>5. ASSUME NEW p \in Procs, ReadVersion(p)
      PROVE  SchemaSafe'
  <2>1. [handle[p] EXCEPT !.seen = schema.version].seen = schema.version
    BY DEF HandleType
  <2>2. QED
    BY <1>5, <2>1 DEF ReadVersion
<1>6. ASSUME NEW p \in Procs, MigrateStep(p)
      PROVE  SchemaSafe'
  <2> DEFINE target == handle[p].seen + 1
  <2>1. /\ target <= 3 /\ pc[p] = "migrating" /\ pc' = pc
        /\ ~(target > 1 /\ schema.level >= target)
        /\ schema' = Migrated(target)
        /\ handle' = [handle EXCEPT ![p] = [handle[p] EXCEPT !.seen = target]]
    BY <1>6 DEF MigrateStep, Duplicates
  <2>2. /\ target \in 1..3 /\ handle[p].seen \in 0..3
        /\ schema.version \in 0..3 /\ schema.level = schema.version
    BY <2>1 DEF HandleType
  <2>3. schema.version < target
    <3>1. CASE handle[p].seen = 0
      BY <2>1, <2>2, <3>1
    <3>2. CASE handle[p].seen # 0
      <4>1. target > 1
        BY <2>2, <3>2
      <4>2. ~(schema.version >= target)
        BY <2>1, <2>2, <4>1
      <4>3. QED
        BY <2>2, <4>2
    <3>3. QED
      BY <3>1, <3>2
  <2>4. schema'.version = target /\ schema'.level = target
    BY <2>1, <2>2, <2>3 DEF Migrated
  <2>5. handle'[p].seen = target /\ \A q \in Procs : q # p => handle'[q] = handle[q]
    BY <2>1 DEF HandleType
  <2>6. \A q \in Procs : handle[q].seen \in 0..3
    BY DEF HandleType
  <2>7. ASSUME NEW q \in Procs, q # p
        PROVE ~(pc[q] = "migrating" /\ handle[q].seen = 0)
    BY <2>1, <2>7 DEF OneFounder
  <2>8. ASSUME NEW q \in Procs
        PROVE  /\ pc[q] \in {"migrating", "keying"} => handle'[q].seen <= schema'.version
               /\ pc[q] = "migrating" => handle'[q].seen # 0
               /\ pc[q] \in {"keying", "open"} \cup Rotating => schema'.version = 3
    BY <2>1, <2>2, <2>3, <2>4, <2>5, <2>6, <2>7
  <2>9. QED
    BY <2>1, <2>2, <2>4, <2>8
<1>7. ASSUME NEW p \in Procs, LoadBlobKey(p)
      PROVE  SchemaSafe'
  <2>1. schema.version = 3
    BY <1>7 DEF LoadBlobKey
  <2>2. /\ schema' = schema /\ pc'[p] \in {"keying", "open"}
        /\ pc'[p] = "keying" => handle'[p] = handle[p]
        /\ \A q \in Procs : q # p => pc'[q] = pc[q] /\ handle'[q] = handle[q]
    BY <1>7 DEF LoadBlobKey
  <2>3. QED
    BY <1>7, <2>1, <2>2 DEF LoadBlobKey
<1>8. ASSUME NEW p \in Procs,
             \/ CreateBlobKey(p) \/ Stage(p) \/ Detach(p) \/ Rekey(p) \/ Verify(p)
             \/ Promote(p) \/ RotateFails(p)
      PROVE  SchemaSafe'
  <2>1. /\ schema' = schema
        /\ pc[p] \in {"keying", "open"} \cup Rotating
        /\ pc'[p] \in {"open", "closed"} \cup Rotating
        /\ \A q \in Procs : q # p => pc'[q] = pc[q] /\ handle'[q] = handle[q]
    BY <1>8 DEF CreateBlobKey, Stage, Detach, Rekey, Verify, Promote, RotateFails
  <2>2. QED
    BY <2>1
<1>9. CASE UNCHANGED vars
  BY <1>9 DEF vars
<1>10. QED
  BY <1>2, <1>3, <1>4, <1>5, <1>6, <1>7, <1>8, <1>9 DEF Next

\* With one process creating the store, an open store is at the current
\* schema, and no file is marked for a schema it does not have.
THEOREM OneFounderKeepsSchema == OneFounder => (Spec => []SchemaCurrent)
<1> SUFFICES ASSUME OneFounder PROVE Spec => []SchemaCurrent
  OBVIOUS
<1>1. Init => SchemaSafe
  BY DEF Init, SchemaSafe, Rotating
<1>2. Typed /\ SchemaSafe /\ [Next]_vars => SchemaSafe'
  BY SchemaStep
<1>3. SchemaSafe => SchemaCurrent
  BY DEF SchemaSafe, SchemaCurrent
<1>4. QED
  BY <1>1, <1>2, <1>3, CustodyTyped, PTL DEF Spec

-----------------------------------------------------------------------------
(* The database key.                                                       *)

\* Where the one rotator is, its key, the record and the file agree.
RotatorHolds(p) ==
    /\ pc[p] \in Opening \cup {"open"} => handle[p].key = dbKey
    /\ pc[p] \in {"staged", "detached"} =>
          /\ handle[p].key = dbKey
          /\ record = <<dbKey, handle[p].next>>
    /\ pc[p] \in {"rekeyed", "verified"} =>
          /\ handle[p].next = dbKey
          /\ record = <<handle[p].key, dbKey>>

\* The inductive form of KeyRecoverable.
KeySafe ==
    /\ KeyRecoverable
    /\ schema.version > 0 => dbKey # NoKey
    /\ \A p \in Procs :
        /\ pc[p] = "provisioning" => p \in Founders /\ record = <<>>
        /\ record = <<>> => pc[p] \in {"closed", "provisioning"}
        /\ dbKey = NoKey => pc[p] \in {"closed", "provisioning", "loaded"}
        /\ pc[p] = "loaded" /\ dbKey = NoKey => handle[p].candidates = record
        /\ pc[p] \in Rotating => p \in Rotators
        /\ p \in Rotators => RotatorHolds(p)

\* Every step of every process keeps KeySafe.
LEMMA KeyStep ==
    ASSUME OneFounder, OneRotator, Reopens, Typed, KeySafe, [Next]_vars
    PROVE  KeySafe'
<1>. USE DEF Typed, TypeOK, KeySafe, RotatorHolds, KeyRecoverable, Goto, Hold, Drop, disk,
             Rotating, Opening, SchemaVersion
<1>1. ASSUME NEW p \in Procs, UNCHANGED <<record, dbKey, schema>>, Drop(p)
      PROVE  KeySafe'
  BY <1>1
<1>2. ASSUME NEW p \in Procs,
             \/ AttachFails(p) \/ MigrateFails(p) \/ CreateFails(p) \/ Unreadable(p)
             \/ RotateFails(p) \/ Crash(p)
      PROVE  KeySafe'
  BY <1>1, <1>2 DEF AttachFails, MigrateFails, CreateFails, Unreadable, RotateFails, Crash
<1>3. ASSUME NEW p \in Procs, LookUp(p)
      PROVE  KeySafe'
  <2>1. CASE record = <<>>
    <3>1. p \in Founders
      BY <1>3, <2>1, Candidates DEF LookUp
    <3>2. QED
      BY <1>3, <2>1, <3>1 DEF LookUp
  <2>2. CASE record # <<>>
    <3>1. [NoHandle EXCEPT !.candidates = record].candidates = record
      BY DEF NoHandle
    <3>2. QED
      BY <1>3, <2>2, <3>1 DEF LookUp
  <2>3. QED
    BY <2>1, <2>2
<1>4. ASSUME NEW p \in Procs, Provision(p)
      PROVE  KeySafe'
  <2>1. PICK k \in DrawnKeys \ drawn :
          /\ record' = <<k>>
          /\ IF KeyFile
             THEN Goto(p, "loaded") /\ Hold(p, [NoHandle EXCEPT !.candidates = <<k>>])
             ELSE Goto(p, "closed") /\ UNCHANGED handle
    BY <1>4 DEF Provision
  <2>2. record = <<>> /\ p \in Founders /\ pc[p] = "provisioning"
    BY <1>4 DEF Provision
  <2>3. dbKey = NoKey
    BY <2>2, Candidates
  <2>4. \A q \in Procs : q # p => pc[q] = "closed"
    BY <2>2 DEF OneFounder
  <2>5. [NoHandle EXCEPT !.candidates = <<k>>].candidates = <<k>>
    BY DEF NoHandle
  <2>6. <<k>> # <<>>
    OBVIOUS
  <2>7. /\ pc'[p] \in {"loaded", "closed"}
        /\ pc'[p] = "loaded" => handle'[p].candidates = <<k>>
        /\ \A q \in Procs : q # p => pc'[q] = "closed"
    BY <2>1, <2>4, <2>5
  <2>8. UNCHANGED <<dbKey, schema>>
    BY <1>4 DEF Provision
  <2>9. QED
    BY <2>1, <2>3, <2>6, <2>7, <2>8
<1>5. ASSUME NEW p \in Procs, Attach(p)
      PROVE  KeySafe'
  <2>1. /\ pc[p] = "loaded"
        /\ \/ dbKey = NoKey /\ dbKey' = handle[p].candidates[1]
           \/ dbKey \in ToSet(handle[p].candidates) /\ dbKey' = dbKey
        /\ pc' = [pc EXCEPT ![p] = "attached"]
        /\ handle' = [handle EXCEPT ![p] = [handle[p] EXCEPT !.codec = dbKey', !.key = dbKey']]
        /\ UNCHANGED <<record, drawn, schema, blobKey>>
    BY <1>5 DEF Attach
  <2>2. handle'[p].key = dbKey' /\ \A q \in Procs : q # p => handle'[q] = handle[q]
    BY <2>1 DEF HandleType
  <2>3. handle[p].candidates # <<>> /\ handle[p].candidates \in Records /\ record # <<>>
    BY <2>1 DEF Holding, HandleType
  <2>4. CASE dbKey = NoKey /\ dbKey' = handle[p].candidates[1]
    <3>1. handle[p].candidates = record
      BY <2>1, <2>4
    <3>2. dbKey' \in ToSet(record) /\ dbKey' \in DrawnKeys
      BY <2>3, <2>4, <3>1 DEF Records, ToSet
    <3>3. dbKey' # NoKey
      BY <3>2, CustodyAssumption
    <3>4. QED
      BY <2>1, <2>2, <2>3, <2>4, <3>2, <3>3
  <2>5. CASE dbKey \in ToSet(handle[p].candidates) /\ dbKey' = dbKey
    <3>1. dbKey \in DrawnKeys
      BY <2>3, <2>5 DEF Records, ToSet
    <3>2. dbKey # NoKey
      BY <3>1, CustodyAssumption
    <3>3. QED
      BY <2>1, <2>2, <2>3, <2>5, <3>2
  <2>6. QED
    BY <2>1, <2>4, <2>5
<1>6. ASSUME NEW p \in Procs,
             ReadVersion(p) \/ MigrateStep(p) \/ LoadBlobKey(p) \/ CreateBlobKey(p)
      PROVE  KeySafe'
  <2>1. /\ UNCHANGED <<record, dbKey>> /\ dbKey # NoKey
        /\ pc[p] \in Opening /\ pc'[p] \in Opening \cup {"open"}
        /\ \A q \in Procs : q # p => pc'[q] = pc[q] /\ handle'[q] = handle[q]
    BY <1>6 DEF ReadVersion, MigrateStep, LoadBlobKey, CreateBlobKey
  <2>2. handle'[p].key = handle[p].key
    BY <1>6 DEF ReadVersion, MigrateStep, LoadBlobKey, CreateBlobKey, HandleType
  <2>3. QED
    BY <2>1, <2>2
<1>7. ASSUME NEW p \in Procs, Stage(p)
      PROVE  KeySafe'
  <2>1. PICK k \in DrawnKeys \ drawn :
          /\ record' = <<handle[p].key, k>>
          /\ handle' = [handle EXCEPT ![p] = [handle[p] EXCEPT !.next = k]]
    BY <1>7 DEF Stage, Staged
  <2>2. /\ pc[p] = "open" /\ p \in Rotators /\ pc' = [pc EXCEPT ![p] = "staged"]
        /\ UNCHANGED <<dbKey, schema>>
    BY <1>7 DEF Stage
  <2>3. /\ handle'[p].key = handle[p].key /\ handle'[p].next = k
        /\ \A q \in Procs : q # p => handle'[q] = handle[q]
    BY <2>1 DEF HandleType
  <2>4. handle[p].key = dbKey /\ dbKey # NoKey /\ record # <<>>
    BY <2>2
  <2>5. record' # <<>> /\ dbKey \in ToSet(record')
    BY <2>1, <2>4, Candidates
  <2>6. \A q \in Procs : q \in Rotators => q = p
    BY <2>2 DEF OneRotator
  <2>7. \A q \in Procs : pc[q] # "provisioning"
    BY <2>4
  <2>8. QED
    BY <2>1, <2>2, <2>3, <2>4, <2>5, <2>6, <2>7
<1>8. ASSUME NEW p \in Procs, Detach(p) \/ Verify(p)
      PROVE  KeySafe'
  BY <1>8 DEF Detach, Verify
<1>9. ASSUME NEW p \in Procs, Rekey(p)
      PROVE  KeySafe'
  <2>1. /\ pc[p] = "detached" /\ p \in Rotators /\ pc' = [pc EXCEPT ![p] = "rekeyed"]
        /\ dbKey' = handle[p].next
        /\ handle' = [handle EXCEPT ![p] = [handle[p] EXCEPT !.codec = handle[p].next]]
        /\ UNCHANGED <<record, schema>>
    BY <1>9 DEF Rekey
  <2>2. /\ handle'[p].key = handle[p].key /\ handle'[p].next = handle[p].next
        /\ \A q \in Procs : q # p => handle'[q] = handle[q]
    BY <2>1 DEF HandleType
  <2>3. handle[p].next \in DrawnKeys /\ record = <<handle[p].key, handle[p].next>>
    BY <2>1 DEF Holding
  <2>4. dbKey' # NoKey /\ dbKey' \in ToSet(record) /\ dbKey # NoKey
    BY <2>1, <2>3, Candidates, CustodyAssumption
  <2>5. \A q \in Procs : q \in Rotators => q = p
    BY <2>1 DEF OneRotator
  <2>6. QED
    BY <2>1, <2>2, <2>3, <2>4, <2>5
<1>10. ASSUME NEW p \in Procs, Promote(p)
      PROVE  KeySafe'
  <2>1. /\ pc[p] = "verified" /\ p \in Rotators /\ pc' = [pc EXCEPT ![p] = "open"]
        /\ record' = <<handle[p].next>>
        /\ handle' = [handle EXCEPT ![p] = [handle[p] EXCEPT !.key = handle[p].next,
                                                             !.next = NoKey]]
        /\ UNCHANGED <<dbKey, schema>>
    BY <1>10 DEF Promote
  <2>2. /\ handle'[p].key = handle[p].next
        /\ \A q \in Procs : q # p => handle'[q] = handle[q]
    BY <2>1 DEF HandleType
  <2>3. handle[p].next = dbKey /\ dbKey # NoKey /\ record # <<>>
    BY <2>1
  <2>4. record' # <<>> /\ dbKey \in ToSet(record')
    BY <2>1, <2>3, Candidates
  <2>5. \A q \in Procs : q \in Rotators => q = p
    BY <2>1 DEF OneRotator
  <2>6. \A q \in Procs : pc[q] # "provisioning"
    BY <2>3
  <2>7. QED
    BY <2>1, <2>2, <2>3, <2>4, <2>5, <2>6
<1>11. CASE UNCHANGED vars
  BY <1>11 DEF vars
<1>12. QED
  BY <1>2, <1>3, <1>4, <1>5, <1>6, <1>7, <1>8, <1>9, <1>10, <1>11 DEF Next

\* Whatever crashes or fails, and at whatever step, the custodian keeps the
\* key of the file, provided a caller drops its handle after a failed
\* rotation, and one process at most creates, and one rotates.
THEOREM KeyIsRecoverable ==
    OneFounder /\ OneRotator /\ Reopens => (Spec => []KeyRecoverable)
<1> SUFFICES ASSUME OneFounder, OneRotator, Reopens PROVE Spec => []KeyRecoverable
  OBVIOUS
<1>1. Init => KeySafe
  BY DEF Init, KeySafe, KeyRecoverable, RotatorHolds, Rotating, Opening
<1>2. Typed /\ KeySafe /\ [Next]_vars => KeySafe'
  BY KeyStep
<1>3. KeySafe => KeyRecoverable
  BY DEF KeySafe
<1>4. QED
  BY <1>1, <1>2, <1>3, CustodyTyped, PTL DEF Spec
=============================================================================
