--------------------------- MODULE KnowledgeFabric ---------------------------
(***************************************************************************)
(* KnowledgeFabric (crates/context-engine): labelled chunks, the derived   *)
(* indexes of their terms, symbols and key paths, queries that check every *)
(* hit against the chunk, and the bundle a result is exported as.  A label *)
(* that is not complete, or of other content, is refused at once.          *)
(***************************************************************************)
EXTENDS Naturals, FiniteSets

CONSTANTS
    ChunkIds,
    Chunks,         \* [keys, scope, sensitivity, trusted, expires, fields]; a
                    \* field is [class, in_array]; expires 0: never
    Requests,       \* [keys, scope, ceiling, untrusted, limit]
    MaxTime         \* bound: the clock

NoChunk == [keys |-> {}, scope |-> "none", sensitivity |-> 0, trusted |-> FALSE,
            expires |-> 0, fields |-> {}]
NoAnswer == [request |-> [keys |-> {}, scope |-> "none", ceiling |-> 0, untrusted |-> FALSE,
                          limit |-> 0],
             now |-> 0, selected |-> {}, pinned |-> {}]

FabricAssumption ==
    /\ IsFiniteSet(ChunkIds)
    /\ \A c \in Chunks : c.scope # "none" /\ c.sensitivity \in Nat /\ c.expires \in Nat
    /\ \A r \in Requests : r.ceiling \in Nat /\ r.limit \in Nat
    /\ MaxTime \in Nat

ChunkKeys == (UNION {c.keys : c \in Chunks}) \cup (UNION {r.keys : r \in Requests})

VARIABLES
    chunks,         \* ChunkIds -> the chunk
    index,          \* ChunkKeys -> chunk ids: the three channels
    revoked,
    user_excluded,
    clock,
    answer,         \* the last query's: selected is a set of <<id, chunk, redacted>>,
                    \* pinned the ids selected for no key
    readmitted      \* ids admitted over a live chunk (history)

fabric == <<chunks, index, revoked, user_excluded, clock, answer, readmitted>>

FabricInit ==
    /\ chunks = [i \in ChunkIds |-> NoChunk]
    /\ index = [k \in ChunkKeys |-> {}]
    /\ revoked = {} /\ user_excluded = {} /\ readmitted = {}
    /\ clock = 0
    /\ answer = NoAnswer

Live(i) == chunks[i] # NoChunk

Tick ==
    /\ clock < MaxTime
    /\ clock' = clock + 1
    /\ UNCHANGED <<chunks, index, revoked, user_excluded, answer, readmitted>>

\* admit: over a live chunk too, whose keys stay in the indexes.
Admit(i, chunk) ==
    /\ chunks' = [chunks EXCEPT ![i] = chunk]
    /\ index' = [k \in ChunkKeys |-> IF k \in chunk.keys THEN index[k] \cup {i} ELSE index[k]]
    /\ readmitted' = IF Live(i) THEN readmitted \cup {i} ELSE readmitted
    /\ UNCHANGED <<revoked, user_excluded, clock, answer>>

\* Mutant: the keys are taken out for every chunk that has them.
RevokeKeys(i) ==
    /\ Live(i)
    /\ chunks' = [chunks EXCEPT ![i] = NoChunk]
    /\ revoked' = revoked \cup {i}
    /\ index' = [k \in ChunkKeys |-> IF k \in chunks[i].keys THEN {} ELSE index[k]]
    /\ UNCHANGED <<user_excluded, clock, answer, readmitted>>

\* revoke: from the fabric and the indexes of its keys.
Revoke(i) ==
    /\ Live(i)
    /\ chunks' = [chunks EXCEPT ![i] = NoChunk]
    /\ revoked' = revoked \cup {i}
    /\ index' = [k \in ChunkKeys |-> IF k \in chunks[i].keys THEN index[k] \ {i} ELSE index[k]]
    /\ UNCHANGED <<user_excluded, clock, answer, readmitted>>

Exclude(i) ==
    /\ user_excluded' = user_excluded \cup {i}
    /\ UNCHANGED <<chunks, index, revoked, clock, answer, readmitted>>

Derived == [k \in ChunkKeys |-> {i \in ChunkIds : k \in chunks[i].keys}]

RebuildIndexes ==
    /\ index' = Derived
    /\ UNCHANGED <<chunks, revoked, user_excluded, clock, answer, readmitted>>

-----------------------------------------------------------------------------
(* Queries.                                                                *)

\* Without a channel the whole map is scanned.
Hits(request) ==
    IF request.keys = {} THEN ChunkIds ELSE UNION {index[k] : k \in request.keys}

\* Mutant: revocation is left to the indexes.
AdmissibleByIndex(i, request) ==
    /\ Live(i) /\ chunks[i].scope = request.scope
    /\ i \notin user_excluded
    /\ chunks[i].sensitivity <= request.ceiling
    /\ chunks[i].expires = 0 \/ chunks[i].expires > clock
    /\ request.untrusted \/ chunks[i].trusted

Admissible(i, request) ==
    /\ Live(i) /\ chunks[i].scope = request.scope
    /\ i \notin revoked /\ i \notin user_excluded
    /\ chunks[i].sensitivity <= request.ceiling
    /\ chunks[i].expires = 0 \/ chunks[i].expires > clock
    /\ request.untrusted \/ chunks[i].trusted

Reasons(i, request) == request.keys \cap chunks[i].keys

\* redact_path: it walks objects, so a field within an array is not found.
Redacted(i, request) == {f \in chunks[i].fields : f.class > request.ceiling /\ ~f.in_array}

\* Without a reason a chunk counts as pinned: one reason.
Weight(i, request) ==
    IF Reasons(i, request) = {} THEN 1 ELSE Cardinality(Reasons(i, request))

\* Up to the limit, those with the most reasons first; between equals the
\* identifier decides, here any does.
Ranked(candidates, request) ==
    {s \in SUBSET candidates :
        /\ Cardinality(s) =
            IF Cardinality(candidates) < request.limit THEN Cardinality(candidates)
            ELSE request.limit
        /\ \A i \in s, j \in candidates \ s :
            Weight(i, request) >= Weight(j, request)}

Query(request) ==
    /\ \E s \in Ranked({i \in Hits(request) : Admissible(i, request)}, request) :
        answer' = [request |-> request, now |-> clock,
                   selected |-> {<<i, chunks[i], Redacted(i, request)>> : i \in s},
                   pinned |-> {i \in s : Reasons(i, request) = {}}]
    /\ UNCHANGED <<chunks, index, revoked, user_excluded, clock, readmitted>>

FabricNext ==
    \/ Tick \/ RebuildIndexes
    \/ \E i \in ChunkIds :
        Revoke(i) \/ Exclude(i) \/ \E c \in Chunks : Admit(i, c)
    \/ \E r \in Requests : Query(r)

FabricSpec == FabricInit /\ [][FabricNext]_fabric

\* export_bundle: the classes above Confidential count as Confidential, and
\* the fields of a chunk do not count.
Confidential == 2

ExportClass(selected) ==
    LET classes == {0} \cup {IF s[2].sensitivity >= Confidential THEN Confidential
                             ELSE s[2].sensitivity : s \in selected}
    IN  CHOOSE c \in classes : \A o \in classes : o <= c

-----------------------------------------------------------------------------

FabricTypeOK ==
    /\ chunks \in [ChunkIds -> Chunks \cup {NoChunk}]
    /\ index \in [ChunkKeys -> SUBSET ChunkIds]
    /\ revoked \subseteq ChunkIds /\ user_excluded \subseteq ChunkIds
    /\ clock \in 0..MaxTime
    /\ readmitted \subseteq ChunkIds
    /\ answer.request \in Requests \cup {NoAnswer.request}

\* admit, revoke, rebuild and query: whatever became of the indexes, a live
\* chunk is found under each of its keys, an entry of no live chunk's key is
\* left only by a second admission, and what was revoked, now or before, is
\* not answered; an answer to a query of keys has no chunk without one of them
\* unless it was admitted twice.
IndexFindsTheLive ==
    /\ \A k \in ChunkKeys : Derived[k] \subseteq index[k]
    /\ \A k \in ChunkKeys : index[k] \ Derived[k] \subseteq readmitted
    /\ answer.request.keys # {} => answer.pinned \subseteq readmitted

\* query: an answer keeps to its asker's scope, ceiling and moment, and every
\* restricted field outside an array is marked.
AnswerIsPermitted ==
    \A s \in answer.selected :
        /\ s[2].scope = answer.request.scope
        /\ s[2].sensitivity <= answer.request.ceiling
        /\ s[2].expires # 0 => answer.now < s[2].expires
        /\ s[2].trusted \/ answer.request.untrusted
        /\ \A f \in s[2].fields :
            f.class > answer.request.ceiling => f.in_array \/ f \in s[3]

\* query: what was revoked or excluded is never answered again.
GoneForGood ==
    [][answer' # answer =>
        \A s \in answer'.selected : s[1] \notin revoked \cup user_excluded]_fabric

\* "channel queries with zero hits return nothing rather than pinning unrelated
\* content" (fabric.rs).
NothingUnrelated == answer.request.keys # {} => answer.pinned = {}

\* "Maximum member classification" (fabric.rs, ContextBundle).
ExportIsMaximum ==
    \A s \in answer.selected : s[2].sensitivity <= ExportClass(answer.selected)

-----------------------------------------------------------------------------
(***************************************************************************)
(* CaxLibrary (crates/cax): transcripts of other agents imported as        *)
(* records named by their scope and raw bytes, returned as they are when   *)
(* imported again, revoked for good, admitted to a knowledge fabric as     *)
(* untrusted chunks.  A record that does not validate is refused at once,  *)
(* so only what an importer assembled is an input; the same bytes may be   *)
(* imported in either format and from another origin.                      *)
(***************************************************************************)
CONSTANTS
    Raws,           \* raw sources
    Scopes,
    Home,           \* the scope the library is of
    Origins,
    Formats

ExchangeAssumption == Home \in Scopes /\ Home # "none"

Records == [raw : Raws, scope : Scopes, origin : Origins, format : Formats]
NoRecord == [raw |-> "none", scope |-> "none", origin |-> "none", format |-> "none"]

\* record_id_for: of scope and raw digest, not of the format or the origin.
RecordId(record) == <<record.scope, record.raw>>
RecordIds == Scopes \X Raws

VARIABLES
    records,        \* RecordIds -> the live record
    by_raw_digest,  \* Raws -> {} or {the id it is under}
    revoked_records, \* ids with a tombstone
    in_fabric,      \* ids of the records whose chunks the fabric was given
    answered        \* records that imports returned (history)

library == <<records, by_raw_digest, revoked_records, in_fabric, answered>>

ExchangeInit ==
    /\ records = [i \in RecordIds |-> NoRecord]
    /\ by_raw_digest = [r \in Raws |-> {}]
    /\ revoked_records = {} /\ in_fabric = {} /\ answered = {}

LiveRecord(i) == records[i] # NoRecord

\* import of a source that was not, or not under this raw digest.
ImportNew(record) ==
    /\ record.scope = Home
    /\ RecordId(record) \notin revoked_records
    /\ by_raw_digest[record.raw] = {}
    /\ by_raw_digest' = [by_raw_digest EXCEPT ![record.raw] = {RecordId(record)}]
    /\ records' = [records EXCEPT ![RecordId(record)] = record]
    /\ answered' = answered \cup {record}
    /\ UNCHANGED <<revoked_records, in_fabric>>

\* import again: the stored record, whatever format or origin came.
ImportExisting(record) ==
    /\ record.scope = Home
    /\ RecordId(record) \notin revoked_records
    /\ \E i \in by_raw_digest[record.raw] : answered' = answered \cup {records[i]}
    /\ UNCHANGED <<records, by_raw_digest, revoked_records, in_fabric>>

\* Mutant: the raw digest stays in the index.
RevokeRecord(i) ==
    /\ LiveRecord(i)
    /\ records' = [records EXCEPT ![i] = NoRecord]
    /\ revoked_records' = revoked_records \cup {i}
    /\ UNCHANGED <<by_raw_digest, in_fabric, answered>>

\* revoke: the fabric is another's to tell.
RevokeSource(i) ==
    /\ LiveRecord(i)
    /\ records' = [records EXCEPT ![i] = NoRecord]
    /\ by_raw_digest' = [by_raw_digest EXCEPT ![records[i].raw] = {}]
    /\ revoked_records' = revoked_records \cup {i}
    /\ UNCHANGED <<in_fabric, answered>>

\* admit_into_fabric, of any record the caller holds, imported, revoked or
\* neither: every entry becomes an untrusted chunk named by the record and its
\* place in it.
AdmitIntoFabric(record) ==
    /\ in_fabric' = in_fabric \cup {RecordId(record)}
    /\ UNCHANGED <<records, by_raw_digest, revoked_records, answered>>

ExchangeNext ==
    \/ \E record \in Records :
        ImportNew(record) \/ ImportExisting(record) \/ AdmitIntoFabric(record)
    \/ \E i \in RecordIds : RevokeSource(i)

ExchangeSpec == ExchangeInit /\ [][ExchangeNext]_library

-----------------------------------------------------------------------------

ExchangeTypeOK ==
    /\ records \in [RecordIds -> Records \cup {NoRecord}]
    /\ by_raw_digest \in [Raws -> SUBSET RecordIds]
    /\ revoked_records \subseteq RecordIds /\ in_fabric \subseteq RecordIds
    /\ answered \subseteq Records

\* import and revoke: the index of raw digests holds the live records and no
\* others ("raw-digest index is authoritative"), in whatever order sources came
\* and went; what has a tombstone is not live; imports ever answered, of one
\* source, one reading, and it is that which lives or was revoked.
RawIndexIsAuthoritative ==
    /\ \A r \in Raws :
        by_raw_digest[r] = {i \in RecordIds : LiveRecord(i) /\ records[i].raw = r}
    /\ \A i \in RecordIds :
        /\ LiveRecord(i) => RecordId(records[i]) = i /\ i[1] = Home
        /\ i \in revoked_records => ~LiveRecord(i)
    /\ \A a, b \in answered : a.raw = b.raw => a = b
    /\ \A a \in answered : records[RecordId(a)] = a \/ RecordId(a) \in revoked_records

\* ADR-014: "Revoking a source removes its records from every query
\* immediately": the chunks of a revoked source are in no fabric.
RevokedLeavesQueries == in_fabric \cap revoked_records = {}
=============================================================================
