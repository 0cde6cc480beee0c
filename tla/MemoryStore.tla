---------------------------- MODULE MemoryStore ----------------------------
(***************************************************************************)
(* MemoryStore of core/memory/store.py with the vector sidecar of          *)
(* core/memory/vector_index.py: scoped records kept in SQLite, documents   *)
(* kept in versions, and a vector index in memory and in two files.        *)
(*                                                                         *)
(* The store runs on one thread, so its calls do not interleave.  What     *)
(* happens in between is a failure: the embedder is a network service and  *)
(* may raise at any record, and the process may die at any point.  The     *)
(* database is therefore kept twice: db is what the connection reads, its  *)
(* open transaction included, and disk is what was committed.  A record's  *)
(* id is its place in the table; its text is left out, and its embedding   *)
(* is the name of the model that made it (fingerprint).                    *)
(***************************************************************************)
EXTENDS Integers, Sequences, FiniteSets, SequencesExt

CONSTANTS
  Tenants, Projects, \* values of the two scope levels kept
  NoLevel,           \* a scope level that is NULL
  Uris, Contents,    \* sources of documents, and their texts (by hash)
  Models,            \* embedding models
  FirstModel,        \* the one the store is created with
  MaxChunks,         \* bound: chunks of a document
  MaxRecords,        \* bound: records in the table
  MaxFaults,         \* bound: exceptions of the embedder
  MaxCrashes         \* bound: restarts

ASSUME MemoryAssumption ==
  /\ FirstModel \in Models /\ NoLevel \notin Projects
  /\ {MaxChunks, MaxRecords, MaxFaults, MaxCrashes} \subseteq Nat

VARIABLES
  db, disk,    \* the tables: records and documents
  embedder,    \* self.embedder
  index,       \* self.vectors: ids and vectors
  files,       \* memory.faiss and memory.faiss.ids.json
  pc, after,   \* where the store is, and what follows the indexing
  request,     \* the scope of the recall under way, if one is
  faults, crashes

vars == <<db, disk, embedder, index, files, pc, after, request, faults, crashes>>

Scopes == Tenants \X (Projects \cup {NoLevel})

(* _document_id: a digest of the scope and the source. *)
DocumentId(scope, uri) == <<scope, uri>>

NoDocument == <<>>

Record(kind, scope, sup, doc, ver, ord, of) ==
  [kind |-> kind, scope |-> scope, sup |-> sup, doc |-> doc, ver |-> ver,
   ord |-> ord, of |-> of, status |-> "current", model |-> embedder]

NoTables == [recs |-> <<>>, docs |-> <<>>]

Current(d)  == {i \in DOMAIN d.recs : d.recs[i].status = "current"}
Searchable(d) == {i \in Current(d) : d.recs[i].kind \notin {"audit", "policy"}}

(* _scope_where *)
Visible(scope, req) == scope[1] = req[1] /\ scope[2] \in {NoLevel, req[2]}

(* The rows a recall scores when it is not asked for kinds or history. *)
Rows(req) == {i \in Searchable(db) : Visible(db.recs[i].scope, req)}

\* Mutant of Neighbours: the chunks are looked up by source and version.
NeighboursInAnyScope(i, reach) ==
  {j \in Current(db) : /\ db.recs[j].kind = "chunk" /\ db.recs[i].kind = "chunk"
                       /\ db.recs[j].doc[2] = db.recs[i].doc[2]
                       /\ db.recs[j].ord - db.recs[i].ord \in -reach..reach}

(* The chunks around a selected one, expand_neighbors. *)
Neighbours(i, reach) ==
  {j \in Current(db) : /\ db.recs[j].kind = "chunk" /\ db.recs[i].kind = "chunk"
                       /\ db.recs[j].doc = db.recs[i].doc
                       /\ db.recs[j].ver = db.recs[i].ver
                       /\ db.recs[j].ord - db.recs[i].ord \in -reach..reach}

(* What a recall that ranks some rows first returns. *)
Recalled(selected, reach) ==
  selected \cup UNION {Neighbours(i, reach) : i \in selected}

-----------------------------------------------------------------------------
Supersede(d, olds) ==
  [d EXCEPT !.recs = [i \in DOMAIN @ |->
     IF i \in olds THEN [@[i] EXCEPT !.status = "superseded"] ELSE @[i]]]

(* The INSERT of a record and the UPDATE of the one it supersedes. *)
Insert(d, r) ==
  [Supersede(d, {r.sup}) EXCEPT !.recs = Append(@, r)]

(* _append_audit, for the record just inserted. *)
AppendAudit(d) ==
  LET i == Len(d.recs)
  IN  Insert(d, Record("audit", d.recs[i].scope, 0, NoDocument, 0, 0, i))

\* Mutant of MaySupersede: the state of the old record is not looked at.
MaySupersedeAny(r) ==
  r.sup # 0 => /\ r.sup \in DOMAIN db.recs
               /\ db.recs[r.sup].scope = r.scope /\ db.recs[r.sup].kind = r.kind

MaySupersede(r) ==
  r.sup # 0 => /\ r.sup \in DOMAIN db.recs
               /\ db.recs[r.sup].scope = r.scope /\ db.recs[r.sup].kind = r.kind
               /\ db.recs[r.sup].status = "current"

(* _assert_write_allowed *)
Allowed(r, role) == /\ r.kind = "policy" => role \in {"operator", "system"}
                    /\ r.kind # "audit"

NoRequest == <<>>

StartIndexing(then) == pc' = "ensure" /\ after' = then

(* write *)
Write(r, role) ==
  /\ pc = "idle" /\ Len(db.recs) + 2 <= MaxRecords
  /\ Allowed(r, role) /\ MaySupersede(r)
  /\ db' = AppendAudit(Insert(db, r)) /\ disk' = db'
  /\ StartIndexing("idle")
  /\ UNCHANGED <<embedder, index, files, request, faults, crashes>>

(* The embedding of the audit entry fails: write raises between the INSERT *)
(* and the commit, and nothing rolls the transaction back.                 *)
WriteFails(r, role) ==
  /\ pc = "idle" /\ Len(db.recs) + 2 <= MaxRecords /\ faults < MaxFaults
  /\ Allowed(r, role) /\ MaySupersede(r)
  /\ db' = Insert(db, r) /\ faults' = faults + 1
  /\ UNCHANGED <<disk, embedder, index, files, pc, after, request, crashes>>

-----------------------------------------------------------------------------
Active(d, id) == {k \in DOMAIN d.docs : d.docs[k].id = id /\ d.docs[k].state = "active"}

Newest(d, id) == CHOOSE k \in Active(d, id) : TRUE

\* Mutant of Retired: the old version's chunks are left current.
RetiredDocumentOnly(d, id) ==
  [d EXCEPT !.docs = [k \in DOMAIN @ |->
     IF k \in Active(d, id) THEN [@[k] EXCEPT !.state = "superseded"] ELSE @[k]]]

(* The two UPDATEs of ingest_document.  The second one goes by the document*)
(* id in the metadata, which the audit entry of the version has as well.   *)
Retired(d, id) ==
  Supersede([d EXCEPT !.docs = [k \in DOMAIN @ |->
               IF k \in Active(d, id) THEN [@[k] EXCEPT !.state = "superseded"] ELSE @[k]]],
            {i \in Current(d) : d.recs[i].doc = id})

(* The new version: its row, its chunks, and one audit entry. *)
Ingested(d, scope, id, content, n) ==
  LET ver  == IF Active(d, id) = {} THEN 1 ELSE d.docs[Newest(d, id)].ver + 1
      old  == IF Active(d, id) = {} THEN d ELSE Retired(d, id)
      rows == [k \in 1..n |-> Record("chunk", scope, 0, id, ver, k - 1, 0)]
  IN  [recs |-> old.recs \o Append(rows, Record("audit", scope, 0, id, ver, n, 0)),
       docs |-> Append(old.docs, [id |-> id, ver |-> ver, state |-> "active",
                                  content |-> content])]

(* The early return: the active version has this content already. *)
Unchanged(id, content) == \E k \in Active(db, id) : db.docs[k].content = content

Ingest(scope, uri, content, n) ==
  /\ pc = "idle" /\ Len(db.recs) + n + 1 <= MaxRecords
  /\ ~Unchanged(DocumentId(scope, uri), content)
  /\ db' = Ingested(db, scope, DocumentId(scope, uri), content, n) /\ disk' = db'
  /\ StartIndexing("idle")
  /\ UNCHANGED <<embedder, index, files, request, faults, crashes>>

(* An exception inside `with self.db`: everything uncommitted goes, what a *)
(* failed write had left behind included.                                  *)
IngestFails(scope, uri, content) ==
  /\ pc = "idle" /\ faults < MaxFaults
  /\ ~Unchanged(DocumentId(scope, uri), content)
  /\ db' = disk /\ faults' = faults + 1
  /\ UNCHANGED <<disk, embedder, index, files, pc, after, request, crashes>>

-----------------------------------------------------------------------------
(* Ids of the table in its order: the k-th has k - 1 before it. *)
Ordered(S) ==
  [k \in 1..Cardinality(S) |-> CHOOSE i \in S : Cardinality({j \in S : j < i}) = k - 1]

(* The ids of current searchable rows, in table order. *)
Ids(d) == Ordered(Searchable(d))

Stale(i) == db.recs[i].model # embedder

NoIndex == [ids |-> <<>>, vecs |-> <<>>]
NoFile  == <<>>

Agrees == Ids(db) = index.ids

\* Mutant of Written: the ids go first.
WrittenIdsFirst(step, x) ==
  IF step = 2 THEN [files EXCEPT !.vecs = x.vecs] ELSE [files EXCEPT !.ids = x.ids]

(* persist, a file at a time; with nothing to index the files are unlinked *)
(* in the same order, and no file reads as an empty one.                   *)
Written(step, x) ==
  IF step = 1 THEN [files EXCEPT !.vecs = x.vecs] ELSE [files EXCEPT !.ids = x.ids]

(* _ensure_vector_index, rebuild, and the first file of persist. *)
Ensure ==
  /\ pc = "ensure"
  /\ IF Agrees THEN pc' = after /\ UNCHANGED <<index, files>>
     ELSE LET fresh == Ordered({i \in Searchable(db) : ~Stale(i)})
          IN  /\ index' = [ids |-> fresh,
                           vecs |-> [k \in DOMAIN fresh |-> [of |-> fresh[k], model |-> embedder]]]
              /\ files' = Written(1, index')
              /\ pc' = "half"
  /\ UNCHANGED <<db, disk, embedder, after, request, faults, crashes>>

(* The second file. *)
FinishPersist ==
  /\ pc = "half" /\ pc' = after
  /\ files' = Written(2, index)
  /\ UNCHANGED <<db, disk, embedder, index, after, request, faults, crashes>>

ThenSearch == StartIndexing("search")

(* recall, up to the search: with no row to score it has returned. *)
Recall(req) ==
  /\ pc = "idle" /\ Rows(req) # {}
  /\ request' = req /\ ThenSearch
  /\ UNCHANGED <<db, disk, embedder, index, files, faults, crashes>>

Returns == pc' = "idle" /\ after' = "idle" /\ request' = NoRequest

Reembedded(d, rows) ==
  [d EXCEPT !.recs = [i \in DOMAIN @ |-> IF i \in rows THEN [@[i] EXCEPT !.model = embedder] ELSE @[i]]]

(* recall from the search on: rows with an old vector are embedded again,  *)
(* and committed, what else was uncommitted along with them.               *)
Search ==
  /\ pc = "search" /\ Returns
  /\ LET old == {i \in Rows(request) : Stale(i)}
     IN  /\ db' = Reembedded(db, old)
         /\ disk' = IF old = {} THEN disk ELSE db'
  /\ UNCHANGED <<embedder, index, files, faults, crashes>>

(* The embedder raises at one of the stale rows: those before it are       *)
(* changed, uncommitted.  Vectors of another length than the query's raise *)
(* in the search already.                                                  *)
SearchFails ==
  /\ pc = "search" /\ Returns /\ faults < MaxFaults
  /\ \E i \in {j \in Rows(request) : Stale(j)} :
        db' = Reembedded(db, {j \in Rows(request) : j < i})
  /\ faults' = faults + 1
  /\ UNCHANGED <<disk, embedder, index, files, crashes>>

-----------------------------------------------------------------------------
(* The process dies, and the open transaction with it. *)
Crash ==
  /\ pc # "down" /\ crashes < MaxCrashes
  /\ crashes' = crashes + 1 /\ pc' = "down"
  /\ db' = disk /\ index' = NoIndex
  /\ after' = "idle" /\ request' = NoRequest
  /\ UNCHANGED <<disk, embedder, files, faults>>

(* _load *)
Loaded ==
  IF NoFile \in {files.vecs, files.ids} THEN NoIndex
  ELSE [ids |-> files.ids, vecs |-> files.vecs]

(* __init__, perhaps with another embedder than the last time. *)
Open(model) ==
  /\ pc = "down" /\ embedder' = model
  /\ index' = Loaded
  /\ StartIndexing("idle")
  /\ UNCHANGED <<db, disk, files, request, faults, crashes>>

Init ==
  /\ db = NoTables /\ disk = db
  /\ embedder = FirstModel /\ index = NoIndex
  /\ files = [vecs |-> NoFile, ids |-> NoFile]
  /\ pc = "idle" /\ after = "idle" /\ request = NoRequest
  /\ faults = 0 /\ crashes = 0

Next ==
  \/ \E k \in {"fact", "policy"}, s \in Scopes, sup \in 0..Len(db.recs),
        role \in {"agent", "operator"} :
       LET r == Record(k, s, sup, NoDocument, 0, 0, 0)
       IN  Write(r, role) \/ WriteFails(r, role)
  \/ \E s \in Scopes, u \in Uris, c \in Contents :
       \/ \E n \in 0..MaxChunks : Ingest(s, u, c, n)
       \/ IngestFails(s, u, c)
  \/ Ensure
  \/ FinishPersist
  \/ \E s \in Scopes : Recall(s)
  \/ Search
  \/ SearchFails
  \/ Crash
  \/ \E m \in Models : Open(m)

Spec == Init /\ [][Next]_vars
=============================================================================
