------------------------------- MODULE Memory -------------------------------
(* What the memory store must keep true, through failures and restarts. *)
EXTENDS MemoryStore, TLC

Symmetry == Permutations(Tenants) \cup Permutations(Contents)

(* What the connection reads, and what was committed. *)
Views == {db, disk}

(* "Atomically replace a source's active chunks with a new content         *)
(* version" (ingest_document): whatever failed in between, the versions of *)
(* a document are 1, 2, ... with only the last one active, no two in a row *)
(* have the same content, and the current chunks of the document are all   *)
(* of the active version and as many as its audit entry counted.           *)
DocumentsAreReplacedWhole ==
  \A d \in Views : \A k \in DOMAIN d.docs :
    LET id     == d.docs[k].id
        mine   == {l \in DOMAIN d.docs : d.docs[l].id = id}
        last   == Cardinality(mine)
        chunks == {i \in Current(d) : d.recs[i].kind = "chunk" /\ d.recs[i].doc = id}
        counts == {d.recs[i].ord : i \in {j \in DOMAIN d.recs :
                     d.recs[j].kind = "audit" /\ d.recs[j].doc = id /\ d.recs[j].ver = last}}
    IN  /\ {d.docs[l].ver : l \in mine} = 1..last
        /\ \A l \in mine : d.docs[l].state = "active" <=> d.docs[l].ver = last
        /\ \A l, m \in mine : d.docs[m].ver = d.docs[l].ver + 1
                                => d.docs[m].content # d.docs[l].content
        /\ \A i \in chunks : d.recs[i].ver = last
        /\ {Cardinality(chunks)} = counts

(* No failed write loses a fact or leaves two current answers (write,      *)
(* _write, _append_audit): a superseded record has exactly one successor,  *)
(* of its kind and scope, and a current one has none; and every record has *)
(* its audit entry, but those of the failures.                             *)
SupersessionIsAChain ==
  \A d \in Views :
    /\ \A i \in DOMAIN d.recs :
         LET heirs == {j \in DOMAIN d.recs : d.recs[j].sup = i}
         IN  d.recs[i].doc = NoDocument =>
               /\ Cardinality(heirs) = IF d.recs[i].status = "superseded" THEN 1 ELSE 0
               /\ \A j \in heirs : /\ d.recs[j].scope = d.recs[i].scope
                                   /\ d.recs[j].kind = d.recs[i].kind
    /\ Cardinality({i \in DOMAIN d.recs :
         /\ d.recs[i].kind # "audit" /\ d.recs[i].doc = NoDocument
         /\ \A j \in DOMAIN d.recs : d.recs[j].of # i}) <= faults

(* "A narrower record can never leak upward or sideways" (_scope_where):   *)
(* whichever rows a recall selects and however far it expands them, what   *)
(* it returns is current evidence its scope may read.  And the index it    *)
(* searches holds no record that is not, and lacks only rows that the      *)
(* recall embeds again, whatever failed write or restart came before       *)
(* (_ensure_vector_index, recall).                                         *)
RecallIsCurrentAndInScope ==
  /\ \A req \in Scopes : \A i \in Recalled(Rows(req), 1) :
       /\ db.recs[i].status = "current" /\ db.recs[i].kind \in {"fact", "chunk"}
       /\ db.recs[i].scope[1] = req[1]
       /\ db.recs[i].scope[2] # NoLevel => db.recs[i].scope[2] = req[2]
  /\ pc = "search" => /\ ToSet(index.ids) \subseteq Searchable(db)
                      /\ \A i \in Searchable(db) \ ToSet(index.ids) : Stale(i)

(* The index and the ids are written to two files, one after the other.    *)
(* Wherever a crash falls between the commit and the second file, each     *)
(* position of the index a later search uses holds the vector of the id    *)
(* beside it (persist, _load, search).  Not so once a write has failed: a  *)
(* recall may index its uncommitted record, and a crash takes the record   *)
(* back but not the first file.                                            *)
PositionsNameTheirVectors ==
  (pc = "search" /\ faults = 0) => [k \in DOMAIN index.vecs |-> index.vecs[k].of] = index.ids

(* "Never compare incompatible vectors" (recall): a query is compared with *)
(* vectors of the model that embedded it only.                             *)
NeverComparesIncompatible ==
  pc = "search" => \A k \in DOMAIN index.vecs : index.vecs[k].model = embedder
=============================================================================
