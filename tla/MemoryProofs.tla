---------------------------- MODULE MemoryProofs ----------------------------
(***************************************************************************)
(* Proofs about the memory, in two parts.  The store, for any number of    *)
(* tenants, projects, documents, records, models, failures and restarts:   *)
(* the bounds of the model are not used.  Then semantic chunking, for      *)
(* every source, word budget and floor and whatever the model answers.     *)
(***************************************************************************)
EXTENDS Memory, Chunks, FiniteSetTheorems, WellFoundedInduction, TLAPS

-----------------------------------------------------------------------------
(* The ids of the table in its order: a list of just those ids. *)
LEMMA OrderedIs ==
  ASSUME NEW S, S \subseteq Nat, IsFiniteSet(S)
  PROVE  Ordered(S) \in Seq(S) /\ ToSet(Ordered(S)) = S
<1> DEFINE size == Cardinality(S)
           Below == [i \in S |-> {j \in S : j < i}]
           rank == [i \in S |-> Cardinality(Below[i])]
<1>0. size \in Nat /\ \A i \in S : i \in Nat
  BY FS_CardinalityType
<1>1. ASSUME NEW i \in S
      PROVE  IsFiniteSet(Below[i]) /\ rank[i] \in Nat
  <2>1. Below[i] \in SUBSET S
    OBVIOUS
  <2> HIDE DEF Below
  <2>2. IsFiniteSet(Below[i])
    BY <2>1, FS_Subset
  <2>3. rank[i] = Cardinality(Below[i])
    OBVIOUS
  <2> QED  BY <2>2, <2>3, FS_CardinalityType
<1>2. ASSUME NEW i \in S, NEW o \in S, i < o
      PROVE  rank[i] < rank[o]
  <2>1. \A j \in S : j < i => j < o
    BY <1>0, <1>2
  <2>0. Below[i] \cup {i} \subseteq Below[o]
    BY <1>2, <2>1
  <2>2. Below[i] \cup {i} \subseteq Below[o] /\ i \notin Below[i]
    BY <1>0, <2>0
  <2>3. /\ IsFiniteSet(Below[i]) /\ IsFiniteSet(Below[o])
        /\ rank[i] \in Nat /\ rank[o] \in Nat
        /\ rank[i] = Cardinality(Below[i]) /\ rank[o] = Cardinality(Below[o])
    BY <1>1
  <2> HIDE DEF Below, rank
  <2>4. Cardinality(Below[i] \cup {i}) = rank[i] + 1
    BY <2>2, <2>3, FS_AddElement
  <2>5. Cardinality(Below[i] \cup {i}) <= rank[o]
    BY <2>2, <2>3, FS_Subset
  <2> QED  BY <2>3, <2>4, <2>5
<1>3. ASSUME NEW i \in S
      PROVE  rank[i] < size
  <2>1. Below[i] \cup {i} \in SUBSET S /\ i \notin Below[i]
    BY <1>0
  <2>2. IsFiniteSet(Below[i]) /\ rank[i] \in Nat /\ rank[i] = Cardinality(Below[i])
    BY <1>1
  <2> HIDE DEF Below, rank
  <2>3. Cardinality(Below[i] \cup {i}) = rank[i] + 1
    BY <2>1, <2>2, FS_AddElement
  <2>4. Cardinality(Below[i] \cup {i}) <= size
    BY <2>1, FS_Subset
  <2> QED  BY <1>0, <2>2, <2>3, <2>4
<1>4. \A k \in 1..size : Ordered(S)[k] = CHOOSE i \in S : rank[i] = k - 1
  BY DEF Ordered
<1>5. Ordered(S) = [k \in 1..size |-> Ordered(S)[k]]
  <2> DEFINE G(k) == CHOOSE i \in S : Cardinality({j \in S : j < i}) = k - 1
  <2>1. Ordered(S) = [k \in 1..size |-> G(k)]
    BY DEF Ordered
  <2> HIDE DEF G
  <2>2. \A k \in 1..size : Ordered(S)[k] = G(k)
    BY <2>1
  <2> QED  BY <2>1, <2>2
<1> DEFINE Ranks == 0..(size - 1)
<1> HIDE DEF Below, rank, size
<1>6. DOMAIN rank = S /\ rank = [i \in S |-> rank[i]]
  BY DEF rank
<1>7. rank \in Injection(S, Ranks)
  <2>1. rank \in [S -> Ranks]
    <3>1. \A i \in S : rank[i] \in Ranks
      BY <1>0, <1>1, <1>3
    <3> QED  BY <1>6, <3>1
  <2>2. \A i, o \in S : rank[i] = rank[o] => i = o
    <3> SUFFICES ASSUME NEW i \in S, NEW o \in S, i # o
                 PROVE  rank[i] # rank[o]
      OBVIOUS
    <3>1. i < o \/ o < i
      BY <1>0
    <3>2. rank[i] \in Nat /\ rank[o] \in Nat
      BY <1>1
    <3>3. (i < o => rank[i] < rank[o]) /\ (o < i => rank[o] < rank[i])
      BY <1>2
    <3> QED  BY <3>1, <3>2, <3>3
  <2> QED  BY <2>1, <2>2, <1>6 DEF Injection, IsInjective
<1>8. IsFiniteSet(Ranks) /\ Cardinality(Ranks) = size
  BY <1>0, FS_Interval
<1>9. rank \in Surjection(S, Ranks)
  <2> HIDE DEF Ranks
  <2> QED  BY <1>7, <1>8, FS_Injection DEF size
<1>10. \A k \in 1..size : Ordered(S)[k] \in S /\ rank[Ordered(S)[k]] = k - 1
  <2> SUFFICES ASSUME NEW k \in 1..size
               PROVE  Ordered(S)[k] \in S /\ rank[Ordered(S)[k]] = k - 1
    OBVIOUS
  <2>1. k - 1 \in Ranks
    BY <1>0
  <2>2. \E i \in S : rank[i] = k - 1
    BY <1>9, <2>1 DEF Surjection
  <2> QED  BY <1>4, <2>2
<1>11. Ordered(S) \in Seq(S)
  BY <1>0, <1>5, <1>10
<1>12. DOMAIN Ordered(S) = 1..size
  BY <1>5
<1>13. ASSUME NEW i \in S
       PROVE  \E k \in 1..size : Ordered(S)[k] = i
  <2>1. rank[i] + 1 \in 1..size
    BY <1>0, <1>1, <1>3
  <2>2. rank[Ordered(S)[rank[i] + 1]] = rank[i] /\ Ordered(S)[rank[i] + 1] \in S
    BY <1>1, <1>10, <2>1
  <2>3. Ordered(S)[rank[i] + 1] = i
    BY <1>7, <1>6, <2>2 DEF Injection, IsInjective
  <2> QED  BY <2>1, <2>3
<1>14. ToSet(Ordered(S)) = S
  BY <1>10, <1>12, <1>13 DEF ToSet
<1> QED  BY <1>11, <1>14
-----------------------------------------------------------------------------
(***************************************************************************)
(* The tables.                                                             *)
(***************************************************************************)
RecordKinds == {"fact", "policy", "chunk", "audit"}
Documents   == Scopes \X Uris

RecordType ==
  [kind : RecordKinds, scope : Scopes, sup : Nat, doc : Documents \cup {NoDocument},
   ver : Nat, ord : Nat, of : Nat, status : {"current", "superseded"}, model : Models]

VersionType ==
  [id : Documents, ver : Nat, state : {"active", "superseded"}, content : Contents]

Tables == [recs : Seq(RecordType), docs : Seq(VersionType)]

Versions(d, id) == {l \in DOMAIN d.docs : d.docs[l].id = id}

(* Who supersedes is a fact or a policy, which no document has; a row of a *)
(* document is in its scope and of one of its versions.                    *)
RowOK(d, r) ==
  /\ r.sup # 0 => r.sup \in DOMAIN d.recs /\ r.kind \in {"fact", "policy"}
  /\ r.kind \in {"fact", "policy"} => r.doc = NoDocument
  /\ r.kind = "chunk" => r.doc # NoDocument
  /\ r.doc # NoDocument =>
       r.doc[1] = r.scope /\ r.ver \in 1..Cardinality(Versions(d, r.doc))

Heirs(d, i) == {j \in DOMAIN d.recs : d.recs[j].sup = i}

ChainOK(d) ==
  \A i \in DOMAIN d.recs : d.recs[i].doc = NoDocument =>
    /\ Cardinality(Heirs(d, i)) = IF d.recs[i].status = "superseded" THEN 1 ELSE 0
    /\ \A j \in Heirs(d, i) : /\ d.recs[j].scope = d.recs[i].scope
                              /\ d.recs[j].kind = d.recs[i].kind

ChunksOf(d, id) == {i \in Current(d) : d.recs[i].kind = "chunk" /\ d.recs[i].doc = id}

CountsOf(d, id, v) ==
  {d.recs[i].ord : i \in {j \in DOMAIN d.recs :
     d.recs[j].kind = "audit" /\ d.recs[j].doc = id /\ d.recs[j].ver = v}}

VersionsOK(d) ==
  \A id \in Documents : Versions(d, id) # {} =>
    LET mine == Versions(d, id)
        last == Cardinality(mine)
    IN  /\ {d.docs[l].ver : l \in mine} = 1..last
        /\ \A l \in mine : d.docs[l].state = "active" <=> d.docs[l].ver = last
        /\ \A l, m \in mine : d.docs[m].ver = d.docs[l].ver + 1
                                => d.docs[m].content # d.docs[l].content
        /\ \A i \in ChunksOf(d, id) : d.recs[i].ver = last
        /\ {Cardinality(ChunksOf(d, id))} = CountsOf(d, id, last)

TablesOK(d) ==
  /\ d \in Tables
  /\ \A i \in DOMAIN d.recs : RowOK(d, d.recs[i])
  /\ ChainOK(d)
  /\ VersionsOK(d)

(* Facts and policies without an audit entry. *)
Unaudited(d) ==
  {i \in DOMAIN d.recs : /\ d.recs[i].kind # "audit" /\ d.recs[i].doc = NoDocument
                         /\ \A j \in DOMAIN d.recs : d.recs[j].of # i}

-----------------------------------------------------------------------------
LEMMA DocumentIsSome == \A id \in Documents : id # NoDocument
BY DEF Documents, NoDocument

(* A list of n things is a sequence. *)
LEMMA ListIsSeq ==
  ASSUME NEW R, NEW n \in Nat, NEW f, f = [i \in 1..n |-> f[i]], \A i \in 1..n : f[i] \in R
  PROVE  f \in Seq(R) /\ Len(f) = n /\ DOMAIN f = 1..n
OBVIOUS

LEMMA TablesAre ==
  ASSUME NEW d \in Tables
  PROVE  /\ d.recs \in Seq(RecordType) /\ d.docs \in Seq(VersionType)
         /\ Len(d.recs) \in Nat /\ DOMAIN d.recs = 1..Len(d.recs)
         /\ Len(d.docs) \in Nat /\ DOMAIN d.docs = 1..Len(d.docs)
         /\ \A i \in DOMAIN d.recs : d.recs[i] \in RecordType
         /\ \A l \in DOMAIN d.docs : d.docs[l] \in VersionType
         /\ d.recs = [i \in 1..Len(d.recs) |-> d.recs[i]]
         /\ d.docs = [l \in 1..Len(d.docs) |-> d.docs[l]]
         /\ d = [recs |-> d.recs, docs |-> d.docs]
<1>1. d.recs \in Seq(RecordType) /\ d.docs \in Seq(VersionType) /\ d = [recs |-> d.recs, docs |-> d.docs]
  BY DEF Tables
<1> QED  BY <1>1

LEMMA AppendIs ==
  ASSUME NEW R, NEW s \in Seq(R), NEW r \in R
  PROVE  /\ Append(s, r) \in Seq(R) /\ Len(Append(s, r)) = Len(s) + 1
         /\ Len(s) + 1 \in Nat /\ Len(s) + 1 # 0 /\ Len(s) + 1 \notin DOMAIN s
         /\ DOMAIN Append(s, r) = DOMAIN s \cup {Len(s) + 1}
         /\ Append(s, r)[Len(s) + 1] = r
         /\ \A i \in DOMAIN s : Append(s, r)[i] = s[i]
OBVIOUS

(* All of a row but its status and its embedding. *)
SameRow(r, s) ==
  /\ r.kind = s.kind /\ r.scope = s.scope /\ r.sup = s.sup /\ r.doc = s.doc
  /\ r.ver = s.ver /\ r.ord = s.ord /\ r.of = s.of

LEMMA SupersedeIs ==
  ASSUME NEW d \in Tables, NEW olds, NEW e, e = Supersede(d, olds)
  PROVE  /\ e \in Tables /\ e.docs = d.docs
         /\ Len(e.recs) = Len(d.recs) /\ DOMAIN e.recs = DOMAIN d.recs
         /\ \A i \in DOMAIN d.recs :
              /\ e.recs[i] \in RecordType /\ SameRow(e.recs[i], d.recs[i])
              /\ e.recs[i].status = IF i \in olds THEN "superseded" ELSE d.recs[i].status
<1> DEFINE new(i) == IF i \in olds THEN [d.recs[i] EXCEPT !.status = "superseded"] ELSE d.recs[i]
           f == [i \in DOMAIN d.recs |-> new(i)]
<1>1. e = [d EXCEPT !.recs = f]
  BY DEF Supersede
<1>2. ASSUME NEW i \in DOMAIN d.recs
      PROVE  /\ new(i) \in RecordType /\ SameRow(new(i), d.recs[i])
             /\ new(i).status = IF i \in olds THEN "superseded" ELSE d.recs[i].status
  <2> DEFINE r == d.recs[i]
             s == [r EXCEPT !.status = "superseded"]
  <2>1. r \in RecordType
    BY TablesAre
  <2> HIDE DEF r
  <2>2. s \in RecordType /\ SameRow(s, r) /\ s.status = "superseded"
    BY <2>1 DEF RecordType, SameRow
  <2>3. SameRow(r, r)
    BY DEF SameRow
  <2>4. new(i) = IF i \in olds THEN s ELSE r
    BY DEF r
  <2> HIDE DEF s, new
  <2>5. /\ new(i) \in RecordType /\ SameRow(new(i), r)
        /\ new(i).status = IF i \in olds THEN "superseded" ELSE r.status
    BY <2>1, <2>2, <2>3, <2>4
  <2> QED  BY <2>5 DEF r
<1> HIDE DEF new
<1>3. f \in Seq(RecordType) /\ Len(f) = Len(d.recs) /\ DOMAIN f = DOMAIN d.recs
  <2>1. f = [i \in 1..Len(d.recs) |-> f[i]] /\ \A i \in 1..Len(d.recs) : f[i] \in RecordType
    BY <1>2, TablesAre
  <2>2. Len(d.recs) \in Nat /\ DOMAIN d.recs = 1..Len(d.recs)
    BY TablesAre
  <2> HIDE DEF f
  <2> QED  BY <2>1, <2>2, ListIsSeq
<1>4. \A i \in DOMAIN d.recs : f[i] = new(i)
  OBVIOUS
<1> HIDE DEF f
<1>5. e.recs = f /\ e.docs = d.docs /\ e \in Tables
  BY <1>1, <1>3 DEF Tables
<1>6. \A i \in DOMAIN d.recs :
        /\ e.recs[i] \in RecordType /\ SameRow(e.recs[i], d.recs[i])
        /\ e.recs[i].status = IF i \in olds THEN "superseded" ELSE d.recs[i].status
  BY <1>2, <1>4, <1>5
<1> QED  BY <1>3, <1>5, <1>6

LEMMA InsertIs ==
  ASSUME NEW d \in Tables, NEW r \in RecordType, NEW e, e = Insert(d, r), NEW n,
         n = Len(d.recs) + 1
  PROVE  /\ e \in Tables /\ e.docs = d.docs /\ Len(e.recs) = n
         /\ n \in Nat /\ n # 0 /\ n \notin DOMAIN d.recs
         /\ DOMAIN e.recs = DOMAIN d.recs \cup {n}
         /\ e.recs[n] = r
         /\ \A i \in DOMAIN d.recs :
              /\ e.recs[i] \in RecordType /\ SameRow(e.recs[i], d.recs[i])
              /\ e.recs[i].status = IF i = r.sup THEN "superseded" ELSE d.recs[i].status
<1> DEFINE olds == {r.sup}
           old == Supersede(d, olds)
<1>1. e = [old EXCEPT !.recs = Append(old.recs, r)]
  BY DEF Insert
<1> HIDE DEF old, olds
<1>2. /\ old \in Tables /\ old.docs = d.docs
      /\ Len(old.recs) = Len(d.recs) /\ DOMAIN old.recs = DOMAIN d.recs
      /\ \A i \in DOMAIN d.recs :
           /\ old.recs[i] \in RecordType /\ SameRow(old.recs[i], d.recs[i])
           /\ old.recs[i].status = IF i \in olds THEN "superseded" ELSE d.recs[i].status
  BY SupersedeIs DEF old
<1>3. old.recs \in Seq(RecordType) /\ DOMAIN old.recs = DOMAIN d.recs /\ n = Len(old.recs) + 1
  BY <1>2, TablesAre
<1>4. /\ Append(old.recs, r) \in Seq(RecordType) /\ Len(Append(old.recs, r)) = n
      /\ n \in Nat /\ n # 0 /\ n \notin DOMAIN d.recs
      /\ DOMAIN Append(old.recs, r) = DOMAIN d.recs \cup {n}
      /\ Append(old.recs, r)[n] = r
      /\ \A i \in DOMAIN d.recs : Append(old.recs, r)[i] = old.recs[i]
  BY <1>3, AppendIs
<1>5. /\ e \in Tables /\ e.docs = old.docs /\ e.recs = Append(old.recs, r)
  BY <1>1, <1>2, <1>4 DEF Tables
<1>6. \A i \in DOMAIN d.recs :
        /\ e.recs[i] \in RecordType /\ SameRow(e.recs[i], d.recs[i])
        /\ e.recs[i].status = IF i = r.sup THEN "superseded" ELSE d.recs[i].status
  BY <1>2, <1>4, <1>5 DEF olds
<1> QED  BY <1>2, <1>4, <1>5, <1>6

(* The documents are as they were, if their rows are. *)
LEMMA SameDocuments ==
  ASSUME NEW d, NEW e, VersionsOK(d), e.docs = d.docs,
         \A i \in DOMAIN e.recs : e.recs[i].doc # NoDocument =>
           i \in DOMAIN d.recs /\ d.recs[i].doc = e.recs[i].doc,
         \A i \in DOMAIN d.recs : d.recs[i].doc # NoDocument =>
           /\ i \in DOMAIN e.recs /\ e.recs[i].doc = d.recs[i].doc
           /\ e.recs[i].kind = d.recs[i].kind /\ e.recs[i].ver = d.recs[i].ver
           /\ e.recs[i].ord = d.recs[i].ord /\ e.recs[i].status = d.recs[i].status
  PROVE  VersionsOK(e)
<1> SUFFICES ASSUME NEW id \in Documents
             PROVE  /\ Versions(e, id) = Versions(d, id)
                    /\ ChunksOf(e, id) = ChunksOf(d, id)
                    /\ \A i \in ChunksOf(d, id) : e.recs[i].ver = d.recs[i].ver
                    /\ \A v : CountsOf(e, id, v) = CountsOf(d, id, v)
  BY DEF VersionsOK
<1>1. id # NoDocument
  BY DocumentIsSome
<1>2. Versions(e, id) = Versions(d, id)
  BY DEF Versions
<1>3. ChunksOf(e, id) = ChunksOf(d, id)
  BY <1>1 DEF ChunksOf, Current
<1>4. \A i \in ChunksOf(d, id) : e.recs[i].ver = d.recs[i].ver
  BY <1>1 DEF ChunksOf, Current
<1>5. ASSUME NEW v
      PROVE  CountsOf(e, id, v) = CountsOf(d, id, v)
  BY <1>1 DEF CountsOf
<1> QED  BY <1>2, <1>3, <1>4, <1>5
-----------------------------------------------------------------------------
(* write: a record, and the one it supersedes. *)
LEMMA InsertKeeps ==
  ASSUME NEW d, TablesOK(d), NEW r \in RecordType,
         r.doc = NoDocument, r.kind # "chunk", r.status = "current",
         r.sup # 0 => /\ r.sup \in DOMAIN d.recs /\ r.kind \in {"fact", "policy"}
                      /\ d.recs[r.sup].scope = r.scope /\ d.recs[r.sup].kind = r.kind
                      /\ d.recs[r.sup].status = "current",
         NEW e, e = Insert(d, r)
  PROVE  TablesOK(e)
<1> DEFINE n == Len(d.recs) + 1
<1>0. d \in Tables /\ \A i \in DOMAIN d.recs : i # 0 /\ d.recs[i] \in RecordType
  <2>1. d \in Tables
    BY DEF TablesOK
  <2>2. \A i \in 1..Len(d.recs) : i # 0
    OBVIOUS
  <2>3. DOMAIN d.recs = 1..Len(d.recs) /\ \A i \in DOMAIN d.recs : d.recs[i] \in RecordType
    BY <2>1, TablesAre
  <2> QED  BY <2>1, <2>2, <2>3
<1>1. /\ e \in Tables /\ e.docs = d.docs
      /\ n \in Nat /\ n # 0 /\ n \notin DOMAIN d.recs
      /\ DOMAIN e.recs = DOMAIN d.recs \cup {n}
      /\ e.recs[n] = r
      /\ \A i \in DOMAIN d.recs :
           /\ SameRow(e.recs[i], d.recs[i])
           /\ e.recs[i].status = IF i = r.sup THEN "superseded" ELSE d.recs[i].status
  BY <1>0, InsertIs
<1> HIDE DEF n
<1>2. \A i \in DOMAIN d.recs :
        /\ e.recs[i].kind = d.recs[i].kind /\ e.recs[i].scope = d.recs[i].scope
        /\ e.recs[i].sup = d.recs[i].sup /\ e.recs[i].doc = d.recs[i].doc
        /\ e.recs[i].ver = d.recs[i].ver /\ e.recs[i].ord = d.recs[i].ord
        /\ e.recs[i].status = IF i = r.sup THEN "superseded" ELSE d.recs[i].status
  BY <1>1 DEF SameRow
<1>3. \A id : Versions(e, id) = Versions(d, id)
  BY <1>1 DEF Versions
<1>4. ASSUME NEW i \in DOMAIN e.recs
      PROVE  RowOK(e, e.recs[i])
  <2>1. CASE i = n
    BY <1>1, <2>1 DEF RowOK
  <2>2. CASE i \in DOMAIN d.recs
    <3>1. RowOK(d, d.recs[i])
      BY <2>2 DEF TablesOK
    <3> QED  BY <1>1, <1>2, <1>3, <2>2, <3>1 DEF RowOK
  <2> QED  BY <1>1, <2>1, <2>2
<1>5. \A i \in DOMAIN d.recs : i # n /\ d.recs[i].sup # n
  BY <1>1 DEF TablesOK, RowOK
<1>6. r.sup # n
  BY <1>1
<1>7. ChainOK(e)
  <2> SUFFICES ASSUME NEW i \in DOMAIN e.recs, e.recs[i].doc = NoDocument
               PROVE  /\ Cardinality(Heirs(e, i)) = IF e.recs[i].status = "superseded" THEN 1 ELSE 0
                      /\ \A j \in Heirs(e, i) : /\ e.recs[j].scope = e.recs[i].scope
                                                /\ e.recs[j].kind = e.recs[i].kind
    BY DEF ChainOK
  <2>1. CASE i = n
    <3>1. \A j \in DOMAIN e.recs : e.recs[j].sup # n
      BY <1>1, <1>2, <1>5, <1>6
    <3>2. Heirs(e, i) = {}
      BY <2>1, <3>1 DEF Heirs
    <3> QED  BY <1>1, <2>1, <3>2, FS_EmptySet
  <2>2. CASE i \in DOMAIN d.recs
    <3>1. /\ Cardinality(Heirs(d, i)) = IF d.recs[i].status = "superseded" THEN 1 ELSE 0
          /\ \A j \in Heirs(d, i) : /\ d.recs[j].scope = d.recs[i].scope
                                    /\ d.recs[j].kind = d.recs[i].kind
      BY <1>2, <2>2 DEF TablesOK, ChainOK
    <3>2. CASE i # r.sup
      <4>1. Heirs(e, i) = Heirs(d, i)
        BY <1>1, <1>2, <3>2 DEF Heirs
      <4>2. \A j \in Heirs(d, i) : j \in DOMAIN d.recs
        BY DEF Heirs
      <4>3. e.recs[i].status = d.recs[i].status
        BY <1>2, <2>2, <3>2
      <4>4. \A j \in Heirs(e, i) : /\ e.recs[j].scope = e.recs[i].scope
                                   /\ e.recs[j].kind = e.recs[i].kind
        BY <1>2, <2>2, <3>1, <4>1, <4>2
      <4> QED  BY <3>1, <4>1, <4>3, <4>4
    <3>3. CASE i = r.sup
      <4>1. i # 0 /\ Cardinality(Heirs(d, i)) = 0
        <5>1. i # 0
          BY <1>0, <2>2
        <5> QED  BY <5>1, <3>1, <3>3
      <4>2. Heirs(d, i) = {}
        <5>0. 1 \in Int /\ Len(d.recs) \in Int
          BY <1>0, TablesAre
        <5>1. IsFiniteSet(1..Len(d.recs))
          BY <5>0, FS_Interval
        <5>2. Heirs(d, i) \in SUBSET (1..Len(d.recs))
          BY <1>0, TablesAre DEF Heirs
        <5> QED  BY <4>1, <5>1, <5>2, FS_Subset, FS_EmptySet
      <4>3. Heirs(e, i) = {n}
        BY <1>1, <1>2, <3>3, <4>2 DEF Heirs
      <4>4. Cardinality(Heirs(e, i)) = 1
        BY <4>3, FS_Singleton
      <4>5. e.recs[i].status = "superseded" /\ e.recs[i].scope = r.scope /\ e.recs[i].kind = r.kind
        BY <1>2, <2>2, <3>3, <4>1
      <4> QED  BY <1>1, <4>3, <4>4, <4>5
    <3> QED  BY <3>2, <3>3
  <2> QED  BY <1>1, <2>1, <2>2
<1>8. VersionsOK(e)
  <2>1. r.sup # 0 => d.recs[r.sup].doc = NoDocument
    BY DEF TablesOK, RowOK
  <2>2. \A i \in DOMAIN d.recs : d.recs[i].doc # NoDocument => i # r.sup
    <3> QED  BY <1>0, <2>1
  <2> QED  BY <1>1, <1>2, <2>2, SameDocuments DEF TablesOK
<1> QED  BY <1>1, <1>4, <1>7, <1>8 DEF TablesOK

LEMMA UnauditedGrows ==
  ASSUME NEW d \in Tables, NEW r \in RecordType, NEW e, e = Insert(d, r),
         NEW n, n = Len(d.recs) + 1
  PROVE  /\ Unaudited(e) \subseteq Unaudited(d) \cup {n}
         /\ r.kind = "audit" => Unaudited(e) \subseteq Unaudited(d) \ {r.of}
<1>1. /\ n \notin DOMAIN d.recs
      /\ DOMAIN e.recs = DOMAIN d.recs \cup {n}
      /\ e.recs[n] = r
      /\ \A i \in DOMAIN d.recs : SameRow(e.recs[i], d.recs[i])
  BY InsertIs
<1>2. \A i \in DOMAIN d.recs :
        /\ e.recs[i].kind = d.recs[i].kind /\ e.recs[i].doc = d.recs[i].doc
        /\ e.recs[i].of = d.recs[i].of
  BY <1>1 DEF SameRow
<1> QED  BY <1>1, <1>2 DEF Unaudited

(* _append_audit. *)
LEMMA AuditKeeps ==
  ASSUME embedder \in Models, NEW d, TablesOK(d), Len(d.recs) > 0, NEW e, e = AppendAudit(d)
  PROVE  TablesOK(e) /\ Unaudited(e) \subseteq Unaudited(d) \ {Len(d.recs)}
<1> DEFINE i == Len(d.recs)
           r == Record("audit", d.recs[i].scope, 0, NoDocument, 0, 0, i)
<1>0. d \in Tables
  BY DEF TablesOK
<1>1. d \in Tables /\ i \in DOMAIN d.recs /\ i \in Nat /\ d.recs[i] \in RecordType
  <2>1. i \in Nat /\ i > 0 /\ DOMAIN d.recs = 1..i
    BY <1>0, TablesAre
  <2>2. i \in DOMAIN d.recs
    BY <2>1
  <2> QED  BY <1>0, <2>1, <2>2, TablesAre
<1>2. /\ r \in RecordType /\ r.doc = NoDocument /\ r.kind = "audit" /\ r.status = "current"
      /\ r.sup = 0 /\ r.of = i
  BY <1>1 DEF Record, RecordType, RecordKinds
<1>3. e = Insert(d, r)
  BY DEF AppendAudit
<1> HIDE DEF r, i
<1>4. TablesOK(e)
  BY <1>2, <1>3, InsertKeeps
<1>5. Unaudited(e) \subseteq Unaudited(d) \ {r.of}
  BY <1>1, <1>2, <1>3, UnauditedGrows
<1> QED  BY <1>2, <1>4, <1>5 DEF i

(* recall: rows are embedded again. *)
LEMMA ReembeddedKeeps ==
  ASSUME embedder \in Models, NEW d, TablesOK(d), NEW rows, NEW e, e = Reembedded(d, rows)
  PROVE  /\ TablesOK(e) /\ Unaudited(e) = Unaudited(d)
         /\ DOMAIN e.recs = DOMAIN d.recs /\ e.docs = d.docs
         /\ \A i \in DOMAIN d.recs :
              /\ e.recs[i].kind = d.recs[i].kind /\ e.recs[i].status = d.recs[i].status
              /\ e.recs[i].scope = d.recs[i].scope
<1> DEFINE new(i) == IF i \in rows THEN [d.recs[i] EXCEPT !.model = embedder] ELSE d.recs[i]
           f == [i \in DOMAIN d.recs |-> new(i)]
<1>0. d \in Tables
  BY DEF TablesOK
<1>1. e = [d EXCEPT !.recs = f]
  BY DEF Reembedded
<1>2. ASSUME NEW i \in DOMAIN d.recs
      PROVE  /\ new(i) \in RecordType /\ new(i).kind = d.recs[i].kind
             /\ new(i).scope = d.recs[i].scope /\ new(i).sup = d.recs[i].sup
             /\ new(i).doc = d.recs[i].doc /\ new(i).ver = d.recs[i].ver
             /\ new(i).ord = d.recs[i].ord /\ new(i).of = d.recs[i].of
             /\ new(i).status = d.recs[i].status
  <2>1. d.recs[i] \in RecordType
    BY <1>0, TablesAre
  <2> QED  BY <2>1 DEF RecordType
<1> HIDE DEF new
<1>3. f \in Seq(RecordType) /\ Len(f) = Len(d.recs) /\ DOMAIN f = DOMAIN d.recs
  <2>1. f = [i \in 1..Len(d.recs) |-> f[i]] /\ \A i \in 1..Len(d.recs) : f[i] \in RecordType
    BY <1>0, <1>2, TablesAre
  <2>2. Len(d.recs) \in Nat /\ DOMAIN d.recs = 1..Len(d.recs)
    BY <1>0, TablesAre
  <2> HIDE DEF f
  <2> QED  BY <2>1, <2>2, ListIsSeq
<1>4. \A i \in DOMAIN d.recs : f[i] = new(i)
  OBVIOUS
<1> HIDE DEF f
<1>5. e.recs = f /\ e.docs = d.docs /\ e \in Tables
  BY <1>0, <1>1, <1>3 DEF Tables
<1>6. /\ DOMAIN e.recs = DOMAIN d.recs
      /\ \A i \in DOMAIN d.recs :
           /\ e.recs[i].kind = d.recs[i].kind
           /\ e.recs[i].scope = d.recs[i].scope /\ e.recs[i].sup = d.recs[i].sup
           /\ e.recs[i].doc = d.recs[i].doc /\ e.recs[i].ver = d.recs[i].ver
           /\ e.recs[i].ord = d.recs[i].ord /\ e.recs[i].of = d.recs[i].of
           /\ e.recs[i].status = d.recs[i].status
  BY <1>2, <1>3, <1>4, <1>5
<1>7. \A id : Versions(e, id) = Versions(d, id)
  BY <1>5 DEF Versions
<1>8. \A i \in DOMAIN e.recs : RowOK(e, e.recs[i])
  BY <1>6, <1>7 DEF RowOK, TablesOK
<1>9. \A i : Heirs(e, i) = Heirs(d, i)
  BY <1>6 DEF Heirs
<1>10. ChainOK(e)
  <2> SUFFICES ASSUME NEW i \in DOMAIN d.recs, d.recs[i].doc = NoDocument
               PROVE  /\ Cardinality(Heirs(e, i)) = IF d.recs[i].status = "superseded" THEN 1 ELSE 0
                      /\ \A j \in Heirs(e, i) : /\ e.recs[j].scope = d.recs[i].scope
                                                /\ e.recs[j].kind = d.recs[i].kind
    BY <1>6 DEF ChainOK
  <2>1. /\ Cardinality(Heirs(d, i)) = IF d.recs[i].status = "superseded" THEN 1 ELSE 0
        /\ \A j \in Heirs(d, i) : /\ d.recs[j].scope = d.recs[i].scope
                                  /\ d.recs[j].kind = d.recs[i].kind
    BY DEF ChainOK, TablesOK
  <2>2. \A j \in Heirs(d, i) : j \in DOMAIN d.recs
    BY DEF Heirs
  <2> QED  BY <1>6, <1>9, <2>1, <2>2
<1>11. VersionsOK(e)
  BY <1>5, <1>6, SameDocuments DEF TablesOK
<1>12. Unaudited(e) = Unaudited(d)
  BY <1>6 DEF Unaudited
<1> QED  BY <1>5, <1>6, <1>8, <1>10, <1>11, <1>12 DEF TablesOK
-----------------------------------------------------------------------------
(***************************************************************************)
(* ingest_document.  The newest version is the only active one, so a       *)
(* document without one has no version at all.                             *)
(***************************************************************************)
LEMMA NewestIsLast ==
  ASSUME NEW d, TablesOK(d), NEW id \in Documents, NEW last, last = Cardinality(Versions(d, id))
  PROVE  /\ last \in Nat /\ Active(d, id) \subseteq Versions(d, id)
         /\ Versions(d, id) = {} => last = 0
         /\ Versions(d, id) # {} =>
              /\ Active(d, id) # {}
              /\ \A k \in Active(d, id) : d.docs[k].ver = last
              /\ \A k \in Versions(d, id) : d.docs[k].ver = last => k \in Active(d, id)
<1>1. /\ Active(d, id) \subseteq Versions(d, id)
      /\ \A k \in Versions(d, id) : k \in Active(d, id) <=> d.docs[k].state = "active"
  BY DEF Active, Versions
<1>2. IsFiniteSet(Versions(d, id)) /\ last \in Nat /\ (last = 0 <=> Versions(d, id) = {})
  <2>1. d \in Tables
    BY DEF TablesOK
  <2>2. 1 \in Int /\ Len(d.docs) \in Int /\ DOMAIN d.docs = 1..Len(d.docs)
    BY <2>1, TablesAre
  <2>3. IsFiniteSet(1..Len(d.docs)) /\ Versions(d, id) \in SUBSET (1..Len(d.docs))
    BY <2>2, FS_Interval DEF Versions
  <2>4. IsFiniteSet(Versions(d, id))
    BY <2>3, FS_Subset
  <2> QED  BY <2>4, FS_CardinalityType, FS_EmptySet
<1>3. CASE Versions(d, id) # {}
  <2>1. /\ {d.docs[l].ver : l \in Versions(d, id)} = 1..last
        /\ \A l \in Versions(d, id) : d.docs[l].state = "active" <=> d.docs[l].ver = last
    BY <1>3 DEF TablesOK, VersionsOK
  <2>2. last \in 1..last
    BY <1>2, <1>3
  <2>3. PICK l \in Versions(d, id) : d.docs[l].ver = last
    BY <2>1, <2>2
  <2>4. l \in Active(d, id)
    BY <1>1, <2>1, <2>3
  <2> QED  BY <1>1, <1>2, <2>1, <2>4
<1> QED  BY <1>1, <1>2, <1>3

LEMMA SumsAre == \A a, b \in Nat : a + (b + 1) = a + b + 1
OBVIOUS

LEMMA ConcatIs ==
  ASSUME NEW R, NEW s \in Seq(R), NEW t \in Seq(R)
  PROVE  /\ s \o t \in Seq(R) /\ Len(s \o t) = Len(s) + Len(t)
         /\ DOMAIN (s \o t) = 1..(Len(s) + Len(t))
         /\ \A i \in 1..Len(s) : (s \o t)[i] = s[i]
         /\ \A k \in 1..Len(t) : (s \o t)[Len(s) + k] = t[k]
OBVIOUS

(* The old version is taken back, if there is one. *)
LEMMA RetiredIs ==
  ASSUME NEW d, TablesOK(d), NEW id \in Documents,
         NEW e, e = IF Active(d, id) = {} THEN d ELSE Retired(d, id)
  PROVE  /\ e \in Tables /\ Len(e.recs) = Len(d.recs) /\ Len(e.docs) = Len(d.docs)
         /\ \A i \in DOMAIN d.recs :
              /\ SameRow(e.recs[i], d.recs[i])
              /\ e.recs[i].status = IF d.recs[i].doc = id THEN "superseded" ELSE d.recs[i].status
         /\ \A l \in DOMAIN d.docs :
              /\ e.docs[l].id = d.docs[l].id /\ e.docs[l].ver = d.docs[l].ver
              /\ e.docs[l].content = d.docs[l].content
              /\ e.docs[l].state = IF d.docs[l].id = id THEN "superseded" ELSE d.docs[l].state
<1>0. d \in Tables
  BY DEF TablesOK
<1>1. CASE Active(d, id) = {}
  <2>1. Versions(d, id) = {} /\ e = d
    BY <1>1, NewestIsLast
  <2>2. \A l \in DOMAIN d.docs : d.docs[l].id # id
    BY <2>1 DEF Versions
  <2>3. \A i \in DOMAIN d.recs : d.recs[i].doc # id
    <3> SUFFICES ASSUME NEW i \in DOMAIN d.recs, d.recs[i].doc = id
                 PROVE  FALSE
      OBVIOUS
    <3>1. id # NoDocument /\ RowOK(d, d.recs[i])
      BY DocumentIsSome DEF TablesOK
    <3>2. d.recs[i].ver \in 1..Cardinality(Versions(d, id))
      BY <3>1 DEF RowOK
    <3>3. Cardinality(Versions(d, id)) = 0
      BY <2>1, FS_EmptySet
    <3> QED  BY <3>2, <3>3
  <2> QED  BY <1>0, <2>1, <2>2, <2>3 DEF SameRow
<1>2. CASE Active(d, id) # {}
  <2> DEFINE new(l) == IF l \in Active(d, id) THEN [d.docs[l] EXCEPT !.state = "superseded"]
                       ELSE d.docs[l]
             f == [l \in DOMAIN d.docs |-> new(l)]
             c == [d EXCEPT !.docs = f]
             olds == {i \in Current(d) : d.recs[i].doc = id}
  <2>1. e = Supersede(c, olds)
    BY <1>2 DEF Retired
  <2>2. ASSUME NEW l \in DOMAIN d.docs
        PROVE  /\ new(l) \in VersionType
               /\ new(l).id = d.docs[l].id /\ new(l).ver = d.docs[l].ver
               /\ new(l).content = d.docs[l].content
               /\ new(l).state = IF d.docs[l].id = id THEN "superseded" ELSE d.docs[l].state
    <3> DEFINE r == d.docs[l]
               s == [r EXCEPT !.state = "superseded"]
    <3>1. r \in VersionType /\ (l \in Active(d, id) <=> r.id = id /\ r.state = "active")
      BY <1>0, TablesAre DEF Active
    <3>2. new(l) = IF l \in Active(d, id) THEN s ELSE r
      OBVIOUS
    <3> HIDE DEF r
    <3>3. /\ s \in VersionType /\ s.id = r.id /\ s.ver = r.ver /\ s.content = r.content
          /\ s.state = "superseded" /\ r.state \in {"active", "superseded"}
      BY <3>1 DEF VersionType
    <3> HIDE DEF s, new
    <3>4. /\ new(l) \in VersionType
          /\ new(l).id = r.id /\ new(l).ver = r.ver /\ new(l).content = r.content
          /\ new(l).state = IF r.id = id THEN "superseded" ELSE r.state
      BY <3>1, <3>2, <3>3
    <3> QED  BY <3>4 DEF r
  <2> HIDE DEF new
  <2>3. f \in Seq(VersionType) /\ Len(f) = Len(d.docs) /\ DOMAIN f = DOMAIN d.docs
    <3>1. f = [l \in 1..Len(d.docs) |-> f[l]] /\ \A l \in 1..Len(d.docs) : f[l] \in VersionType
      BY <1>0, <2>2, TablesAre
    <3>2. Len(d.docs) \in Nat /\ DOMAIN d.docs = 1..Len(d.docs)
      BY <1>0, TablesAre
    <3> HIDE DEF f
    <3> QED  BY <3>1, <3>2, ListIsSeq
  <2>4. \A l \in DOMAIN d.docs : f[l] = new(l)
    OBVIOUS
  <2> HIDE DEF f
  <2>5. c \in Tables /\ c.docs = f /\ c.recs = d.recs
    BY <1>0, <2>3 DEF Tables
  <2> HIDE DEF c, olds
  <2>6. /\ e \in Tables /\ e.docs = c.docs /\ Len(e.recs) = Len(c.recs)
        /\ \A i \in DOMAIN c.recs :
             /\ SameRow(e.recs[i], c.recs[i])
             /\ e.recs[i].status = IF i \in olds THEN "superseded" ELSE c.recs[i].status
    BY <2>1, <2>5, SupersedeIs
  <2>7. \A i \in DOMAIN d.recs :
          e.recs[i].status = IF d.recs[i].doc = id THEN "superseded" ELSE d.recs[i].status
    <3>1. \A i \in DOMAIN d.recs : d.recs[i].status \in {"current", "superseded"}
      BY <1>0, TablesAre DEF RecordType
    <3> QED  BY <2>5, <2>6, <3>1 DEF olds, Current
  <2> QED  BY <2>2, <2>3, <2>4, <2>5, <2>6, <2>7
<1> QED  BY <1>1, <1>2

(* The tables with one more version: m rows and q versions, then the new. *)
IngestedFrom(d, e, scope, id, content, n, m, q, ver) ==
  /\ e \in Tables /\ id \in Documents
  /\ m \in Nat /\ q \in Nat /\ ver \in Nat /\ ver > 0
  /\ DOMAIN d.recs = 1..m /\ DOMAIN d.docs = 1..q
  /\ DOMAIN e.recs = 1..(m + n + 1) /\ DOMAIN e.docs = 1..(q + 1)
  /\ \A i \in 1..m :
       /\ SameRow(e.recs[i], d.recs[i])
       /\ e.recs[i].status = IF d.recs[i].doc = id THEN "superseded" ELSE d.recs[i].status
  /\ \A k \in 1..n : e.recs[m + k] = Record("chunk", scope, 0, id, ver, k - 1, 0)
  /\ e.recs[m + n + 1] = Record("audit", scope, 0, id, ver, n, 0)
  /\ \A l \in 1..q :
       /\ e.docs[l].id = d.docs[l].id /\ e.docs[l].ver = d.docs[l].ver
       /\ e.docs[l].content = d.docs[l].content
       /\ e.docs[l].state = IF d.docs[l].id = id THEN "superseded" ELSE d.docs[l].state
  /\ e.docs[q + 1] = [id |-> id, ver |-> ver, state |-> "active", content |-> content]

LEMMA IngestedIs ==
  ASSUME embedder \in Models, NEW d, TablesOK(d), NEW scope \in Scopes, NEW uri \in Uris,
         NEW content \in Contents, NEW n \in Nat, NEW id, id = DocumentId(scope, uri),
         NEW e, e = Ingested(d, scope, id, content, n),
         NEW m, m = Len(d.recs), NEW q, q = Len(d.docs),
         NEW ver, ver = Cardinality(Versions(d, id)) + 1
  PROVE  IngestedFrom(d, e, scope, id, content, n, m, q, ver)
<1> DEFINE old  == IF Active(d, id) = {} THEN d ELSE Retired(d, id)
           row(k) == Record("chunk", scope, 0, id, ver, k - 1, 0)
           rows == [k \in 1..n |-> row(k)]
           audit == Record("audit", scope, 0, id, ver, n, 0)
           doc  == [id |-> id, ver |-> ver, state |-> "active", content |-> content]
<1>0. /\ id \in Documents /\ d \in Tables /\ m \in Nat /\ q \in Nat
      /\ DOMAIN d.recs = 1..m /\ DOMAIN d.docs = 1..q
  BY TablesAre DEF DocumentId, Documents, TablesOK
<1>1. /\ ver \in Nat /\ ver > 0
      /\ ver = IF Active(d, id) = {} THEN 1 ELSE d.docs[Newest(d, id)].ver + 1
  <2> DEFINE last == Cardinality(Versions(d, id))
  <2>1. /\ last \in Nat /\ Active(d, id) \subseteq Versions(d, id)
        /\ Versions(d, id) = {} => last = 0
        /\ Versions(d, id) # {} =>
             /\ Active(d, id) # {}
             /\ \A k \in Active(d, id) : d.docs[k].ver = last
    BY <1>0, NewestIsLast
  <2>2. Active(d, id) # {} => Newest(d, id) \in Active(d, id)
    BY DEF Newest
  <2> HIDE DEF last
  <2>3. ver = last + 1
    BY DEF last
  <2> QED  BY <2>1, <2>2, <2>3
<1>2. e = [recs |-> old.recs \o Append(rows, audit), docs |-> Append(old.docs, doc)]
  BY <1>1 DEF Ingested
<1>3. /\ \A k \in 1..n : row(k) \in RecordType
      /\ audit \in RecordType /\ doc \in VersionType
  BY <1>0, <1>1 DEF Record, RecordType, RecordKinds, VersionType
<1> HIDE DEF row, audit, doc
<1>4. rows \in Seq(RecordType) /\ Len(rows) = n /\ DOMAIN rows = 1..n
  <2>1. rows = [k \in 1..n |-> rows[k]] /\ \A k \in 1..n : rows[k] \in RecordType
    BY <1>3
  <2> HIDE DEF rows
  <2> QED  BY <2>1, ListIsSeq
<1>5. \A k \in 1..n : rows[k] = row(k)
  OBVIOUS
<1> HIDE DEF rows, old
<1>6. /\ Append(rows, audit) \in Seq(RecordType) /\ Len(Append(rows, audit)) = n + 1
      /\ Append(rows, audit)[n + 1] = audit
      /\ \A k \in 1..n : Append(rows, audit)[k] = row(k)
  BY <1>3, <1>4, <1>5, AppendIs
<1>7. /\ old \in Tables /\ Len(old.recs) = m /\ Len(old.docs) = q
      /\ \A i \in 1..m :
           /\ SameRow(old.recs[i], d.recs[i])
           /\ old.recs[i].status = IF d.recs[i].doc = id THEN "superseded" ELSE d.recs[i].status
      /\ \A l \in 1..q :
           /\ old.docs[l].id = d.docs[l].id /\ old.docs[l].ver = d.docs[l].ver
           /\ old.docs[l].content = d.docs[l].content
           /\ old.docs[l].state = IF d.docs[l].id = id THEN "superseded" ELSE d.docs[l].state
  BY <1>0, RetiredIs DEF old
<1>8. old.recs \in Seq(RecordType) /\ old.docs \in Seq(VersionType) /\ DOMAIN old.docs = 1..q
  BY <1>7, TablesAre
<1> DEFINE tail == Append(rows, audit)
<1> HIDE DEF tail
<1>9. /\ old.recs \o tail \in Seq(RecordType) /\ DOMAIN (old.recs \o tail) = 1..(m + n + 1)
      /\ \A i \in 1..m : (old.recs \o tail)[i] = old.recs[i]
      /\ \A k \in 1..n : (old.recs \o tail)[m + k] = row(k)
      /\ (old.recs \o tail)[m + n + 1] = audit
  <2>1. tail \in Seq(RecordType) /\ Len(tail) = n + 1 /\ tail[n + 1] = audit
        /\ \A k \in 1..n : tail[k] = row(k)
    BY <1>6 DEF tail
  <2>2. old.recs \in Seq(RecordType) /\ Len(old.recs) = m
    BY <1>7, <1>8
  <2> HIDE DEF old, tail
  <2>3. /\ old.recs \o tail \in Seq(RecordType)
        /\ DOMAIN (old.recs \o tail) = 1..(m + (n + 1))
        /\ \A i \in 1..m : (old.recs \o tail)[i] = old.recs[i]
        /\ \A k \in 1..(n + 1) : (old.recs \o tail)[m + k] = tail[k]
    <3>0. tail \in Seq(RecordType)
      BY <2>1
    <3> DEFINE recs == old.recs
    <3>3. recs \in Seq(RecordType)
      BY <2>2
    <3> HIDE DEF recs
    <3>4. /\ recs \o tail \in Seq(RecordType)
          /\ DOMAIN (recs \o tail) = 1..(Len(recs) + Len(tail))
          /\ \A i \in 1..Len(recs) : (recs \o tail)[i] = recs[i]
          /\ \A k \in 1..Len(tail) : (recs \o tail)[Len(recs) + k] = tail[k]
      BY ONLY <3>0, <3>3, ConcatIs
    <3>1. /\ old.recs \o tail \in Seq(RecordType)
          /\ DOMAIN (old.recs \o tail) = 1..(Len(old.recs) + Len(tail))
          /\ \A i \in 1..Len(old.recs) : (old.recs \o tail)[i] = old.recs[i]
          /\ \A k \in 1..Len(tail) : (old.recs \o tail)[Len(old.recs) + k] = tail[k]
      BY <3>4 DEF recs
    <3>2. Len(old.recs) = m /\ Len(tail) = n + 1
      BY <2>1, <2>2
    <3> QED  BY ONLY <3>1, <3>2
  <2>4. m + (n + 1) = m + n + 1
    BY <1>0, SumsAre
  <2>5. n + 1 \in 1..(n + 1)
    OBVIOUS
  <2>6. \A k \in 1..n : k \in 1..(n + 1)
    OBVIOUS
  <2>7. (old.recs \o tail)[m + (n + 1)] = tail[n + 1]
    BY <2>3, <2>5
  <2>8. \A k \in 1..n : (old.recs \o tail)[m + k] = row(k)
    BY <2>1, <2>3, <2>6
  <2> QED  BY <2>1, <2>3, <2>4, <2>7, <2>8
<1>10. /\ Append(old.docs, doc) \in Seq(VersionType)
       /\ DOMAIN Append(old.docs, doc) = 1..(q + 1)
       /\ Append(old.docs, doc)[q + 1] = doc
       /\ \A l \in 1..q : Append(old.docs, doc)[l] = old.docs[l]
  <2>1. /\ Append(old.docs, doc) \in Seq(VersionType)
        /\ DOMAIN Append(old.docs, doc) = 1..q \cup {q + 1}
        /\ Append(old.docs, doc)[q + 1] = doc
        /\ \A l \in 1..q : Append(old.docs, doc)[l] = old.docs[l]
    BY <1>3, <1>7, <1>8, AppendIs
  <2>2. 1..q \cup {q + 1} = 1..(q + 1)
    BY <1>0
  <2> QED  BY <2>1, <2>2
<1>11. /\ e \in Tables /\ e.recs = old.recs \o tail /\ e.docs = Append(old.docs, doc)
  <2> DEFINE recs == old.recs \o tail
             docs == Append(old.docs, doc)
  <2>1. e = [recs |-> recs, docs |-> docs]
    BY <1>2 DEF tail
  <2>2. recs \in Seq(RecordType) /\ docs \in Seq(VersionType)
    BY <1>9, <1>10
  <2> HIDE DEF recs, docs
  <2>3. e \in Tables /\ e.recs = recs /\ e.docs = docs
    BY <2>1, <2>2 DEF Tables
  <2> QED  BY <2>3 DEF recs, docs
<1>12. /\ \A i \in 1..m : e.recs[i] = old.recs[i]
       /\ \A l \in 1..q : e.docs[l] = old.docs[l]
  BY <1>9, <1>10, <1>11
<1>13. /\ DOMAIN e.recs = 1..(m + n + 1) /\ DOMAIN e.docs = 1..(q + 1)
       /\ \A k \in 1..n : e.recs[m + k] = row(k)
       /\ e.recs[m + n + 1] = audit
       /\ e.docs[q + 1] = doc
  BY <1>9, <1>10, <1>11
<1>14. /\ \A i \in 1..m :
            /\ SameRow(e.recs[i], d.recs[i])
            /\ e.recs[i].status = IF d.recs[i].doc = id THEN "superseded" ELSE d.recs[i].status
       /\ \A l \in 1..q :
            /\ e.docs[l].id = d.docs[l].id /\ e.docs[l].ver = d.docs[l].ver
            /\ e.docs[l].content = d.docs[l].content
            /\ e.docs[l].state = IF d.docs[l].id = id THEN "superseded" ELSE d.docs[l].state
  <2>1. ASSUME NEW i \in 1..m
        PROVE  /\ SameRow(e.recs[i], d.recs[i])
               /\ e.recs[i].status = IF d.recs[i].doc = id THEN "superseded" ELSE d.recs[i].status
    <3>1. e.recs[i] = old.recs[i]
      BY <1>12
    <3> QED  BY <1>7, <3>1
  <2>2. ASSUME NEW l \in 1..q
        PROVE  /\ e.docs[l].id = d.docs[l].id /\ e.docs[l].ver = d.docs[l].ver
               /\ e.docs[l].content = d.docs[l].content
               /\ e.docs[l].state = IF d.docs[l].id = id THEN "superseded" ELSE d.docs[l].state
    <3>1. e.docs[l] = old.docs[l]
      BY <1>12
    <3> QED  BY <1>7, <3>1
  <2> QED  BY <2>1, <2>2
<1>15. e \in Tables /\ id \in Documents /\ m \in Nat /\ q \in Nat /\ ver \in Nat /\ ver > 0
  BY <1>0, <1>1, <1>11
<1>16. DOMAIN d.recs = 1..m /\ DOMAIN d.docs = 1..q
  BY <1>0, <1>1
<1>17. /\ \A k \in 1..n : e.recs[m + k] = Record("chunk", scope, 0, id, ver, k - 1, 0)
       /\ e.recs[m + n + 1] = Record("audit", scope, 0, id, ver, n, 0)
       /\ e.docs[q + 1] = [id |-> id, ver |-> ver, state |-> "active", content |-> content]
  BY <1>13 DEF row, audit, doc
<1> HIDE DEF row, audit, doc
<1> QED  BY <1>13, <1>14, <1>15, <1>16, <1>17 DEF IngestedFrom
LEMMA IngestedKeeps ==
  ASSUME embedder \in Models, NEW d, TablesOK(d), NEW scope \in Scopes, NEW uri \in Uris,
         NEW content \in Contents, NEW n \in Nat, NEW id, id = DocumentId(scope, uri),
         \A k \in Active(d, id) : d.docs[k].content # content,
         NEW e, e = Ingested(d, scope, id, content, n)
  PROVE  TablesOK(e) /\ Unaudited(e) \subseteq Unaudited(d)
<1> DEFINE m == Len(d.recs)
           q == Len(d.docs)
           last == Cardinality(Versions(d, id))
           ver == last + 1
<1>0. m = Len(d.recs) /\ q = Len(d.docs) /\ ver = Cardinality(Versions(d, id)) + 1
  OBVIOUS
<1> HIDE DEF m, q, ver
<1>made. IngestedFrom(d, e, scope, id, content, n, m, q, ver)
  BY <1>0, IngestedIs
<1>1. /\ e \in Tables /\ id \in Documents
      /\ m \in Nat /\ q \in Nat /\ ver \in Nat /\ ver > 0
      /\ DOMAIN d.recs = 1..m /\ DOMAIN d.docs = 1..q
      /\ DOMAIN e.recs = 1..(m + n + 1) /\ DOMAIN e.docs = 1..(q + 1)
      /\ \A i \in 1..m :
           /\ SameRow(e.recs[i], d.recs[i])
           /\ e.recs[i].status = IF d.recs[i].doc = id THEN "superseded" ELSE d.recs[i].status
      /\ \A k \in 1..n : e.recs[m + k] = Record("chunk", scope, 0, id, ver, k - 1, 0)
      /\ e.recs[m + n + 1] = Record("audit", scope, 0, id, ver, n, 0)
      /\ \A l \in 1..q :
           /\ e.docs[l].id = d.docs[l].id /\ e.docs[l].ver = d.docs[l].ver
           /\ e.docs[l].content = d.docs[l].content
           /\ e.docs[l].state = IF d.docs[l].id = id THEN "superseded" ELSE d.docs[l].state
      /\ e.docs[q + 1] = [id |-> id, ver |-> ver, state |-> "active", content |-> content]
  BY <1>made DEF IngestedFrom
<1>2. /\ last \in Nat /\ Active(d, id) \subseteq Versions(d, id)
      /\ Versions(d, id) = {} => last = 0
      /\ Versions(d, id) # {} =>
           /\ Active(d, id) # {}
           /\ \A k \in Active(d, id) : d.docs[k].ver = last
           /\ \A k \in Versions(d, id) : d.docs[k].ver = last => k \in Active(d, id)
  BY <1>1, NewestIsLast
<1>3. id[1] = scope /\ id # NoDocument
  BY <1>1, DocumentIsSome DEF DocumentId
<1> DEFINE Chunks == (m + 1)..(m + n)
           end == m + n + 1
<1>4. ASSUME NEW i \in Chunks
      PROVE  /\ e.recs[i].kind = "chunk" /\ e.recs[i].scope = scope /\ e.recs[i].sup = 0
             /\ e.recs[i].doc = id /\ e.recs[i].ver = ver /\ e.recs[i].of = 0
             /\ e.recs[i].status = "current"
  <2> DEFINE k == i - m
  <2>1. k \in 1..n /\ m + k = i
    BY <1>1
  <2> HIDE DEF k
  <2>2. e.recs[i] = Record("chunk", scope, 0, id, ver, k - 1, 0)
    BY <1>1, <2>1
  <2> QED  BY <2>2 DEF Record
<1>5. /\ e.recs[end].kind = "audit" /\ e.recs[end].scope = scope /\ e.recs[end].sup = 0
      /\ e.recs[end].doc = id /\ e.recs[end].ver = ver /\ e.recs[end].of = 0
      /\ e.recs[end].ord = n
  BY <1>1 DEF Record
<1>6. /\ DOMAIN e.recs = 1..m \cup Chunks \cup {end}
      /\ end \notin 1..m /\ end \notin Chunks /\ \A i \in Chunks : i \notin 1..m
  BY <1>1
<1>7. /\ DOMAIN e.docs = 1..q \cup {q + 1} /\ q + 1 \notin 1..q
  BY <1>1
<1>8. \A i \in 1..m :
        /\ e.recs[i].kind = d.recs[i].kind /\ e.recs[i].scope = d.recs[i].scope
        /\ e.recs[i].sup = d.recs[i].sup /\ e.recs[i].doc = d.recs[i].doc
        /\ e.recs[i].ver = d.recs[i].ver /\ e.recs[i].ord = d.recs[i].ord
        /\ e.recs[i].of = d.recs[i].of
        /\ e.recs[i].status = IF d.recs[i].doc = id THEN "superseded" ELSE d.recs[i].status
  BY <1>1 DEF SameRow
<1>9. /\ e.docs[q + 1].id = id /\ e.docs[q + 1].ver = ver /\ e.docs[q + 1].state = "active"
      /\ e.docs[q + 1].content = content
  BY <1>1
<1>10. /\ \A l \in 1..q :
            /\ e.docs[l].id = d.docs[l].id /\ e.docs[l].ver = d.docs[l].ver
            /\ e.docs[l].content = d.docs[l].content
            /\ e.docs[l].state = IF d.docs[l].id = id THEN "superseded" ELSE d.docs[l].state
       /\ e \in Tables /\ id \in Documents /\ DOMAIN d.recs = 1..m /\ DOMAIN d.docs = 1..q
       /\ m \in Nat /\ q \in Nat
  BY <1>1
<1>11. \A v \in Int : v <= last => v # ver
  BY <1>0, <1>2
<1>12. ver \in 1..ver /\ last <= ver /\ ver = last + 1
  BY <1>0, <1>2
<1> HIDE DEF Chunks, end
<1>13. Versions(e, id) = Versions(d, id) \cup {q + 1} /\ q + 1 \notin Versions(d, id)
  BY <1>7, <1>9, <1>10 DEF Versions
<1>14. \A o : o # id => Versions(e, o) = Versions(d, o)
  BY <1>7, <1>9, <1>10 DEF Versions
<1>15. Cardinality(Versions(e, id)) = ver
  <2>1. IsFiniteSet(Versions(d, id))
    <3>1. 1 \in Int /\ q \in Int
      BY <1>10
    <3>2. IsFiniteSet(1..q) /\ Versions(d, id) \in SUBSET (1..q)
      BY <1>10, <3>1, FS_Interval DEF Versions
    <3> QED  BY <3>2, FS_Subset
  <2>2. Cardinality(Versions(e, id)) = last + 1
    <3> DEFINE S == Versions(d, id)
    <3>1. IsFiniteSet(S) /\ q + 1 \notin S /\ Versions(e, id) = S \cup {q + 1}
      BY <1>13, <2>1
    <3> HIDE DEF S
    <3>2. Cardinality(S \cup {q + 1}) = Cardinality(S) + 1
      BY ONLY <3>1, FS_AddElement
    <3> QED  BY <3>1, <3>2 DEF S
  <2>3. ver = last + 1
    BY <1>12
  <2> QED  BY ONLY <2>2, <2>3
<1> HIDE DEF last
<1>16. ASSUME NEW i \in DOMAIN e.recs
       PROVE  RowOK(e, e.recs[i])
  <2>1. CASE i \in Chunks \cup {end}
    BY <1>3, <1>4, <1>5, <1>12, <1>15, <2>1 DEF RowOK
  <2>2. CASE i \in 1..m
    <3>1. RowOK(d, d.recs[i])
      BY <1>10, <2>2 DEF TablesOK
    <3>2. d.recs[i].doc # NoDocument =>
            d.recs[i].ver \in 1..Cardinality(Versions(e, d.recs[i].doc))
      <4>1. CASE d.recs[i].doc = id
        <5>1. d.recs[i].ver \in 1..last
          BY <1>3, <3>1, <4>1 DEF RowOK, last
        <5> QED  BY <1>2, <1>12, <1>15, <4>1, <5>1
      <4>2. CASE d.recs[i].doc # id
        BY <1>14, <3>1, <4>2 DEF RowOK
      <4> QED  BY <4>1, <4>2
    <3>3. \A j \in DOMAIN d.recs : j \in DOMAIN e.recs
      BY <1>6, <1>10
    <3> QED  BY <1>8, <2>2, <3>1, <3>2, <3>3 DEF RowOK
  <2> QED  BY <1>6, <2>1, <2>2
<1>17. ChainOK(e)
  <2> SUFFICES ASSUME NEW i \in DOMAIN e.recs, e.recs[i].doc = NoDocument
               PROVE  /\ Cardinality(Heirs(e, i)) = IF e.recs[i].status = "superseded" THEN 1 ELSE 0
                      /\ \A j \in Heirs(e, i) : /\ e.recs[j].scope = e.recs[i].scope
                                                /\ e.recs[j].kind = e.recs[i].kind
    BY DEF ChainOK
  <2>1. i \in 1..m
    BY <1>3, <1>4, <1>5, <1>6
  <2>2. d.recs[i].doc = NoDocument /\ e.recs[i].status = d.recs[i].status
    BY <1>3, <1>8, <2>1
  <2>3. i # 0
    BY <2>1
  <2>4. Heirs(e, i) = Heirs(d, i)
    BY <1>4, <1>5, <1>6, <1>8, <1>10, <2>3 DEF Heirs
  <2>5. \A j \in Heirs(d, i) : j \in 1..m
    BY <1>10 DEF Heirs
  <2>6. /\ Cardinality(Heirs(d, i)) = IF d.recs[i].status = "superseded" THEN 1 ELSE 0
        /\ \A j \in Heirs(d, i) : /\ d.recs[j].scope = d.recs[i].scope
                                  /\ d.recs[j].kind = d.recs[i].kind
    BY <1>10, <2>1, <2>2 DEF TablesOK, ChainOK
  <2>7. \A j \in Heirs(e, i) : /\ e.recs[j].scope = e.recs[i].scope
                               /\ e.recs[j].kind = e.recs[i].kind
    BY <1>8, <2>1, <2>4, <2>5, <2>6
  <2> QED  BY <2>2, <2>4, <2>6, <2>7
<1>18. ASSUME NEW o \in Documents, o # id, Versions(e, o) # {}
       PROVE  /\ {e.docs[l].ver : l \in Versions(e, o)} = 1..Cardinality(Versions(e, o))
              /\ \A l \in Versions(e, o) :
                   e.docs[l].state = "active" <=> e.docs[l].ver = Cardinality(Versions(e, o))
              /\ \A l, k \in Versions(e, o) : e.docs[k].ver = e.docs[l].ver + 1
                                                => e.docs[k].content # e.docs[l].content
              /\ \A i \in ChunksOf(e, o) : e.recs[i].ver = Cardinality(Versions(e, o))
              /\ {Cardinality(ChunksOf(e, o))} = CountsOf(e, o, Cardinality(Versions(e, o)))
  <2> DEFINE mine == Versions(d, o)
             size == Cardinality(mine)
  <2>0. o # NoDocument
    BY DocumentIsSome
  <2>1. Versions(e, o) = mine /\ mine # {}
    BY <1>14, <1>18
  <2>2. \A l \in mine : /\ e.docs[l].ver = d.docs[l].ver /\ e.docs[l].content = d.docs[l].content
                        /\ e.docs[l].state = d.docs[l].state
    BY <1>10, <1>18 DEF Versions
  <2>3. ChunksOf(e, o) = ChunksOf(d, o) /\ \A i \in ChunksOf(d, o) : i \in 1..m
    BY <1>4, <1>5, <1>6, <1>8, <1>10, <1>18 DEF ChunksOf, Current
  <2>4. CountsOf(e, o, size) = CountsOf(d, o, size)
    <3> DEFINE rows(f) == {j \in DOMAIN f.recs :
                 f.recs[j].kind = "audit" /\ f.recs[j].doc = o /\ f.recs[j].ver = size}
    <3>1. \A j \in Chunks \cup {end} : j \notin rows(e)
      BY <1>4, <1>5, <1>18
    <3>2. \A j \in 1..m : j \in rows(e) <=> j \in rows(d)
      BY <1>6, <1>8, <1>10
    <3>3. rows(e) = rows(d) /\ rows(d) \subseteq 1..m
      BY <1>6, <1>10, <3>1, <3>2
    <3>4. \A j \in 1..m : e.recs[j].ord = d.recs[j].ord
      BY <1>8
    <3> HIDE DEF rows
    <3>5. {e.recs[j].ord : j \in rows(e)} = {d.recs[j].ord : j \in rows(d)}
      BY <3>3, <3>4
    <3> QED  BY <3>5 DEF rows, CountsOf
  <2>5. /\ {d.docs[l].ver : l \in mine} = 1..size
        /\ \A l \in mine : d.docs[l].state = "active" <=> d.docs[l].ver = size
        /\ \A l, k \in mine : d.docs[k].ver = d.docs[l].ver + 1
                                => d.docs[k].content # d.docs[l].content
        /\ \A i \in ChunksOf(d, o) : d.recs[i].ver = size
        /\ {Cardinality(ChunksOf(d, o))} = CountsOf(d, o, size)
    BY <2>1 DEF TablesOK, VersionsOK
  <2> HIDE DEF mine, size
  <2>6. \A i \in ChunksOf(d, o) : e.recs[i].ver = size
    BY <1>8, <2>3, <2>5
  <2>7. {e.docs[l].ver : l \in mine} = 1..size
    BY <2>2, <2>5
  <2>8. Cardinality(Versions(e, o)) = size
    BY <2>1 DEF size
  <2> QED  BY <2>1, <2>2, <2>3, <2>4, <2>5, <2>6, <2>7, <2>8
<1>19. Versions(d, id) # {} =>
         /\ {d.docs[l].ver : l \in Versions(d, id)} = 1..last
         /\ \A l, k \in Versions(d, id) : d.docs[k].ver = d.docs[l].ver + 1
                                            => d.docs[k].content # d.docs[l].content
  BY <1>10 DEF TablesOK, VersionsOK, last
<1>20. \A l \in Versions(d, id) :
         /\ e.docs[l].ver = d.docs[l].ver /\ e.docs[l].content = d.docs[l].content
         /\ e.docs[l].state = "superseded" /\ d.docs[l].ver \in 1..last
  <2>1. \A l \in Versions(d, id) : d.docs[l].ver \in 1..last
    BY <1>19
  <2> QED  BY <1>10, <2>1 DEF Versions
<1>21. {e.docs[l].ver : l \in Versions(e, id)} = 1..ver
  <2>1. \A l \in Versions(e, id) : e.docs[l].ver \in 1..ver
    <3>1. 1..last \subseteq 1..ver
      BY <1>2, <1>12
    <3> QED  BY <1>9, <1>12, <1>13, <1>20, <3>1
  <2>2. ASSUME NEW v \in 1..ver
        PROVE  \E l \in Versions(e, id) : e.docs[l].ver = v
    <3>1. CASE v = ver
      BY <1>9, <1>13, <3>1
    <3>2. CASE v # ver
      <4>1. v \in 1..last
        BY <1>2, <1>12, <3>2
      <4>2. Versions(d, id) # {}
        BY <1>2, <4>1
      <4>3. PICK l \in Versions(d, id) : d.docs[l].ver = v
        BY <1>19, <4>1, <4>2
      <4> QED  BY <1>13, <1>20, <4>3
    <3> QED  BY <3>1, <3>2
  <2> QED  BY <2>1, <2>2
<1>22. \A l \in Versions(e, id) : e.docs[l].state = "active" <=> e.docs[l].ver = ver
  <2>1. \A l \in Versions(d, id) : d.docs[l].ver # ver
    BY <1>11, <1>2, <1>20
  <2> QED  BY <1>9, <1>13, <1>20, <2>1
<1>23. ASSUME NEW l \in Versions(e, id), NEW k \in Versions(e, id),
              e.docs[k].ver = e.docs[l].ver + 1
       PROVE  e.docs[k].content # e.docs[l].content
  <2>1. CASE l = q + 1
    <3>1. e.docs[k].ver \in 1..ver /\ e.docs[l].ver = ver
      BY <1>9, <1>21, <2>1
    <3> QED  BY <1>2, <1>12, <1>23, <3>1
  <2>2. CASE l \in Versions(d, id) /\ k \in Versions(d, id)
    BY <1>19, <1>20, <1>23, <2>2
  <2>3. CASE l \in Versions(d, id) /\ k = q + 1
    <3>1. d.docs[l].ver = last
      <4> DEFINE v == d.docs[l].ver
      <4>1. e.docs[l].ver = v /\ v \in 1..last
        BY <1>20, <2>3
      <4>2. e.docs[k].ver = last + 1
        BY <1>9, <1>12, <2>3
      <4>3. last + 1 = v + 1
        BY <1>23, <4>1, <4>2
      <4> HIDE DEF v
      <4>4. v = last
        BY <1>2, <4>1, <4>3
      <4> QED  BY <4>4 DEF v
    <3>2. l \in Active(d, id)
      BY <1>2, <2>3, <3>1
    <3> QED  BY <1>9, <1>20, <2>3, <3>2
  <2> QED  BY <1>13, <2>1, <2>2, <2>3
<1>24. ChunksOf(e, id) = Chunks
  BY <1>4, <1>5, <1>6, <1>8 DEF ChunksOf, Current
<1>25. Cardinality(Chunks) = n
  <2> DEFINE a == m + 1
             b == m + n
  <2>1. a \in Int /\ b \in Int /\ Chunks = a..b
    BY <1>10 DEF Chunks
  <2>2. (a > b => n = 0) /\ (~(a > b) => b - a + 1 = n)
    BY <1>10
  <2> HIDE DEF a, b
  <2>3. Cardinality(a..b) = IF a > b THEN 0 ELSE b - a + 1
    BY <2>1, FS_Interval
  <2> QED  BY <2>1, <2>2, <2>3
<1>26. CountsOf(e, id, ver) = {n}
  <2>1. ASSUME NEW i \in 1..m, e.recs[i].doc = id
        PROVE  e.recs[i].ver # ver
    <3>1. RowOK(d, d.recs[i]) /\ d.recs[i].doc = id
      BY <1>8, <1>10, <2>1 DEF TablesOK
    <3>2. d.recs[i].ver \in 1..last
      BY <1>3, <3>1 DEF RowOK, last
    <3> QED  BY <1>2, <1>8, <1>11, <3>2
  <2>2. {j \in DOMAIN e.recs : /\ e.recs[j].kind = "audit" /\ e.recs[j].doc = id
                               /\ e.recs[j].ver = ver} = {end}
    BY <1>4, <1>5, <1>6, <2>1
  <2> QED  BY <1>5, <2>2 DEF CountsOf
<1>27. VersionsOK(e)
  <2>1. \A i \in ChunksOf(e, id) : e.recs[i].ver = ver
    BY <1>4, <1>24
  <2>2. {Cardinality(ChunksOf(e, id))} = CountsOf(e, id, ver)
    BY <1>24, <1>25, <1>26
  <2> SUFFICES ASSUME NEW o \in Documents, Versions(e, o) # {}
               PROVE  /\ {e.docs[l].ver : l \in Versions(e, o)} = 1..Cardinality(Versions(e, o))
                      /\ \A l \in Versions(e, o) :
                           e.docs[l].state = "active" <=> e.docs[l].ver = Cardinality(Versions(e, o))
                      /\ \A l, k \in Versions(e, o) : e.docs[k].ver = e.docs[l].ver + 1
                                                        => e.docs[k].content # e.docs[l].content
                      /\ \A i \in ChunksOf(e, o) : e.recs[i].ver = Cardinality(Versions(e, o))
                      /\ {Cardinality(ChunksOf(e, o))} = CountsOf(e, o, Cardinality(Versions(e, o)))
    BY DEF VersionsOK
  <2>3. CASE o # id
    BY <1>18, <2>3
  <2>4. CASE o = id
    BY <1>15, <1>21, <1>22, <1>23, <2>1, <2>2, <2>4
  <2> QED  BY <2>3, <2>4
<1>28. Unaudited(e) \subseteq Unaudited(d)
  <2> SUFFICES ASSUME NEW i \in Unaudited(e)
               PROVE  i \in Unaudited(d)
    OBVIOUS
  <2>1. /\ i \in DOMAIN e.recs /\ e.recs[i].kind # "audit" /\ e.recs[i].doc = NoDocument
        /\ \A j \in DOMAIN e.recs : e.recs[j].of # i
    BY DEF Unaudited
  <2>2. i \in 1..m
    BY <1>3, <1>4, <1>5, <1>6, <2>1
  <2>3. \A j \in 1..m : d.recs[j].of # i
    BY <1>6, <1>8, <2>1
  <2> QED  BY <1>8, <1>10, <2>1, <2>2, <2>3 DEF Unaudited
<1> QED  BY <1>10, <1>16, <1>17, <1>27, <1>28 DEF TablesOK
-----------------------------------------------------------------------------
(***************************************************************************)
(* The store.  Both views of the tables are whole at every step, and a     *)
(* fact or a policy without its audit entry is one a failure left.         *)
(***************************************************************************)
StoreOK ==
  /\ embedder \in Models /\ faults \in Nat
  /\ TablesOK(db) /\ TablesOK(disk)
  /\ Cardinality(Unaudited(db)) <= faults
  /\ Cardinality(Unaudited(disk)) <= faults

(* No row of a table goes, and none comes back. *)
Grows(d, e) ==
  /\ DOMAIN d.recs \subseteq DOMAIN e.recs
  /\ \A i \in DOMAIN d.recs : i \in Searchable(e) => i \in Searchable(d)

LEMMA RowsAreFinite ==
  ASSUME NEW d \in Tables
  PROVE  /\ IsFiniteSet(DOMAIN d.recs) /\ DOMAIN d.recs \subseteq Nat
         /\ IsFiniteSet(Unaudited(d)) /\ IsFiniteSet(Searchable(d))
         /\ Cardinality(Unaudited(d)) \in Nat
<1>1. 1 \in Int /\ Len(d.recs) \in Int /\ DOMAIN d.recs = 1..Len(d.recs)
  BY TablesAre
<1>2. IsFiniteSet(DOMAIN d.recs) /\ DOMAIN d.recs \subseteq Nat
  BY <1>1, FS_Interval
<1>3. Unaudited(d) \in SUBSET (DOMAIN d.recs) /\ Searchable(d) \in SUBSET (DOMAIN d.recs)
  BY DEF Unaudited, Searchable, Current
<1> QED  BY <1>2, <1>3, FS_Subset, FS_CardinalityType

LEMMA FewerUnaudited ==
  ASSUME NEW d \in Tables, NEW e, Unaudited(e) \subseteq Unaudited(d)
  PROVE  Cardinality(Unaudited(e)) <= Cardinality(Unaudited(d))
BY RowsAreFinite, FS_Subset

(* write: what it makes of the tables, with its audit entry and without. *)
LEMMA WriteKeeps ==
  ASSUME StoreOK, NEW k \in {"fact", "policy"}, NEW s \in Scopes, NEW sup \in Nat,
         NEW r, r = Record(k, s, sup, NoDocument, 0, 0, 0), MaySupersede(r),
         NEW d, d = Insert(db, r), NEW e, e = AppendAudit(d)
  PROVE  /\ TablesOK(d) /\ Cardinality(Unaudited(d)) <= faults + 1
         /\ TablesOK(e) /\ Cardinality(Unaudited(e)) <= faults
         /\ Grows(db, e)
<1> DEFINE n == Len(db.recs) + 1
<1>1. /\ r \in RecordType /\ r.doc = NoDocument /\ r.kind = k /\ r.status = "current"
      /\ r.sup = sup /\ r.scope = s
  BY DEF Record, RecordType, RecordKinds, StoreOK
<1>2. db \in Tables /\ TablesOK(db) /\ embedder \in Models
  BY DEF StoreOK, TablesOK
<1>3. r.kind # "chunk" /\ r.kind # "audit"
  BY <1>1
<1>4. TablesOK(d)
  <2>1. r.sup # 0 => /\ r.sup \in DOMAIN db.recs /\ r.kind \in {"fact", "policy"}
                     /\ db.recs[r.sup].scope = r.scope /\ db.recs[r.sup].kind = r.kind
                     /\ db.recs[r.sup].status = "current"
    BY <1>1 DEF MaySupersede
  <2> QED  BY <1>1, <1>2, <1>3, <2>1, InsertKeeps
<1>5. /\ d \in Tables /\ Len(d.recs) = n
      /\ n \in Nat /\ n # 0 /\ n \notin DOMAIN db.recs
      /\ DOMAIN d.recs = DOMAIN db.recs \cup {n}
      /\ \A i \in DOMAIN db.recs :
           /\ SameRow(d.recs[i], db.recs[i])
           /\ d.recs[i].status = IF i = r.sup THEN "superseded" ELSE db.recs[i].status
  BY <1>1, <1>2, InsertIs
<1>6. Unaudited(d) \subseteq Unaudited(db) \cup {n}
  BY <1>1, <1>2, UnauditedGrows
<1> HIDE DEF n
<1>7. TablesOK(e) /\ Unaudited(e) \subseteq Unaudited(d) \ {n}
  <2>1. Len(d.recs) > 0
    BY <1>5
  <2> QED  BY <1>2, <1>4, <1>5, <2>1, AuditKeeps
<1>8. Cardinality(Unaudited(d)) <= faults + 1
  <2>1. IsFiniteSet(Unaudited(db)) /\ Cardinality(Unaudited(db)) \in Nat
    BY <1>2, RowsAreFinite
  <2>2. /\ IsFiniteSet(Unaudited(db) \cup {n})
        /\ Cardinality(Unaudited(db) \cup {n}) <= Cardinality(Unaudited(db)) + 1
    <3>1. CASE n \in Unaudited(db)
      <4>1. Unaudited(db) \cup {n} = Unaudited(db)
        BY <3>1
      <4> QED  BY <2>1, <4>1
    <3>2. CASE n \notin Unaudited(db)
      BY <2>1, <3>2, FS_AddElement
    <3> QED  BY <3>1, <3>2
  <2>3. Cardinality(Unaudited(d)) <= Cardinality(Unaudited(db) \cup {n})
    BY <1>6, <2>2, FS_Subset
  <2>4. /\ Cardinality(Unaudited(d)) \in Nat /\ Cardinality(Unaudited(db)) <= faults
        /\ faults \in Nat
    BY <1>5, RowsAreFinite DEF StoreOK
  <2>5. Cardinality(Unaudited(db) \cup {n}) \in Nat
    BY <2>2, FS_CardinalityType
  <2> QED  BY <2>1, <2>2, <2>3, <2>4, <2>5
<1>9. Cardinality(Unaudited(e)) <= faults
  <2>1. Unaudited(e) \subseteq Unaudited(db) /\ e \in Tables
    BY <1>6, <1>7 DEF TablesOK
  <2>2. /\ Cardinality(Unaudited(e)) \in Nat /\ Cardinality(Unaudited(db)) \in Nat
        /\ Cardinality(Unaudited(db)) <= faults /\ faults \in Nat
    BY <1>2, <2>1, RowsAreFinite DEF StoreOK
  <2>3. Cardinality(Unaudited(e)) <= Cardinality(Unaudited(db))
    BY <1>2, <2>1, FewerUnaudited
  <2> QED  BY <2>2, <2>3
<1>10. Grows(db, d)
  <2>1. \A i \in DOMAIN db.recs : d.recs[i].kind = db.recs[i].kind
    BY <1>5 DEF SameRow
  <2>2. \A i \in DOMAIN db.recs : d.recs[i].status = "current" => db.recs[i].status = "current"
    BY <1>5
  <2> QED  BY <1>5, <2>1, <2>2 DEF Grows, Searchable, Current
<1>11. Grows(d, e)
  <2> DEFINE a == Record("audit", d.recs[n].scope, 0, NoDocument, 0, 0, n)
  <2>1. e = Insert(d, a)
    BY <1>5 DEF AppendAudit
  <2>2. d.recs[n] \in RecordType
    BY <1>5, TablesAre
  <2>3. a \in RecordType
    BY <1>2, <1>5, <2>2 DEF Record, RecordType, RecordKinds
  <2> HIDE DEF a
  <2>4. /\ DOMAIN e.recs = DOMAIN d.recs \cup {Len(d.recs) + 1}
        /\ \A i \in DOMAIN d.recs :
             /\ SameRow(e.recs[i], d.recs[i])
             /\ e.recs[i].status = IF i = a.sup THEN "superseded" ELSE d.recs[i].status
    BY <1>5, <2>1, <2>3, InsertIs
  <2>5. \A i \in DOMAIN d.recs : e.recs[i].kind = d.recs[i].kind
    BY <2>4 DEF SameRow
  <2>6. \A i \in DOMAIN d.recs : e.recs[i].status = "current" => d.recs[i].status = "current"
    BY <2>4
  <2> QED  BY <2>4, <2>5, <2>6 DEF Grows, Searchable, Current
<1>12. Grows(db, e)
  BY <1>10, <1>11 DEF Grows
<1> QED  BY <1>4, <1>7, <1>8, <1>9, <1>12

LEMMA IngestKeeps ==
  ASSUME StoreOK, NEW scope \in Scopes, NEW uri \in Uris, NEW content \in Contents,
         NEW n \in Nat, ~Unchanged(DocumentId(scope, uri), content),
         NEW e, e = Ingested(db, scope, DocumentId(scope, uri), content, n)
  PROVE  /\ TablesOK(e) /\ Cardinality(Unaudited(e)) <= faults
         /\ Grows(db, e)
<1> DEFINE id == DocumentId(scope, uri)
           m == Len(db.recs)
           q == Len(db.docs)
           ver == Cardinality(Versions(db, id)) + 1
<1>1. db \in Tables /\ TablesOK(db) /\ embedder \in Models
  BY DEF StoreOK, TablesOK
<1>2. \A k \in Active(db, id) : db.docs[k].content # content
  BY DEF Unchanged
<1>3. TablesOK(e) /\ Unaudited(e) \subseteq Unaudited(db)
  BY <1>1, <1>2, IngestedKeeps
<1>4. IngestedFrom(db, e, scope, id, content, n, m, q, ver)
  BY <1>1, IngestedIs
<1>5. Cardinality(Unaudited(e)) <= faults
  <2>1. e \in Tables
    BY <1>3 DEF TablesOK
  <2>2. /\ Cardinality(Unaudited(e)) \in Nat /\ Cardinality(Unaudited(db)) \in Nat
        /\ Cardinality(Unaudited(db)) <= faults /\ faults \in Nat
    BY <1>1, <2>1, RowsAreFinite DEF StoreOK
  <2>3. Cardinality(Unaudited(e)) <= Cardinality(Unaudited(db))
    BY <1>1, <1>3, FewerUnaudited
  <2> QED  BY <2>2, <2>3
<1> HIDE DEF id, m, q, ver
<1>6. /\ m \in Nat /\ DOMAIN db.recs = 1..m /\ DOMAIN e.recs = 1..(m + n + 1)
      /\ \A i \in 1..m :
           /\ SameRow(e.recs[i], db.recs[i])
           /\ e.recs[i].status = IF db.recs[i].doc = id THEN "superseded" ELSE db.recs[i].status
  BY <1>4 DEF IngestedFrom
<1>7. DOMAIN db.recs \subseteq DOMAIN e.recs
  BY <1>6
<1>8. \A i \in DOMAIN db.recs :
        /\ e.recs[i].kind = db.recs[i].kind
        /\ e.recs[i].status = "current" => db.recs[i].status = "current"
  BY <1>6 DEF SameRow
<1>9. Grows(db, e)
  BY <1>7, <1>8 DEF Grows, Searchable, Current
<1> QED  BY <1>3, <1>5, <1>9

LEMMA ReembedKeeps ==
  ASSUME StoreOK, NEW rows, NEW e, e = Reembedded(db, rows)
  PROVE  /\ TablesOK(e) /\ Cardinality(Unaudited(e)) <= faults
         /\ DOMAIN e.recs = DOMAIN db.recs /\ Searchable(e) = Searchable(db)
         /\ rows = {} => e = db
<1>1. embedder \in Models /\ TablesOK(db)
  BY DEF StoreOK
<1>2. /\ TablesOK(e) /\ Unaudited(e) = Unaudited(db)
      /\ DOMAIN e.recs = DOMAIN db.recs /\ e.docs = db.docs
      /\ \A i \in DOMAIN db.recs :
           /\ e.recs[i].kind = db.recs[i].kind /\ e.recs[i].status = db.recs[i].status
  BY <1>1, ReembeddedKeeps
<1>3. Searchable(e) = Searchable(db)
  BY <1>2 DEF Searchable, Current
<1>4. ASSUME rows = {}
      PROVE  e = db
  <2>1. e = [db EXCEPT !.recs = [i \in DOMAIN db.recs |-> db.recs[i]]]
    BY <1>4 DEF Reembedded
  <2>2. db.recs = [i \in DOMAIN db.recs |-> db.recs[i]] /\ db = [recs |-> db.recs, docs |-> db.docs]
    BY <1>1, TablesAre DEF TablesOK
  <2> QED  BY <2>1, <2>2
<1> QED  BY <1>2, <1>3, <1>4 DEF StoreOK

LEMMA StoreInit == Init => StoreOK
<1> SUFFICES ASSUME Init
             PROVE  StoreOK
  OBVIOUS
<1>1. db = NoTables /\ disk = NoTables /\ embedder \in Models /\ faults = 0
  BY MemoryAssumption DEF Init
<1> DEFINE d == NoTables
<1>2. /\ d \in Tables /\ DOMAIN d.recs = {} /\ DOMAIN d.docs = {}
  BY DEF NoTables, Tables
<1> HIDE DEF d
<1>3. (\A id : Versions(d, id) = {}) /\ Unaudited(d) = {}
  BY <1>2 DEF Versions, Unaudited
<1>4. TablesOK(d)
  BY <1>2, <1>3 DEF TablesOK, ChainOK, VersionsOK
<1>5. Cardinality(Unaudited(d)) = 0
  BY <1>3, FS_EmptySet
<1> QED  BY <1>1, <1>4, <1>5 DEF StoreOK, d
LEMMA StoreStep == StoreOK /\ [Next]_vars => StoreOK'
<1> SUFFICES ASSUME StoreOK, [Next]_vars
             PROVE  StoreOK'
  OBVIOUS
<1>0. /\ embedder \in Models /\ faults \in Nat /\ TablesOK(db) /\ TablesOK(disk)
      /\ Cardinality(Unaudited(db)) <= faults /\ Cardinality(Unaudited(disk)) <= faults
  BY DEF StoreOK
<1>f. \A c \in Nat : c <= faults => c <= faults + 1
  BY <1>0
<1>c. Cardinality(Unaudited(db)) \in Nat /\ Cardinality(Unaudited(disk)) \in Nat
  BY <1>0, RowsAreFinite DEF TablesOK
<1>1. ASSUME NEW k \in {"fact", "policy"}, NEW s \in Scopes, NEW sup \in 0..Len(db.recs),
             NEW role, NEW r, r = Record(k, s, sup, NoDocument, 0, 0, 0),
             Write(r, role) \/ WriteFails(r, role)
      PROVE  StoreOK'
  <2>1. sup \in Nat
    BY <1>0, TablesAre DEF TablesOK
  <2> DEFINE d == Insert(db, r)
             e == AppendAudit(d)
  <2>2. MaySupersede(r)
    BY <1>1 DEF Write, WriteFails
  <2>3. /\ TablesOK(d) /\ Cardinality(Unaudited(d)) <= faults + 1
        /\ TablesOK(e) /\ Cardinality(Unaudited(e)) <= faults
    BY <1>1, <2>1, <2>2, WriteKeeps
  <2>4. \/ db' = e /\ disk' = e /\ UNCHANGED <<embedder, faults>>
        \/ db' = d /\ faults' = faults + 1 /\ UNCHANGED <<disk, embedder>>
    BY <1>1 DEF Write, WriteFails
  <2> HIDE DEF d, e
  <2> QED  BY <1>0, <1>f, <1>c, <2>3, <2>4 DEF StoreOK
<1>2. ASSUME NEW scope \in Scopes, NEW uri \in Uris, NEW content \in Contents,
             NEW n \in 0..MaxChunks, Ingest(scope, uri, content, n)
      PROVE  StoreOK'
  <2>1. n \in Nat
    BY MemoryAssumption
  <2> DEFINE e == Ingested(db, scope, DocumentId(scope, uri), content, n)
  <2>2. TablesOK(e) /\ Cardinality(Unaudited(e)) <= faults
    BY <1>2, <2>1, IngestKeeps DEF Ingest
  <2>3. db' = e /\ disk' = e /\ UNCHANGED <<embedder, faults>>
    BY <1>2 DEF Ingest
  <2> HIDE DEF e
  <2> QED  BY <1>0, <2>2, <2>3 DEF StoreOK
<1>3. ASSUME NEW scope, NEW uri, NEW content, IngestFails(scope, uri, content)
      PROVE  StoreOK'
  BY <1>0, <1>f, <1>c, <1>3 DEF IngestFails, StoreOK
<1>4. CASE Ensure \/ FinishPersist \/ \E s \in Scopes : Recall(s)
  BY <1>0, <1>4 DEF Ensure, FinishPersist, Recall, StoreOK
<1>5. CASE Search
  <2> DEFINE old == {i \in Rows(request) : Stale(i)}
             e == Reembedded(db, old)
  <2>1. TablesOK(e) /\ Cardinality(Unaudited(e)) <= faults
    BY ReembedKeeps
  <2>2. db' = e /\ disk' \in {disk, e} /\ UNCHANGED <<embedder, faults>>
    BY <1>5 DEF Search
  <2> HIDE DEF e
  <2> QED  BY <1>0, <2>1, <2>2 DEF StoreOK
<1>6. CASE SearchFails
  <2>1. PICK i \in {j \in Rows(request) : Stale(j)} :
          db' = Reembedded(db, {j \in Rows(request) : j < i})
    BY <1>6 DEF SearchFails
  <2>2. TablesOK(db') /\ Cardinality(Unaudited(db')) <= faults
    BY <2>1, ReembedKeeps
  <2>3. UNCHANGED <<disk, embedder>> /\ faults' = faults + 1
    BY <1>6 DEF SearchFails
  <2>4. Cardinality(Unaudited(db')) \in Nat
    BY <2>2, RowsAreFinite DEF TablesOK
  <2> QED  BY <1>0, <1>f, <1>c, <2>2, <2>3, <2>4 DEF StoreOK
<1>7. CASE Crash \/ \E m \in Models : Open(m)
  BY <1>0, <1>7 DEF Crash, Open, StoreOK
<1>8. CASE UNCHANGED vars
  BY <1>0, <1>8 DEF vars, StoreOK
<1> QED
  BY <1>1, <1>2, <1>3, <1>4, <1>5, <1>6, <1>7, <1>8 DEF Next

LEMMA StoreAlways == Spec => []StoreOK
<1> QED  BY StoreInit, StoreStep, PTL DEF Spec

-----------------------------------------------------------------------------
(***************************************************************************)
(* What the tables being whole comes to.                                   *)
(***************************************************************************)
(* Whatever the embedder raises and wherever the process dies, the         *)
(* versions of a document are 1, 2, ... with only the last one active, no  *)
(* two in a row have the same content, and its current chunks are those of *)
(* the active version, all of them (ingest_document).                      *)
THEOREM DocumentsAreReplacedWholeAlways == Spec => []DocumentsAreReplacedWhole
<1>1. StoreOK => DocumentsAreReplacedWhole
  <2> SUFFICES ASSUME StoreOK, NEW d \in Views, NEW k \in DOMAIN d.docs
               PROVE  LET id   == d.docs[k].id
                          mine == Versions(d, id)
                          last == Cardinality(mine)
                      IN  /\ {d.docs[l].ver : l \in mine} = 1..last
                          /\ \A l \in mine : d.docs[l].state = "active" <=> d.docs[l].ver = last
                          /\ \A l, m \in mine : d.docs[m].ver = d.docs[l].ver + 1
                                                  => d.docs[m].content # d.docs[l].content
                          /\ \A i \in ChunksOf(d, id) : d.recs[i].ver = last
                          /\ {Cardinality(ChunksOf(d, id))} = CountsOf(d, id, last)
    BY DEF DocumentsAreReplacedWhole, Versions, ChunksOf, CountsOf
  <2> DEFINE id == d.docs[k].id
  <2>1. TablesOK(d)
    BY DEF Views, StoreOK
  <2>2. id \in Documents /\ Versions(d, id) # {}
    <3>1. d.docs[k] \in VersionType
      BY <2>1, TablesAre DEF TablesOK
    <3> QED  BY <3>1 DEF VersionType, Versions
  <2> HIDE DEF id
  <2>3. LET mine == Versions(d, id)
            last == Cardinality(mine)
        IN  /\ {d.docs[l].ver : l \in mine} = 1..last
            /\ \A l \in mine : d.docs[l].state = "active" <=> d.docs[l].ver = last
            /\ \A l, m \in mine : d.docs[m].ver = d.docs[l].ver + 1
                                    => d.docs[m].content # d.docs[l].content
            /\ \A i \in ChunksOf(d, id) : d.recs[i].ver = last
            /\ {Cardinality(ChunksOf(d, id))} = CountsOf(d, id, last)
    BY <2>1, <2>2 DEF TablesOK, VersionsOK
  <2> QED  BY <2>3 DEF id
<1> QED  BY <1>1, StoreAlways, PTL

(* A superseded record has exactly one successor, of its kind and scope,   *)
(* and a current one has none; and of the facts and policies only as many  *)
(* as there were failures lack their audit entry (write, _append_audit).   *)
THEOREM SupersessionIsAChainAlways == Spec => []SupersessionIsAChain
<1>1. StoreOK => SupersessionIsAChain
  <2> SUFFICES ASSUME StoreOK, NEW d \in Views
               PROVE  /\ ChainOK(d) /\ Cardinality(Unaudited(d)) <= faults
    BY DEF SupersessionIsAChain, ChainOK, Heirs, Unaudited
  <2> QED  BY DEF Views, StoreOK, TablesOK
<1> QED  BY <1>1, StoreAlways, PTL
-----------------------------------------------------------------------------
(***************************************************************************)
(* The index and its two files.  What a search uses names current rows     *)
(* only and lacks none but those to embed again; and while nothing has     *)
(* failed, each of its positions holds the vector of the id beside it.     *)
(***************************************************************************)
Named(x) == [k \in DOMAIN x.vecs |-> x.vecs[k].of] = x.ids

(* The file of ids still has a row that is no longer searched. *)
Gone(ids) == \E i \in ToSet(ids) : i \in DOMAIN db.recs /\ i \notin Searchable(db)

SidecarsOK ==
  /\ files = [vecs |-> files.vecs, ids |-> files.ids] /\ files.ids \in Seq(Nat)
  /\ index = [ids |-> index.ids, vecs |-> index.vecs] /\ index.ids \in Seq(Nat)
  /\ after \in {"idle", "search"}

IndexOK ==
  pc \in {"half", "search"} => /\ ToSet(index.ids) \subseteq Searchable(db)
                               /\ \A i \in Searchable(db) \ ToSet(index.ids) : Stale(i)

(* Files that are not what the index was made of or written to are those   *)
(* of a crash between the two: they are told by their ids.                 *)
FilesOK ==
  faults = 0 =>
    /\ disk = db
    /\ ToSet(files.ids) \subseteq DOMAIN db.recs
    /\ (files.ids # <<>> /\ files.ids = Ids(db)) => Named(files)
    /\ pc \in {"idle", "search", "ensure"} =>
         \/ files = index
         \/ index = NoIndex /\ files.ids = <<>>
         \/ index = NoIndex /\ Gone(files.ids)
         \/ index = NoIndex /\ pc = "ensure" /\ files.ids # <<>> /\ files.ids # Ids(db)
    /\ pc = "ensure" => Named(index) \/ index.ids # Ids(db)
    /\ pc \in {"half", "idle", "search"} => Named(index)
    /\ pc = "half" => files.vecs = index.vecs

SearchOK == StoreOK /\ SidecarsOK /\ IndexOK /\ FilesOK

LEMMA OrderedSearchable ==
  ASSUME NEW d \in Tables, NEW S, S \subseteq Searchable(d)
  PROVE  Ordered(S) \in Seq(Nat) /\ ToSet(Ordered(S)) = S
<1>1. IsFiniteSet(Searchable(d)) /\ Searchable(d) \subseteq Nat
  <2>1. DOMAIN d.recs \subseteq Nat /\ IsFiniteSet(Searchable(d))
    BY RowsAreFinite
  <2>2. Searchable(d) \subseteq DOMAIN d.recs
    BY DEF Searchable, Current
  <2> QED  BY <2>1, <2>2
<1>2. IsFiniteSet(S) /\ S \subseteq Nat
  BY <1>1, FS_Subset
<1>3. Ordered(S) \in Seq(S) /\ ToSet(Ordered(S)) = S
  BY <1>2, OrderedIs
<1>4. Ordered(S) \in Seq(Nat)
  <2> DEFINE s == Ordered(S)
  <2>1. s \in Seq(S)
    BY <1>3
  <2> HIDE DEF s
  <2>2. Len(s) \in Nat /\ s = [k \in 1..Len(s) |-> s[k]] /\ \A k \in 1..Len(s) : s[k] \in S
    BY <2>1
  <2>3. s \in Seq(Nat)
    BY <1>2, <2>2, ListIsSeq
  <2> QED  BY <2>3 DEF s
<1> QED  BY <1>3, <1>4

LEMMA IdsAre ==
  ASSUME NEW d \in Tables
  PROVE  Ids(d) \in Seq(Nat) /\ ToSet(Ids(d)) = Searchable(d)
BY OrderedSearchable DEF Ids

LEMMA NoIndexIs == NoIndex.ids = <<>> /\ NoIndex.vecs = <<>> /\ Named(NoIndex) /\ ToSet(<<>>) = {}
<1>1. NoIndex.ids = <<>> /\ NoIndex.vecs = <<>> /\ DOMAIN <<>> = {}
  BY DEF NoIndex
<1>2. ToSet(<<>>) = {}
  BY <1>1 DEF ToSet
<1>3. [k \in DOMAIN <<>> |-> <<>>[k].of] = <<>>
  BY <1>1
<1> QED  BY <1>1, <1>2, <1>3 DEF Named

LEMMA NotEmpty ==
  ASSUME NEW s \in Seq(Nat), s # <<>>
  PROVE  \E i \in ToSet(s) : TRUE
<1>1. 1 \in DOMAIN s
  OBVIOUS
<1> QED  BY <1>1 DEF ToSet

LEMMA SearchInit == Init => SearchOK
<1> SUFFICES ASSUME Init
             PROVE  SearchOK
  OBVIOUS
<1>1. /\ index = NoIndex /\ files = [vecs |-> <<>>, ids |-> <<>>] /\ pc = "idle" /\ after = "idle"
      /\ disk = db
  BY DEF Init, NoFile
<1>2. files.ids = <<>> /\ files.vecs = <<>>
  BY <1>1
<1>3. SidecarsOK
  BY <1>1, <1>2, NoIndexIs DEF SidecarsOK, NoIndex
<1>4. IndexOK
  BY <1>1 DEF IndexOK
<1>5. FilesOK
  BY <1>1, <1>2, NoIndexIs DEF FilesOK
<1> QED  BY <1>3, <1>4, <1>5, StoreInit DEF SearchOK

(* An action that leaves the index and the files alone, and after which    *)
(* the tables are indexed again or the store has failed.                   *)
LEMMA TablesStep ==
  ASSUME SearchOK, db' \in Tables, pc = "idle", UNCHANGED <<index, files>>, after' \in {"idle", "search"},
         \/ faults' # 0 /\ pc' = "idle"
         \/ faults' = faults /\ pc' = "ensure" /\ (faults = 0 => disk' = db' /\ Grows(db, db'))
  PROVE  SidecarsOK' /\ IndexOK' /\ FilesOK'
<1>1. SidecarsOK'
  BY DEF SearchOK, SidecarsOK
<1>2. IndexOK'
  BY DEF IndexOK
<1>3. CASE faults' # 0
  BY <1>1, <1>2, <1>3 DEF FilesOK
<1>4. CASE faults' = 0
  <2>1. faults = 0 /\ pc' = "ensure" /\ disk' = db' /\ Grows(db, db')
    BY <1>4
  <2>2. /\ ToSet(files.ids) \subseteq DOMAIN db.recs
        /\ \/ files = index
           \/ index = NoIndex /\ files.ids = <<>>
           \/ index = NoIndex /\ Gone(files.ids)
        /\ Named(index)
    BY <2>1 DEF SearchOK, FilesOK
  <2>3. DOMAIN db.recs \subseteq DOMAIN db'.recs
    BY <2>1 DEF Grows
  <2>4. Gone(files.ids) => Gone(files.ids)'
    BY <2>1 DEF Gone, Grows
  <2>5. Gone(files.ids)' => files.ids # Ids(db')
    <3>1. ToSet(Ids(db')) = Searchable(db')
      BY IdsAre
    <3> QED  BY <3>1 DEF Gone
  <2>6. Named(index)' /\ (files = index => Named(files)')
    BY <2>2 DEF Named
  <2> QED  BY <2>1, <2>2, <2>3, <2>4, <2>5, <2>6, <1>1, <1>2 DEF FilesOK
<1> QED  BY <1>1, <1>2, <1>3, <1>4
LEMMA EnsureStep == SearchOK /\ Ensure => SidecarsOK' /\ IndexOK' /\ FilesOK'
<1> SUFFICES ASSUME SearchOK, Ensure
             PROVE  SidecarsOK' /\ IndexOK' /\ FilesOK'
  OBVIOUS
<1>0. /\ db \in Tables /\ SidecarsOK
      /\ pc = "ensure" /\ UNCHANGED <<db, disk, embedder, after, request, faults, crashes>>
  BY DEF SearchOK, StoreOK, TablesOK, Ensure
<1>i. Ids(db) \in Seq(Nat) /\ ToSet(Ids(db)) = Searchable(db)
  BY <1>0, IdsAre
<1>f. faults = 0 =>
        /\ disk = db /\ ToSet(files.ids) \subseteq DOMAIN db.recs
        /\ (files.ids # <<>> /\ files.ids = Ids(db)) => Named(files)
        /\ \/ files = index
           \/ index = NoIndex /\ files.ids = <<>>
           \/ index = NoIndex /\ Gone(files.ids)
           \/ index = NoIndex /\ files.ids # <<>> /\ files.ids # Ids(db)
        /\ Named(index) \/ index.ids # Ids(db)
  BY <1>0 DEF SearchOK, FilesOK
<1>1. CASE Agrees
  <2>1. pc' = after /\ UNCHANGED <<index, files>> /\ index.ids = Ids(db)
    BY <1>1 DEF Ensure, Agrees
  <2>2. SidecarsOK'
    BY <1>0, <2>1 DEF SidecarsOK
  <2>3. IndexOK'
    BY <1>0, <1>i, <2>1 DEF IndexOK, Stale
  <2>4. after \in {"idle", "search"}
    BY <1>0 DEF SidecarsOK
  <2>5. ASSUME faults = 0
        PROVE  \/ files = index
               \/ index = NoIndex /\ files.ids = <<>>
               \/ index = NoIndex /\ Gone(files.ids)
    <3>1. CASE index = NoIndex /\ files.ids # <<>>
      <4>1. Searchable(db) = {}
        BY <1>i, <2>1, <3>1, NoIndexIs
      <4>2. PICK i \in ToSet(files.ids) : TRUE
        BY <1>0, <3>1, NotEmpty DEF SidecarsOK
      <4> QED  BY <1>f, <2>5, <3>1, <4>1, <4>2 DEF Gone
    <3> QED  BY <1>f, <2>5, <3>1
  <2>6. Gone(files.ids)' <=> Gone(files.ids)
    BY <1>0, <2>1 DEF Gone
  <2>7. (Named(index)' <=> Named(index)) /\ (Named(files)' <=> Named(files))
    BY <2>1 DEF Named
  <2>8. Ids(db)' = Ids(db)
    BY <1>0
  <2>9. FilesOK'
    BY <1>0, <1>f, <2>1, <2>4, <2>5, <2>6, <2>7, <2>8 DEF FilesOK
  <2> QED  BY <2>2, <2>3, <2>9
<1>2. CASE ~Agrees
  <2> DEFINE S == {i \in Searchable(db) : ~Stale(i)}
             fresh == Ordered(S)
             vecs == [k \in DOMAIN fresh |-> [of |-> fresh[k], model |-> embedder]]
  <2>1. /\ index' = [ids |-> fresh, vecs |-> vecs] /\ files' = [files EXCEPT !.vecs = index'.vecs]
        /\ pc' = "half" /\ index.ids # Ids(db)
    BY <1>2 DEF Ensure, Agrees, Written
  <2>2. fresh \in Seq(Nat) /\ ToSet(fresh) = S
    BY <1>0, OrderedSearchable
  <2>3. DOMAIN vecs = DOMAIN fresh /\ \A k \in DOMAIN vecs : vecs[k].of = fresh[k]
    OBVIOUS
  <2> HIDE DEF fresh, vecs
  <2>4. files' = [vecs |-> vecs, ids |-> files.ids] /\ index'.ids = fresh /\ index'.vecs = vecs
    BY <1>0, <2>1 DEF SidecarsOK
  <2>5. [k \in DOMAIN vecs |-> vecs[k].of] = fresh
    <3>1. [k \in DOMAIN vecs |-> vecs[k].of] = [k \in DOMAIN fresh |-> fresh[k]]
      BY <2>3
    <3> QED  BY <2>2, <3>1
  <2>6. Named(index)'
    BY <2>4, <2>5 DEF Named
  <2>7. SidecarsOK'
    BY <1>0, <2>1, <2>2, <2>4 DEF SidecarsOK
  <2>8. IndexOK'
    BY <1>0, <2>2, <2>4 DEF IndexOK, Stale
  <2>9. ASSUME faults = 0, files.ids # <<>>, files.ids = Ids(db)
        PROVE  FALSE
    <3>1. ~Gone(files.ids)
      BY <1>i, <2>9 DEF Gone
    <3>2. files # index
      BY <2>1, <2>9
    <3> QED  BY <1>f, <2>9, <3>1, <3>2
  <2>10. files'.ids = files.ids /\ files'.vecs = index'.vecs /\ Ids(db') = Ids(db)
    BY <1>0, <2>4
  <2>11. FilesOK'
    BY <1>0, <1>f, <2>1, <2>6, <2>9, <2>10 DEF FilesOK
  <2> QED  BY <2>7, <2>8, <2>11
<1> QED  BY <1>1, <1>2

LEMMA FinishStep == SearchOK /\ FinishPersist => SidecarsOK' /\ IndexOK' /\ FilesOK'
<1> SUFFICES ASSUME SearchOK, FinishPersist
             PROVE  SidecarsOK' /\ IndexOK' /\ FilesOK'
  OBVIOUS
<1>1. /\ SidecarsOK /\ IndexOK /\ FilesOK /\ pc = "half" /\ pc' = after
      /\ UNCHANGED <<db, disk, embedder, index, after, request, faults, crashes>>
      /\ files' = [files EXCEPT !.ids = index.ids]
  BY DEF SearchOK, FinishPersist, Written
<1>2. files' = [vecs |-> files.vecs, ids |-> index.ids]
  BY <1>1 DEF SidecarsOK
<1>3. SidecarsOK' /\ pc' \in {"idle", "search"}
  BY <1>1, <1>2 DEF SidecarsOK
<1>4. IndexOK'
  BY <1>1 DEF IndexOK, Stale
<1>5. ASSUME faults = 0
      PROVE  files' = index /\ Named(index) /\ disk = db
  <2>1. files.vecs = index.vecs /\ Named(index) /\ disk = db
    BY <1>1, <1>5 DEF FilesOK
  <2>2. index = [vecs |-> index.vecs, ids |-> index.ids]
    BY <1>1 DEF SidecarsOK
  <2> QED  BY <1>2, <2>1, <2>2
<1>6. ToSet(index.ids) \subseteq DOMAIN db.recs
  BY <1>1 DEF IndexOK, Searchable, Current
<1>7. (Named(index)' <=> Named(index)) /\ (files' = index => (Named(files)' <=> Named(index)))
  BY <1>1 DEF Named
<1>8. FilesOK'
  BY <1>1, <1>3, <1>5, <1>6, <1>7 DEF FilesOK
<1> QED  BY <1>3, <1>4, <1>8

LEMMA SearchStep == SearchOK /\ Search => SidecarsOK' /\ IndexOK' /\ FilesOK'
<1> SUFFICES ASSUME SearchOK, Search
             PROVE  SidecarsOK' /\ IndexOK' /\ FilesOK'
  OBVIOUS
<1> DEFINE old == {i \in Rows(request) : Stale(i)}
           e == Reembedded(db, old)
<1>1. /\ pc = "search" /\ pc' = "idle" /\ after' = "idle" /\ UNCHANGED <<index, files, faults>>
      /\ db' = e /\ disk' = IF old = {} THEN disk ELSE e
  BY DEF Search, Returns
<1>2. /\ DOMAIN e.recs = DOMAIN db.recs /\ Searchable(e) = Searchable(db)
      /\ old = {} => e = db
  BY ReembedKeeps DEF SearchOK
<1> HIDE DEF e, old
<1>3. SidecarsOK' /\ IndexOK'
  BY <1>1 DEF SearchOK, SidecarsOK, IndexOK
<1>4. Ids(db') = Ids(db) /\ (Gone(files.ids)' <=> Gone(files.ids))
  BY <1>1, <1>2 DEF Ids, Gone
<1>5. (Named(index)' <=> Named(index)) /\ (Named(files)' <=> Named(files))
  BY <1>1 DEF Named
<1>6. FilesOK'
  BY <1>1, <1>2, <1>4, <1>5 DEF FilesOK, SearchOK
<1> QED  BY <1>3, <1>6

LEMMA CrashStep == SearchOK /\ Crash => SidecarsOK' /\ IndexOK' /\ FilesOK'
<1> SUFFICES ASSUME SearchOK, Crash
             PROVE  SidecarsOK' /\ IndexOK' /\ FilesOK'
  OBVIOUS
<1>1. /\ pc' = "down" /\ db' = disk /\ index' = NoIndex /\ after' = "idle"
      /\ UNCHANGED <<disk, embedder, files, faults>>
      /\ SidecarsOK /\ FilesOK
  BY DEF Crash, SearchOK
<1>2. SidecarsOK' /\ IndexOK'
  BY <1>1, NoIndexIs DEF SidecarsOK, IndexOK, NoIndex
<1>3. Named(files)' <=> Named(files)
  BY <1>1 DEF Named
<1>4. FilesOK'
  BY <1>1, <1>3 DEF FilesOK
<1> QED  BY <1>2, <1>4

LEMMA OpenStep ==
  ASSUME SearchOK, NEW m, Open(m)
  PROVE  SidecarsOK' /\ IndexOK' /\ FilesOK'
<1>1. /\ pc = "down" /\ pc' = "ensure" /\ after' = "idle" /\ index' = Loaded
      /\ UNCHANGED <<db, disk, files, faults>> /\ SidecarsOK /\ FilesOK
  BY DEF SearchOK, Open, StartIndexing
<1>2. files = [ids |-> files.ids, vecs |-> files.vecs]
  BY <1>1 DEF SidecarsOK
<1>3. \/ index' = NoIndex /\ (files.vecs = <<>> \/ files.ids = <<>>)
      \/ index' = files /\ files.ids # <<>>
  BY <1>1, <1>2 DEF Loaded, NoFile
<1>4. SidecarsOK' /\ IndexOK'
  <2>1. index' = [ids |-> index'.ids, vecs |-> index'.vecs] /\ index'.ids \in Seq(Nat)
    <3>1. CASE index' = NoIndex
      BY <3>1, NoIndexIs DEF NoIndex
    <3>2. CASE index' = files
      BY <1>1, <1>2, <3>2 DEF SidecarsOK
    <3> QED  BY <1>3, <3>1, <3>2
  <2> QED  BY <1>1, <2>1 DEF SidecarsOK, IndexOK
<1>5. Named(files)' <=> Named(files)
  BY <1>1 DEF Named
<1>6. Named(files) /\ files.vecs = <<>> => files.ids = <<>>
  BY NoIndexIs DEF Named
<1>7. ASSUME faults = 0
      PROVE  /\ \/ index' = files
                \/ index' = NoIndex /\ (files.ids = <<>> \/ files.ids # Ids(db))
             /\ Named(index)' \/ index'.ids # Ids(db)
  <2>1. files.ids # <<>> /\ files.ids = Ids(db) => Named(files)
    BY <1>1, <1>7 DEF FilesOK
  <2>2. index' = NoIndex => Named(index)'
    BY NoIndexIs DEF Named
  <2>3. index' = files => (Named(index)' <=> Named(files))
    BY DEF Named
  <2> QED  BY <1>3, <1>6, <2>1, <2>2, <2>3
<1>8. FilesOK'
  BY <1>1, <1>5, <1>7 DEF FilesOK
<1> QED  BY <1>4, <1>8
LEMMA SearchNext == SearchOK /\ [Next]_vars => SearchOK'
<1> SUFFICES ASSUME SearchOK, [Next]_vars
             PROVE  SidecarsOK' /\ IndexOK' /\ FilesOK'
  BY StoreStep DEF SearchOK
<1>0. StoreOK' /\ StoreOK
  BY StoreStep DEF SearchOK
<1>t. db' \in Tables /\ db \in Tables
  BY <1>0 DEF StoreOK, TablesOK
<1>a. after \in {"idle", "search"} /\ faults \in Nat
  BY DEF SearchOK, SidecarsOK, StoreOK
<1>1. ASSUME NEW k \in {"fact", "policy"}, NEW s \in Scopes, NEW sup \in 0..Len(db.recs),
             NEW role, NEW r, r = Record(k, s, sup, NoDocument, 0, 0, 0),
             Write(r, role) \/ WriteFails(r, role)
      PROVE  SidecarsOK' /\ IndexOK' /\ FilesOK'
  <2>1. sup \in Nat
    BY <1>t, TablesAre
  <2> DEFINE d == Insert(db, r)
             e == AppendAudit(d)
  <2>2. MaySupersede(r)
    BY <1>1 DEF Write, WriteFails
  <2>3. Grows(db, e)
    BY <1>0, <1>1, <2>1, <2>2, WriteKeeps
  <2>4. /\ pc = "idle" /\ UNCHANGED <<index, files>>
        /\ \/ db' = e /\ disk' = e /\ faults' = faults /\ pc' = "ensure" /\ after' = "idle"
           \/ faults' = faults + 1 /\ pc' = "idle" /\ after' = after
    BY <1>1 DEF Write, WriteFails, StartIndexing
  <2> HIDE DEF e
  <2>5. faults + 1 # 0
    BY <1>a
  <2> QED  BY <1>t, <1>a, <2>3, <2>4, <2>5, TablesStep
<1>2. ASSUME NEW scope \in Scopes, NEW uri \in Uris, NEW content \in Contents,
             NEW n \in 0..MaxChunks, Ingest(scope, uri, content, n)
      PROVE  SidecarsOK' /\ IndexOK' /\ FilesOK'
  <2>1. n \in Nat
    BY MemoryAssumption
  <2> DEFINE e == Ingested(db, scope, DocumentId(scope, uri), content, n)
  <2>2. Grows(db, e)
    BY <1>0, <1>2, <2>1, IngestKeeps DEF Ingest
  <2>3. /\ pc = "idle" /\ UNCHANGED <<index, files>>
        /\ db' = e /\ disk' = e /\ faults' = faults /\ pc' = "ensure" /\ after' = "idle"
    BY <1>2 DEF Ingest, StartIndexing
  <2> HIDE DEF e
  <2> QED  BY <1>t, <2>2, <2>3, TablesStep
<1>3. ASSUME NEW scope, NEW uri, NEW content, IngestFails(scope, uri, content)
      PROVE  SidecarsOK' /\ IndexOK' /\ FilesOK'
  <2>1. /\ pc = "idle" /\ UNCHANGED <<index, files>> /\ pc' = "idle" /\ after' = after
        /\ faults' = faults + 1 /\ faults + 1 # 0
    BY <1>a, <1>3 DEF IngestFails
  <2> QED  BY <1>t, <1>a, <2>1, TablesStep
<1>4. CASE Ensure
  BY <1>4, EnsureStep
<1>5. CASE FinishPersist
  BY <1>5, FinishStep
<1>6. ASSUME NEW s \in Scopes, Recall(s)
      PROVE  SidecarsOK' /\ IndexOK' /\ FilesOK'
  <2>1. /\ pc = "idle" /\ pc' = "ensure" /\ after' = "search"
        /\ UNCHANGED <<db, disk, embedder, index, files, faults>>
    BY <1>6 DEF Recall, ThenSearch, StartIndexing
  <2>2. faults = 0 => disk' = db' /\ Grows(db, db')
    BY <2>1 DEF SearchOK, FilesOK, Grows
  <2> QED  BY <1>t, <2>1, <2>2, TablesStep
<1>7. CASE Search
  BY <1>7, SearchStep
<1>8. CASE SearchFails
  <2>1. /\ pc = "search" /\ pc' = "idle" /\ after' = "idle" /\ UNCHANGED <<index, files>>
        /\ faults' = faults + 1 /\ faults + 1 # 0
    BY <1>a, <1>8 DEF SearchFails, Returns
  <2> QED  BY <2>1 DEF SearchOK, SidecarsOK, IndexOK, FilesOK
<1>9. CASE Crash
  BY <1>9, CrashStep
<1>10. ASSUME NEW m \in Models, Open(m)
       PROVE  SidecarsOK' /\ IndexOK' /\ FilesOK'
  BY <1>10, OpenStep
<1>11. CASE UNCHANGED vars
  <2>1. UNCHANGED <<db, disk, embedder, index, files, pc, after, faults>>
    BY <1>11 DEF vars
  <2>2. Gone(files.ids)' <=> Gone(files.ids)
    BY <2>1 DEF Gone
  <2>3. (Named(index)' <=> Named(index)) /\ (Named(files)' <=> Named(files))
    BY <2>1 DEF Named
  <2>4. SidecarsOK' /\ IndexOK'
    BY <2>1 DEF SearchOK, SidecarsOK, IndexOK, Stale
  <2>5. FilesOK'
    BY <2>1, <2>2, <2>3 DEF SearchOK, FilesOK
  <2> QED  BY <2>4, <2>5
<1> QED
  BY <1>1, <1>2, <1>3, <1>4, <1>5, <1>6, <1>7, <1>8, <1>9, <1>10, <1>11 DEF Next

LEMMA SearchAlways == Spec => []SearchOK
<1> QED  BY SearchInit, SearchNext, PTL DEF Spec

(* Whichever rows a recall selects and however far it expands them, what   *)
(* it returns is current evidence its scope may read, and the index it     *)
(* searches holds nothing else and lacks only rows it embeds again         *)
(* (_scope_where, _ensure_vector_index, recall).                           *)
THEOREM RecallIsCurrentAndInScopeAlways == Spec => []RecallIsCurrentAndInScope
<1>1. SearchOK => RecallIsCurrentAndInScope
  <2> SUFFICES ASSUME SearchOK
               PROVE  RecallIsCurrentAndInScope
    OBVIOUS
  <2>1. /\ \A i \in DOMAIN db.recs : RowOK(db, db.recs[i]) /\ db.recs[i] \in RecordType
    BY TablesAre DEF SearchOK, StoreOK, TablesOK
  <2>2. ASSUME NEW req \in Scopes, NEW i \in Recalled(Rows(req), 1)
        PROVE  /\ db.recs[i].status = "current" /\ db.recs[i].kind \in {"fact", "chunk"}
               /\ db.recs[i].scope[1] = req[1]
               /\ db.recs[i].scope[2] # NoLevel => db.recs[i].scope[2] = req[2]
    <3>1. CASE i \in Rows(req)
      <4>1. i \in Current(db) /\ db.recs[i].kind \notin {"audit", "policy"} /\ Visible(db.recs[i].scope, req)
        BY <3>1 DEF Rows, Searchable
      <4>2. db.recs[i] \in RecordType /\ db.recs[i].status = "current"
        BY <2>1, <4>1 DEF Current
      <4>3. db.recs[i].kind \in RecordKinds
        BY <4>2 DEF RecordType
      <4> QED  BY <4>1, <4>2, <4>3 DEF RecordKinds, Visible
    <3>2. CASE i \notin Rows(req)
      <4>1. PICK k \in Rows(req) : i \in Neighbours(k, 1)
        BY <3>2 DEF Recalled
      <4>2. /\ i \in Current(db) /\ db.recs[i].kind = "chunk" /\ db.recs[k].kind = "chunk"
            /\ db.recs[i].doc = db.recs[k].doc
        BY <4>1 DEF Neighbours
      <4>3. k \in Current(db) /\ Visible(db.recs[k].scope, req)
        BY <4>1 DEF Rows, Searchable
      <4>4. RowOK(db, db.recs[i]) /\ RowOK(db, db.recs[k]) /\ db.recs[i].status = "current"
        BY <2>1, <4>2, <4>3 DEF Current
      <4>5. db.recs[i].scope = db.recs[k].scope
        BY <4>2, <4>4 DEF RowOK
      <4> QED  BY <4>2, <4>3, <4>4, <4>5 DEF Visible
    <3> QED  BY <3>1, <3>2
  <2>3. pc = "search" => /\ ToSet(index.ids) \subseteq Searchable(db)
                         /\ \A i \in Searchable(db) \ ToSet(index.ids) : Stale(i)
    BY DEF SearchOK, IndexOK
  <2> QED  BY <2>2, <2>3 DEF RecallIsCurrentAndInScope
<1> QED  BY <1>1, SearchAlways, PTL

(* Wherever a crash falls between the commit and the second file, each     *)
(* position of the index a later search uses holds the vector of the id    *)
(* beside it, while no write has failed (persist, _load, search).          *)
THEOREM PositionsNameTheirVectorsAlways == Spec => []PositionsNameTheirVectors
<1>1. SearchOK => PositionsNameTheirVectors
  BY DEF SearchOK, FilesOK, PositionsNameTheirVectors, Named
<1> QED  BY <1>1, SearchAlways, PTL

-----------------------------------------------------------------------------
(***************************************************************************)
(* Semantic chunking: the spans tile the source within the budget, and a   *)
(* block that is kept ends where its structure allows.                     *)
(***************************************************************************)

-----------------------------------------------------------------------------
(***************************************************************************)
(* Least and largest elements.                                             *)
(***************************************************************************)
LEMMA LeastOf ==
  ASSUME NEW S \in SUBSET Nat, S # {}
  PROVE  \E m \in S : \A u \in S : m <= u
<1> DEFINE R == OpToRel(<, Nat)
<1>1. IsWellFoundedOn(R, Nat)
  BY NatLessThanWellFounded
<1>2. PICK x \in S : \A y \in S : ~ (<<y, x>> \in R)
  BY <1>1, WFMin, Zenon
<1>3. \A y \in S : ~ (y < x)
  BY <1>2 DEF OpToRel
<1>4. \A y \in S : x <= y
  BY <1>3, SMT
<1> QED  BY <1>4

(* Largest finds the largest place of a set of places, when it has one.    *)
LEMMA LargestOf ==
  ASSUME NEW b \in Nat, NEW S \in SUBSET (1..b), S # {}, NEW d
  PROVE  Largest(S, d) \in S /\ \A y \in S : y <= Largest(S, d)
<1> DEFINE T == {n \in Nat : b - n \in S}
<1>1. T \in SUBSET Nat /\ T # {}
  <2>1. PICK x \in S : TRUE
    OBVIOUS
  <2>2. b - x \in Nat /\ b - (b - x) = x
    OBVIOUS
  <2>3. b - x \in T
    BY <2>1, <2>2
  <2> QED  BY <2>3
<1>2. PICK m \in T : \A u \in T : m <= u
  <2> HIDE DEF T
  <2> QED  BY <1>1, LeastOf
<1>3. b - m \in S
  BY <1>2
<1>4. ASSUME NEW y \in S PROVE y <= b - m
  <2>1. b - y \in Nat /\ b - (b - y) = y
    OBVIOUS
  <2>2. b - y \in T
    BY <2>1
  <2>3. m <= b - y
    BY <1>2, <2>2
  <2> QED  BY <1>2, <2>3
<1>5. \E x \in S : \A y \in S : y <= x
  BY <1>3, <1>4
<1> QED  BY <1>5 DEF Largest

-----------------------------------------------------------------------------
(***************************************************************************)
(* Counting words.                                                         *)
(***************************************************************************)
LEMMA WordsType ==
  ASSUME NEW from \in Nat, NEW to \in Nat
  PROVE  IsFiniteSet(WordStarts(from, to)) /\ Words(from, to) \in Nat
<1>1. IsFiniteSet(from..(to - 1))
  BY FS_Interval
<1>2. WordStarts(from, to) \subseteq from..(to - 1)
  BY DEF WordStarts
<1>3. IsFiniteSet(WordStarts(from, to))
  BY <1>1, <1>2, FS_Subset
<1> QED  BY <1>3, FS_CardinalityType DEF Words

(* A longer span has no fewer words. *)
LEMMA WordsGrow ==
  ASSUME NEW from \in Nat, NEW a \in Nat, NEW b \in Nat, a <= b
  PROVE  Words(from, a) <= Words(from, b)
<1>1. WordStarts(from, a) \subseteq WordStarts(from, b)
  BY DEF WordStarts
<1>2. IsFiniteSet(WordStarts(from, b))
  BY WordsType
<1> QED  BY <1>1, <1>2, FS_Subset DEF Words

(* A span that starts nowhere has no word, and one more piece adds a word  *)
(* when it starts one.                                                     *)
LEMMA WordsNext ==
  ASSUME NEW from \in Nat, NEW to \in Nat, from <= to
  PROVE  /\ Words(from, from) = 0
         /\ to \in WordStarts(from, to + 1) => Words(from, to + 1) = Words(from, to) + 1
         /\ to \notin WordStarts(from, to + 1) => Words(from, to + 1) = Words(from, to)
<1>1. WordStarts(from, from) = {}
  BY DEF WordStarts
<1>2. Words(from, from) = 0
  BY <1>1, FS_EmptySet DEF Words
<1>3. ASSUME to \in WordStarts(from, to + 1)
      PROVE  Words(from, to + 1) = Words(from, to) + 1
  <2>1. WordStarts(from, to + 1) = WordStarts(from, to) \cup {to}
    BY <1>3 DEF WordStarts
  <2>2. to \notin WordStarts(from, to)
    BY DEF WordStarts
  <2>3. IsFiniteSet(WordStarts(from, to))
    BY WordsType
  <2> QED  BY <2>1, <2>2, <2>3, FS_AddElement DEF Words
<1>4. ASSUME to \notin WordStarts(from, to + 1)
      PROVE  Words(from, to + 1) = Words(from, to)
  <2>1. WordStarts(from, to + 1) = WordStarts(from, to)
    BY <1>4 DEF WordStarts
  <2> QED  BY <2>1 DEF Words
<1> QED  BY <1>2, <1>3, <1>4

(* Cutting a span in two cuts a word in two, or none. *)
LEMMA WordsOfParts ==
  ASSUME NEW a \in Nat, NEW m \in Nat, NEW b \in Nat, a < m, m < b
  PROVE  Words(a, b) = Words(a, m) + Words(m, b) - (IF source[m].gap = "none" THEN 1 ELSE 0)
<1> DEFINE L == WordStarts(a, m)
           R == WordStarts(m, b)
           A == WordStarts(a, b)
<1>1. IsFiniteSet(L) /\ IsFiniteSet(R) /\ Cardinality(L) \in Nat /\ Cardinality(R) \in Nat
  BY WordsType, FS_CardinalityType
<1>2. m \in R /\ m \notin L
  BY DEF WordStarts
<1>3. CASE source[m].gap = "none"
  <2>1. A = L \cup (R \ {m}) /\ L \cap (R \ {m}) = {}
    BY <1>3 DEF WordStarts
  <2>2. IsFiniteSet(R \ {m}) /\ Cardinality(R \ {m}) = Cardinality(R) - 1
    BY <1>1, <1>2, FS_RemoveElement
  <2>3. Cardinality(A) = Cardinality(L) + Cardinality(R \ {m})
    <3> HIDE DEF L, R, A
    <3>1. Cardinality(L \cup (R \ {m})) =
            Cardinality(L) + Cardinality(R \ {m}) - Cardinality(L \cap (R \ {m}))
      BY <1>1, <2>2, FS_Union
    <3>2. Cardinality(L \cap (R \ {m})) = 0
      BY <2>1, FS_EmptySet
    <3>3. Cardinality(R \ {m}) \in Nat
      BY <2>2, FS_CardinalityType
    <3> QED  BY <1>1, <2>1, <3>1, <3>2, <3>3
  <2> QED  BY <1>1, <1>3, <2>2, <2>3 DEF Words
<1>4. CASE source[m].gap # "none"
  <2>1. A = L \cup R /\ L \cap R = {}
    BY <1>4 DEF WordStarts
  <2>2. Cardinality(A) = Cardinality(L) + Cardinality(R)
    <3> HIDE DEF L, R, A
    <3>1. Cardinality(L \cup R) = Cardinality(L) + Cardinality(R) - Cardinality(L \cap R)
      BY <1>1, FS_Union
    <3>2. Cardinality(L \cap R) = 0
      BY <2>1, FS_EmptySet
    <3> QED  BY <1>1, <2>1, <3>1, <3>2
  <2> QED  BY <1>1, <1>4, <2>2 DEF Words
<1> QED  BY <1>3, <1>4

(* The nominal end is a place after the start with at most max_words words *)
(* before it.                                                              *)
LEMMA NominalEndFits ==
  ASSUME source \in Seq(Pieces), NEW from \in 1..Len(source)
  PROVE  /\ NominalEnd(from) \in (from + 1)..End
         /\ Words(from, NominalEnd(from)) <= MaxWords
<1> USE ChunkAssumption
<1>1. End \in Nat /\ from \in Nat /\ from < End
  BY DEF End
<1>2. CASE Words(from, End) <= MaxWords
  BY <1>1, <1>2 DEF NominalEnd
<1>3. CASE ~(Words(from, End) <= MaxWords)
  <2> DEFINE Over == {n \in Nat : from + n <= End /\ MaxWords < Words(from, from + n)}
  <2>1. Over \in SUBSET Nat /\ Over # {}
    <3>1. Words(from, End) \in Nat
      BY <1>1, WordsType
    <3>2. End - from \in Nat /\ from + (End - from) = End
      BY <1>1
    <3>3. End - from \in Over
      BY <1>1, <1>3, <3>1, <3>2
    <3> QED  BY <3>3
  <2>2. PICK n \in Over : \A u \in Over : n <= u
    <3> HIDE DEF Over
    <3> QED  BY <2>1, LeastOf
  <2>3. n \in Nat /\ from + n <= End /\ MaxWords < Words(from, from + n)
    BY <2>2
  <2>4. n # 0
    <3>1. Words(from, from) = 0
      BY <1>1, WordsNext
    <3>2. from + 0 = from
      BY <1>1
    <3> QED  BY <2>3, <3>1, <3>2
  <2> DEFINE e == from + (n - 1)
  <2>5. e \in Nat /\ from <= e /\ e + 1 = from + n /\ e < End /\ n - 1 \in Nat /\ from + n \in Nat
    BY <1>1, <2>3, <2>4
  <2>6. Words(from, e) <= MaxWords
    <3>1. n - 1 \notin Over
      <4>1. n - 1 \in Over => n <= n - 1
        BY <2>2
      <4> QED  BY <2>3, <4>1
    <3>2. Words(from, e) \in Nat
      BY <1>1, <2>5, WordsType
    <3>3. n - 1 \in Nat /\ from + (n - 1) <= End
      BY <1>1, <2>5
    <3>4. ~(MaxWords < Words(from, e))
      BY <3>1, <3>3, Zenon
    <3> QED  BY <3>2, <3>4
  <2> HIDE DEF e, Over
  <2>7. Words(from, e) = MaxWords /\ e \in WordStarts(from, e + 1)
    <3>1. Words(from, e) \in Nat /\ Words(from, e + 1) \in Nat
      BY <1>1, <2>5, WordsType
    <3>2. e \in WordStarts(from, e + 1) => Words(from, e + 1) = Words(from, e) + 1
      BY <1>1, <2>5, WordsNext
    <3>3. e \notin WordStarts(from, e + 1) => Words(from, e + 1) = Words(from, e)
      BY <1>1, <2>5, WordsNext
    <3>4. MaxWords < Words(from, e + 1)
      BY <2>3, <2>5
    <3> QED  BY <2>6, <3>1, <3>2, <3>3, <3>4
  <2>8. e \in WordStarts(from, End)
    BY <1>1, <2>5, <2>7 DEF WordStarts
  <2>9. NominalEnd(from) \in WordStarts(from, End) /\ Words(from, NominalEnd(from)) = MaxWords
    BY <1>3, <2>7, <2>8 DEF NominalEnd
  <2>10. NominalEnd(from) \in from..(End - 1)
    BY <2>9 DEF WordStarts
  <2>11. NominalEnd(from) # from
    <3>1. Words(from, from) = 0
      BY <1>1, WordsNext
    <3> QED  BY <2>9, <3>1
  <2>12. NominalEnd(from) \in (from + 1)..End
    BY <1>1, <2>10, <2>11
  <2> QED  BY <2>9, <2>12
<1> QED  BY <1>2, <1>3

-----------------------------------------------------------------------------
(***************************************************************************)
(* Climbing a table from row to row.  The climb is a recursive function,   *)
(* which exists because the line before a place is a lower place.          *)
(***************************************************************************)
LinesBetween(from, to) == {i \in (from + 1)..(to - 1) : source[i].gap = "line"}

LEMMA LineBeforeIsLower ==
  ASSUME NEW from \in Nat \ {0}, NEW to \in Nat, from < to
  PROVE  /\ LineBefore(from, to) \in 1..(to - 1)
         /\ LinesBetween(from, to) = {} => LineBefore(from, to) = 1
         /\ LinesBetween(from, to) # {} =>
              /\ LineBefore(from, to) \in LinesBetween(from, to)
              /\ \A l \in LinesBetween(from, to) : l <= LineBefore(from, to)
<1>1. LineBefore(from, to) = Largest(LinesBetween(from, to), 1)
  BY DEF LineBefore, LinesBetween
<1>2. LinesBetween(from, to) \in SUBSET (1..(to - 1)) /\ to - 1 \in Nat /\ 1 \in 1..(to - 1)
  BY DEF LinesBetween
<1>3. CASE LinesBetween(from, to) = {}
  BY <1>1, <1>2, <1>3 DEF Largest
<1>4. CASE LinesBetween(from, to) # {}
  <2>1. /\ Largest(LinesBetween(from, to), 1) \in LinesBetween(from, to)
        /\ \A l \in LinesBetween(from, to) : l <= Largest(LinesBetween(from, to), 1)
    BY <1>2, <1>4, LargestOf
  <2> QED  BY <1>1, <1>2, <1>4, <2>1
<1> QED  BY <1>3, <1>4

Stops(from, t) == t <= from \/ source[LineBefore(from, t)].mark # "row"

(* What a function on the places must satisfy to be the climb. *)
Climbs(g, from, t) == g[t] = IF Stops(from, t) THEN t ELSE g[LineBefore(from, t)]

Climb(from) ==
  CHOOSE g : g = [t \in 1..End |-> IF t <= from \/ source[LineBefore(from, t)].mark # "row" THEN t
                                   ELSE g[LineBefore(from, t)]]

LEMMA TableStartIsClimb ==
  \A from, to : TableStart(from, to) = Climb(from)[LineBefore(from, to)]
  BY DEF TableStart, Climb

(* For the places up to n there is one, for every n. *)
LEMMA ClimbUpTo ==
  ASSUME NEW from \in Nat \ {0}, NEW n \in Nat
  PROVE  \E g : \A t \in 1..n : Climbs(g, from, t)
<1> DEFINE Good(k) == \E g : \A t \in 1..k : Climbs(g, from, t)
           Bad == {k \in Nat : ~Good(k)}
<1>1. SUFFICES ASSUME Bad # {} PROVE FALSE
  <2>1. n \notin Bad => Good(n)
    OBVIOUS
  <2> QED  BY <2>1
<1>2. PICK k \in Bad : \A j \in Bad : k <= j
  <2>1. Bad \in SUBSET Nat
    OBVIOUS
  <2> HIDE DEF Bad
  <2> QED  BY <1>1, <2>1, LeastOf
<1>3. k \in Nat /\ ~Good(k)
  BY <1>2
<1>4. k # 0
  <2>1. Good(0)
    OBVIOUS
  <2> QED  BY <1>3, <2>1
<1>5. PICK g : \A t \in 1..(k - 1) : Climbs(g, from, t)
  <2>1. k - 1 \in Nat /\ ~(k <= k - 1)
    BY <1>3, <1>4
  <2>2. k - 1 \notin Bad
    BY <1>2, <2>1
  <2>3. Good(k - 1)
    BY <2>1, <2>2
  <2> QED  BY <2>3
<1> DEFINE h == [t \in 1..k |-> IF t = k
                   THEN IF Stops(from, k) THEN k ELSE g[LineBefore(from, k)]
                   ELSE g[t]]
<1>6. ASSUME NEW t \in 1..k PROVE Climbs(h, from, t)
  <2>1. ~Stops(from, t) => LineBefore(from, t) \in 1..(t - 1)
    <3>1. t \in Nat /\ (~Stops(from, t) => from < t)
      BY <1>3 DEF Stops
    <3> QED  BY <3>1, LineBeforeIsLower
  <2>2. ~Stops(from, t) => h[LineBefore(from, t)] = g[LineBefore(from, t)]
    <3>1. \A u \in 1..(t - 1) : u \in 1..k /\ u # k
      BY <1>3
    <3>2. \A u \in 1..k : u # k => h[u] = g[u]
      OBVIOUS
    <3> HIDE DEF h
    <3> QED  BY <2>1, <3>1, <3>2
  <2>3. CASE t = k
    <3>1. h[t] = IF Stops(from, k) THEN k ELSE g[LineBefore(from, k)]
      BY <2>3
    <3> HIDE DEF h
    <3> QED  BY <2>2, <2>3, <3>1 DEF Climbs
  <2>4. CASE t # k
    <3>1. h[t] = g[t]
      BY <2>4
    <3>2. t \in 1..(k - 1)
      BY <1>3, <2>4
    <3>3. Climbs(g, from, t)
      BY <1>5, <3>2
    <3> HIDE DEF h
    <3> QED  BY <2>2, <3>1, <3>3 DEF Climbs
  <2> QED  BY <2>3, <2>4
<1>7. Good(k)
  <2> HIDE DEF h
  <2> QED  BY <1>6
<1> QED  BY <1>3, <1>7

LEMMA ClimbAt ==
  ASSUME source \in Seq(Pieces), NEW from \in Nat \ {0}
  PROVE  \A t \in 1..End : Climbs(Climb(from), from, t)
<1> DEFINE Step(g, t) == IF Stops(from, t) THEN t ELSE g[LineBefore(from, t)]
<1>0. End \in Nat
  BY DEF End
<1>1. PICK g : \A t \in 1..End : Climbs(g, from, t)
  BY <1>0, ClimbUpTo
<1> DEFINE h == [t \in 1..End |-> g[t]]
<1>2. h = [t \in 1..End |-> Step(h, t)]
  <2>1. ASSUME NEW t \in 1..End PROVE g[t] = Step(h, t)
    <3>1. g[t] = Step(g, t)
      BY <1>1 DEF Climbs
    <3>2. ~Stops(from, t) => h[LineBefore(from, t)] = g[LineBefore(from, t)]
      <4>1. t \in Nat /\ (~Stops(from, t) => from < t)
        BY <1>0 DEF Stops
      <4>2. ~Stops(from, t) => LineBefore(from, t) \in 1..(t - 1)
        BY <4>1, LineBeforeIsLower
      <4>3. \A u \in 1..(t - 1) : u \in 1..End
        BY <1>0
      <4> QED  BY <4>2, <4>3
    <3> QED  BY <3>1, <3>2
  <2> QED  BY <2>1
<1> HIDE DEF h
<1>3. Climb(from) = [t \in 1..End |-> Step(Climb(from), t)]
  BY <1>2 DEF Climb, Stops
<1> HIDE DEF Step
<1>4. ASSUME NEW t \in 1..End PROVE Climb(from)[t] = Step(Climb(from), t)
  BY <1>3
<1> QED  BY <1>4 DEF Climbs, Step
(* No place above the start is the first of which something is false.      *)
LEMMA LowestPlace ==
  ASSUME NEW b \in Nat, NEW B \in SUBSET (1..b), B # {}
  PROVE  \E m \in B : \A u \in B : m <= u
<1>1. B \in SUBSET Nat
  OBVIOUS
<1> QED  BY <1>1, LeastOf

(* A row, where a line starts in a table. *)
IsLine(i) == source[i].gap = "line"
RowsOnly(a, b) == \A l \in a..b : IsLine(l) => source[l].mark = "row"

(* The climb goes up, and when it ends after the start of the block it has *)
(* passed nothing but rows, and the line before is no row.                 *)
LEMMA ClimbStops ==
  ASSUME source \in Seq(Pieces), NEW from \in Nat \ {0}
  PROVE  \A t \in 1..End :
           /\ Climb(from)[t] \in 1..t
           /\ (Climb(from)[t] > from /\ IsLine(t) /\ source[t].mark = "row") =>
                /\ IsLine(Climb(from)[t])
                /\ RowsOnly(Climb(from)[t], t)
                /\ source[LineBefore(from, Climb(from)[t])].mark # "row"
<1> DEFINE c == Climb(from)
           Good(t) == /\ c[t] \in 1..t
                      /\ (c[t] > from /\ IsLine(t) /\ source[t].mark = "row") =>
                           /\ IsLine(c[t])
                           /\ RowsOnly(c[t], t)
                           /\ source[LineBefore(from, c[t])].mark # "row"
           Bad == {t \in 1..End : ~Good(t)}
<1>0. End \in Nat
  BY DEF End
<1>1. SUFFICES ASSUME Bad # {} PROVE FALSE
  OBVIOUS
<1>2. PICK t \in Bad : \A u \in Bad : t <= u
  <2>1. Bad \in SUBSET (1..End)
    OBVIOUS
  <2> HIDE DEF Bad
  <2> QED  BY <1>0, <1>1, <2>1, LowestPlace
<1>3. t \in 1..End /\ ~Good(t) /\ t \in Nat
  BY <1>0, <1>2
<1>4. \A u \in 1..(t - 1) : Good(u)
  <2>1. ASSUME NEW u \in 1..(t - 1) PROVE Good(u)
    <3>1. u \in 1..End /\ ~(t <= u)
      BY <1>0, <1>3
    <3> QED  BY <1>2, <3>1
  <2> QED  BY <2>1
<1>5. Climbs(c, from, t)
  BY <1>3, ClimbAt
<1> HIDE DEF Bad
<1>6. CASE t <= from
  <2>1. c[t] = t
    BY <1>5, <1>6 DEF Climbs, Stops
  <2> QED  BY <1>3, <1>6, <2>1
<1>7. CASE ~(t <= from)
  <2> DEFINE u == LineBefore(from, t)
  <2>0. from < t
    BY <1>3, <1>7
  <2>1. u \in 1..(t - 1) /\ u \in Nat
    BY <1>3, <2>0, LineBeforeIsLower
  <2>2. u > from => u \in LinesBetween(from, t) /\ \A l \in LinesBetween(from, t) : l <= u
    <3>1. u > from => u # 1
      BY <2>1
    <3> QED  BY <1>3, <2>0, <3>1, LineBeforeIsLower
  <2>3. Good(u)
    BY <1>4, <2>1
  <2> HIDE DEF u
  <2>4. CASE source[u].mark # "row"
    <3>1. c[t] = t
      BY <1>5, <2>4 DEF Climbs, Stops, u
    <3>2. IsLine(t) /\ source[t].mark = "row" => RowsOnly(t, t)
      BY <1>3 DEF RowsOnly
    <3>3. source[LineBefore(from, t)].mark # "row"
      BY <2>4 DEF u
    <3> QED  BY <1>3, <3>1, <3>2, <3>3
  <2>5. CASE source[u].mark = "row"
    <3>1. c[t] = c[u]
      BY <1>5, <1>7, <2>5 DEF Climbs, Stops, u
    <3>2. c[u] \in 1..u
      BY <2>3
    <3>3. c[t] \in 1..t
      BY <1>3, <2>1, <3>1, <3>2
    <3>4. ASSUME c[t] > from, IsLine(t), source[t].mark = "row"
          PROVE  /\ IsLine(c[t])
                 /\ RowsOnly(c[t], t)
                 /\ source[LineBefore(from, c[t])].mark # "row"
      <4>1. u > from
        BY <2>1, <3>1, <3>2, <3>4
      <4>2. IsLine(u)
        BY <2>2, <4>1 DEF LinesBetween, IsLine
      <4>3. /\ IsLine(c[u])
            /\ RowsOnly(c[u], u)
            /\ source[LineBefore(from, c[u])].mark # "row"
        BY <2>3, <2>5, <3>1, <3>4, <4>2
      <4>4. ASSUME NEW l \in c[u]..t, IsLine(l) PROVE source[l].mark = "row"
        <5>0. l \in Nat /\ c[u] <= l /\ l <= t
          BY <1>3, <3>2
        <5>1. CASE l <= u
          <6>1. l \in c[u]..u
            BY <2>1, <3>2, <5>0, <5>1
          <6> QED  BY <4>3, <4>4, <6>1 DEF RowsOnly
        <5>2. CASE l > u /\ l < t
          <6>1. l \in LinesBetween(from, t)
            BY <1>3, <2>1, <4>1, <4>4, <5>0, <5>2 DEF LinesBetween, IsLine
          <6>2. l <= u
            BY <2>2, <4>1, <6>1
          <6> QED  BY <2>1, <5>0, <5>2, <6>2
        <5>3. CASE l = t
          BY <3>4, <5>3
        <5> QED  BY <1>3, <2>1, <5>0, <5>1, <5>2, <5>3
      <4> QED  BY <3>1, <4>3, <4>4 DEF RowsOnly
    <3> QED  BY <1>3, <3>3, <3>4
  <2> QED  BY <2>4, <2>5
<1> QED  BY <1>6, <1>7

(* A climb that starts in a table whose first row is after the start of    *)
(* the block ends at that row.                                             *)
LEMMA ClimbReaches ==
  ASSUME source \in Seq(Pieces), NEW from \in Nat \ {0},
         NEW x \in (from + 1)..End, IsLine(x), source[LineBefore(from, x)].mark # "row"
  PROVE  \A t \in x..End : (IsLine(t) /\ RowsOnly(x, t)) => Climb(from)[t] = x
<1> DEFINE c == Climb(from)
           Good(t) == (IsLine(t) /\ RowsOnly(x, t)) => c[t] = x
           Bad == {t \in x..End : ~Good(t)}
<1>0. End \in Nat /\ x \in Nat /\ x > from
  BY DEF End
<1>1. SUFFICES ASSUME Bad # {} PROVE FALSE
  OBVIOUS
<1>2. PICK t \in Bad : \A u \in Bad : t <= u
  <2>1. Bad \in SUBSET (1..End)
    BY <1>0
  <2> HIDE DEF Bad
  <2> QED  BY <1>0, <1>1, <2>1, LowestPlace
<1>3. t \in x..End /\ IsLine(t) /\ RowsOnly(x, t) /\ c[t] # x /\ t \in Nat
  BY <1>0, <1>2
<1>4. \A u \in x..(t - 1) : Good(u)
  <2>1. ASSUME NEW u \in x..(t - 1) PROVE Good(u)
    <3>1. u \in x..End /\ ~(t <= u)
      BY <1>0, <1>3
    <3> QED  BY <1>2, <3>1
  <2> QED  BY <2>1
<1>5. Climbs(c, from, t)
  <2>1. t \in 1..End
    BY <1>0, <1>3
  <2> QED  BY <2>1, ClimbAt
<1> HIDE DEF Bad
<1>6. t # x
  <2>1. t = x => c[t] = t
    BY <1>5 DEF Climbs, Stops
  <2> QED  BY <1>3, <2>1
<1> DEFINE u == LineBefore(from, t)
<1>7. x \in LinesBetween(from, t) /\ from < t
  BY <1>0, <1>3, <1>6 DEF LinesBetween, IsLine
<1>8. u \in 1..(t - 1) /\ u \in LinesBetween(from, t) /\ \A l \in LinesBetween(from, t) : l <= u
  BY <1>3, <1>7, LineBeforeIsLower
<1> HIDE DEF u
<1>9. u \in x..(t - 1) /\ IsLine(u) /\ u \in x..t
  <2>1. x <= u
    BY <1>7, <1>8
  <2> QED  BY <1>0, <1>3, <1>8, <2>1 DEF LinesBetween, IsLine
<1>10. source[u].mark = "row" /\ RowsOnly(x, u)
  <2>1. \A l \in x..u : l \in x..t
    BY <1>0, <1>3, <1>9
  <2> QED  BY <1>3, <1>9, <2>1 DEF RowsOnly
<1>11. c[t] = c[u]
  <2>1. ~(t <= from)
    BY <1>3, <1>7
  <2> QED  BY <1>5, <1>10, <2>1 DEF Climbs, Stops, u
<1> QED  BY <1>3, <1>4, <1>9, <1>10, <1>11
-----------------------------------------------------------------------------
(***************************************************************************)
(* The structural end.                                                     *)
(***************************************************************************)
(* The fences of the span are closed, or all that is open was opened by    *)
(* its first line.                                                         *)
FencesClosed(from, to) == Cardinality(Fences(from, to)) % 2 = 0 \/ Fences(from, to) \subseteq {from}

InTable(from, to) == source[LineBefore(from, to)].mark = "row"

LEMMA MarkersInSpan ==
  ASSUME NEW from \in Nat \ {0}, NEW to \in Nat, from < to
  PROVE  /\ Fences(from, to) \in SUBSET (from..(to - 1)) /\ IsFiniteSet(Fences(from, to))
         /\ Headings(from, to) \in SUBSET (from..(to - 1))
         /\ Fences(from, to) \in SUBSET (1..to) /\ Headings(from, to) \in SUBSET (1..to)
         /\ \A i \in Fences(from, to) \cup Headings(from, to) : i > from => IsLine(i)
         /\ \A i \in Fences(from, to) : source[i].mark = "fence"
         /\ \A i \in Headings(from, to) : source[i].mark = "heading"
<1>1. Fences(from, to) \in SUBSET (from..(to - 1)) /\ Headings(from, to) \in SUBSET (from..(to - 1))
  BY DEF Fences, Headings, LineStarts
<1>2. from..(to - 1) \in SUBSET (1..to)
  OBVIOUS
<1>3. IsFiniteSet(from..(to - 1))
  BY FS_Interval
<1>4. IsFiniteSet(Fences(from, to))
  BY <1>1, <1>3, FS_Subset
<1>5. \A i \in Fences(from, to) \cup Headings(from, to) : i > from => IsLine(i)
  BY DEF Fences, Headings, LineStarts, IsLine
<1>6. /\ \A i \in Fences(from, to) : source[i].mark = "fence"
      /\ \A i \in Headings(from, to) : source[i].mark = "heading"
  BY DEF Fences, Headings
<1> QED  BY <1>1, <1>2, <1>4, <1>5, <1>6

(* The three ways to end a block early, and the one to end it at the       *)
(* budget.                                                                 *)
LEMMA StructuralEndCases ==
  ASSUME source \in Seq(Pieces), NEW from \in Nat \ {0}, NEW to \in Nat, from < to,
         NEW r, r = StructuralEnd(from, to)
  PROVE  \/ r \in Headings(from, to) /\ r > from
         \/ /\ r \in Fences(from, to) /\ r > from
            /\ Cardinality(Fences(from, to)) % 2 = 1
            /\ \A y \in Fences(from, to) : y <= r
         \/ /\ FencesClosed(from, to) /\ InTable(from, to)
            /\ r = TableStart(from, to) /\ r > from
         \/ /\ FencesClosed(from, to) /\ r = to
            /\ InTable(from, to) => ~(TableStart(from, to) > from)
<1> DEFINE H == Headings(from, to)
           F == Fences(from, to)
           heading == Largest(H, 0)
           fence == Largest(F, 0)
           odd == Cardinality(F) % 2 = 1
<1>1. H \in SUBSET (1..to) /\ F \in SUBSET (1..to) /\ F \in SUBSET (from..(to - 1)) /\ IsFiniteSet(F)
  BY MarkersInSpan
<1>2. \/ H = {} /\ heading = 0
      \/ H # {} /\ heading \in H
  <2> HIDE DEF H
  <2>1. H # {} => heading \in H
    BY <1>1, LargestOf
  <2>2. H = {} => heading = 0
    BY DEF Largest
  <2> QED  BY <2>1, <2>2
<1>3. \/ F = {} /\ fence = 0
      \/ F # {} /\ fence \in F /\ \A y \in F : y <= fence
  <2> HIDE DEF F
  <2>1. F # {} => fence \in F /\ \A y \in F : y <= fence
    BY <1>1, LargestOf
  <2>2. F = {} => fence = 0
    BY DEF Largest
  <2> QED  BY <2>1, <2>2
<1>4. heading \in Nat /\ fence \in Nat
  BY <1>1, <1>2, <1>3
<1>5. Cardinality(F) % 2 = 0 \/ Cardinality(F) % 2 = 1
  <2>1. Cardinality(F) \in Nat
    BY <1>1, FS_CardinalityType
  <2> HIDE DEF F
  <2> QED  BY <2>1
<1>6. r = CASE heading > from -> heading
            [] heading <= from /\ odd /\ fence > from -> fence
            [] OTHER -> IF InTable(from, to) /\ TableStart(from, to) > from
                        THEN TableStart(from, to) ELSE to
  BY DEF StructuralEnd, InTable
<1>7. CASE heading > from
  <2>1. r = heading
    <3> HIDE DEF heading, fence, odd
    <3>1. ~(heading <= from /\ odd /\ fence > from)
      BY <1>4, <1>7
    <3> QED  BY <1>6, <1>7, <3>1
  <2>2. heading # 0
    BY <1>4, <1>7
  <2> QED  BY <1>2, <1>7, <2>1, <2>2
<1>8. CASE ~(heading > from) /\ odd /\ fence > from
  <2>1. r = fence
    <3> HIDE DEF heading, fence, odd
    <3>1. heading <= from
      BY <1>4, <1>8
    <3> QED  BY <1>6, <1>8, <3>1
  <2>2. fence # 0
    BY <1>4, <1>8
  <2> QED  BY <1>3, <1>8, <2>1, <2>2
<1>9. CASE ~(heading > from) /\ ~(odd /\ fence > from)
  <2>1. r = IF InTable(from, to) /\ TableStart(from, to) > from THEN TableStart(from, to) ELSE to
    <3> HIDE DEF heading, fence, odd
    <3> QED  BY <1>6, <1>9
  <2>2. FencesClosed(from, to)
    <3>1. CASE Cardinality(F) % 2 = 0
      BY <3>1 DEF FencesClosed
    <3>2. CASE odd
      <4>1. ~(fence > from)
        BY <1>9, <3>2
      <4>2. \A y \in F : y = from
        <5> HIDE DEF fence, F
        <5> QED  BY <1>1, <1>3, <1>4, <4>1
      <4> QED  BY <4>2 DEF FencesClosed
    <3> QED  BY <1>5, <3>1, <3>2
  <2> QED  BY <2>1, <2>2
<1> QED  BY <1>7, <1>8, <1>9

(* "A structural boundary immediately at the start must not stall the      *)
(* loop", and none is after the budget.                                    *)
LEMMA StructuralEndIsWithin ==
  ASSUME source \in Seq(Pieces), NEW from \in 1..Len(source), NEW to \in (from + 1)..End
  PROVE  StructuralEnd(from, to) \in (from + 1)..to
<1>0. from \in Nat \ {0} /\ to \in Nat /\ from < to /\ to <= End /\ End \in Nat
  BY DEF End
<1> DEFINE r == StructuralEnd(from, to)
<1>1. TableStart(from, to) \in 1..(to - 1)
  <2>1. LineBefore(from, to) \in 1..(to - 1)
    BY <1>0, LineBeforeIsLower
  <2>2. LineBefore(from, to) \in 1..End
    BY <1>0, <2>1
  <2>3. Climb(from)[LineBefore(from, to)] \in 1..LineBefore(from, to)
    BY <1>0, <2>2, ClimbStops
  <2> QED  BY <1>0, <2>1, <2>3, TableStartIsClimb
<1>2. Fences(from, to) \in SUBSET (from..(to - 1)) /\ Headings(from, to) \in SUBSET (from..(to - 1))
  BY <1>0, MarkersInSpan
<1>3. \/ r \in Headings(from, to) /\ r > from
      \/ r \in Fences(from, to) /\ r > from
      \/ r = TableStart(from, to) /\ r > from
      \/ r = to
  BY <1>0, StructuralEndCases
<1> HIDE DEF r
<1>4. r \in from..to
  BY <1>0, <1>1, <1>2, <1>3
<1>5. r > from
  BY <1>0, <1>3
<1>6. r \in (from + 1)..to
  BY <1>0, <1>4, <1>5
<1> QED  BY <1>6 DEF r
(* What BudgetOpensNoStructure says of one block. *)
TablesBegun(from, to) ==
  {t \in LineStarts(from, to) :
     /\ source[t].mark = "row" /\ t > from
     /\ \A l \in LineStarts(t, to + 1) : source[l].mark = "row"
     /\ source[Largest(LineStarts(from, t), t)].mark # "row"}

OpensNothing(from, to) ==
  to < End =>
    /\ TablesBegun(from, to) = {} \/ source[1].mark = "row"
    /\ Cardinality(Fences(from, to)) % 2 = 0 \/ Fences(from, to) \ {from} = {}
         \/ source[to].mark = "heading"

(* The row a table begins with has no row before it, where _structural_end *)
(* looks for one.                                                          *)
LEMMA TableBeginsAtRow ==
  ASSUME NEW from \in Nat \ {0}, NEW to \in Nat, from < to,
         source[1].mark # "row", NEW t \in TablesBegun(from, to)
  PROVE  /\ t \in (from + 1)..(to - 1) /\ IsLine(t) /\ RowsOnly(t, to)
         /\ source[t].mark = "row" /\ source[LineBefore(from, t)].mark # "row"
<1>1. t \in (from + 1)..(to - 1) /\ IsLine(t) /\ source[t].mark = "row"
  BY DEF TablesBegun, LineStarts, IsLine
<1>2. RowsOnly(t, to)
  <2>1. \A l \in t..to : IsLine(l) => l \in LineStarts(t, to + 1)
    BY <1>1 DEF LineStarts, IsLine
  <2> QED  BY <2>1 DEF TablesBegun, RowsOnly
<1>3. source[LineBefore(from, t)].mark # "row"
  <2>0. t \in Nat /\ from < t
    BY <1>1
  <2>1. CASE LinesBetween(from, t) = {}
    <3>1. LineBefore(from, t) = 1
      BY <2>0, <2>1, LineBeforeIsLower
    <3> QED  BY <3>1
  <2>2. CASE LinesBetween(from, t) # {}
    <3> DEFINE S == LineStarts(from, t)
               L == LinesBetween(from, t)
               u == LineBefore(from, t)
               v == Largest(S, t)
    <3>1. S = {from} \cup L
      BY <2>0 DEF LineStarts, LinesBetween
    <3>2. S \in SUBSET (1..t) /\ from \in S
      BY <2>0, <3>1 DEF LinesBetween
    <3>3. v \in S /\ \A y \in S : y <= v
      <4> HIDE DEF S
      <4> QED  BY <2>0, <3>2, LargestOf
    <3>4. u \in L /\ \A y \in L : y <= u
      BY <2>0, <2>2, LineBeforeIsLower
    <3>5. L \in SUBSET ((from + 1)..t)
      BY <2>0 DEF LinesBetween
    <3> HIDE DEF S, L, u, v
    <3>6. v = u
      BY <2>0, <3>1, <3>2, <3>3, <3>4, <3>5
    <3>7. source[v].mark # "row"
      BY DEF TablesBegun, v, S
    <3> QED  BY <3>6, <3>7 DEF u
  <2> QED  BY <2>1, <2>2
<1> QED  BY <1>1, <1>2, <1>3

(* A heading: no table goes on there. *)
LEMMA HeadingOpensNothing ==
  ASSUME NEW from \in Nat \ {0}, NEW to \in Nat, from < to,
         NEW r \in Headings(from, to), r > from
  PROVE  OpensNothing(from, r)
<1>1. r \in Nat /\ IsLine(r) /\ source[r].mark = "heading"
  BY MarkersInSpan
<1>2. ASSUME source[1].mark # "row", NEW t \in TablesBegun(from, r) PROVE FALSE
  <2>1. RowsOnly(t, r) /\ t \in (from + 1)..(r - 1)
    BY <1>1, <1>2, TableBeginsAtRow
  <2>2. r \in t..r
    BY <1>1, <2>1
  <2> QED  BY <1>1, <2>1, <2>2 DEF RowsOnly
<1> QED  BY <1>1, <1>2 DEF OpensNothing

(* The fence that opens what the budget would leave open. *)
LEMMA FenceOpensNothing ==
  ASSUME NEW from \in Nat \ {0}, NEW to \in Nat, from < to,
         NEW r \in Fences(from, to), r > from,
         Cardinality(Fences(from, to)) % 2 = 1, \A y \in Fences(from, to) : y <= r
  PROVE  OpensNothing(from, r)
<1>0. IsFiniteSet(Fences(from, to)) /\ Fences(from, to) \in SUBSET (from..(to - 1))
  BY MarkersInSpan
<1>1. r \in Nat /\ IsLine(r) /\ source[r].mark = "fence" /\ r < to
  BY <1>0, MarkersInSpan
<1>2. ASSUME source[1].mark # "row", NEW t \in TablesBegun(from, r) PROVE FALSE
  <2>1. RowsOnly(t, r) /\ t \in (from + 1)..(r - 1)
    BY <1>1, <1>2, TableBeginsAtRow
  <2>2. r \in t..r
    BY <1>1, <2>1
  <2> QED  BY <1>1, <2>1, <2>2 DEF RowsOnly
<1>3. Fences(from, r) = Fences(from, to) \ {r}
  <2>1. \A i \in Fences(from, r) : i \in Fences(from, to) /\ i # r
    BY <1>1 DEF Fences, LineStarts
  <2>2. \A i \in Fences(from, to) : i # r => i \in Fences(from, r)
    <3>1. \A i \in Fences(from, to) : i # r => i \in from..(r - 1)
      BY <1>0, <1>1
    <3> QED  BY <3>1 DEF Fences, LineStarts
  <2> QED  BY <2>1, <2>2
<1> DEFINE n == Cardinality(Fences(from, to))
<1>4. Cardinality(Fences(from, r)) = n - 1 /\ n \in Nat
  BY <1>0, <1>3, FS_RemoveElement, FS_CardinalityType
<1>5. Cardinality(Fences(from, r)) % 2 = 0
  <2>1. n % 2 = 1
    OBVIOUS
  <2> HIDE DEF n
  <2>2. (n - 1) % 2 = 0
    BY <1>4, <2>1
  <2> QED  BY <1>4, <2>2
<1> QED  BY <1>1, <1>2, <1>5 DEF OpensNothing

(* The first row of the table that the budget would cut. *)
LEMMA TableOpensNothing ==
  ASSUME source \in Seq(Pieces),
         NEW from \in Nat \ {0}, NEW to \in Nat, from < to, to <= End,
         FencesClosed(from, to), InTable(from, to),
         TableStart(from, to) > from
  PROVE  OpensNothing(from, TableStart(from, to))
<1> DEFINE r == TableStart(from, to)
           u == LineBefore(from, to)
<1>0. End \in Nat /\ u \in 1..(to - 1) /\ u \in 1..End
  <2>1. u \in 1..(to - 1)
    BY LineBeforeIsLower
  <2> HIDE DEF u
  <2> QED  BY <2>1 DEF End
<1>1. r = Climb(from)[u] /\ r \in 1..u
  BY <1>0, TableStartIsClimb, ClimbStops
<1>2. u > from /\ r \in Nat /\ u \in Nat
  <2>1. r > from
    OBVIOUS
  <2> HIDE DEF r, u
  <2> QED  BY <1>0, <1>1, <2>1
<1>3. u \in LinesBetween(from, to) /\ \A l \in LinesBetween(from, to) : l <= u
  <2>1. u # 1
    <3> HIDE DEF u
    <3> QED  BY <1>2
  <2> QED  BY <2>1, LineBeforeIsLower
<1>4. IsLine(u) /\ source[u].mark = "row"
  BY <1>3 DEF LinesBetween, IsLine, InTable
<1>5. /\ IsLine(r) /\ RowsOnly(r, u)
      /\ source[LineBefore(from, r)].mark # "row"
  <2>1. Climb(from)[u] > from
    BY <1>1
  <2>2. /\ IsLine(Climb(from)[u])
        /\ RowsOnly(Climb(from)[u], u)
        /\ source[LineBefore(from, Climb(from)[u])].mark # "row"
    <3> HIDE DEF u
    <3> QED  BY <1>0, <1>4, <2>1, ClimbStops
  <2> HIDE DEF r, u
  <2> QED  BY <1>1, <2>2
<1>6. r > from
  OBVIOUS
<1> HIDE DEF r, u
<1>7. ASSUME source[1].mark # "row", NEW t \in TablesBegun(from, r) PROVE FALSE
  <2>1. t \in (from + 1)..(r - 1) /\ IsLine(t) /\ RowsOnly(t, r)
    BY <1>2, <1>6, <1>7, TableBeginsAtRow
  <2>2. t \in LinesBetween(from, r)
    BY <2>1 DEF LinesBetween, IsLine
  <2> DEFINE v == LineBefore(from, r)
  <2>3. v \in LinesBetween(from, r) /\ \A l \in LinesBetween(from, r) : l <= v
    BY <1>2, <1>6, <2>2, LineBeforeIsLower
  <2> HIDE DEF v
  <2>4. t <= v /\ v \in (from + 1)..(r - 1) /\ IsLine(v)
    BY <2>2, <2>3 DEF LinesBetween, IsLine
  <2>5. v \in t..r
    BY <1>2, <2>1, <2>4
  <2>6. source[v].mark = "row"
    BY <2>1, <2>4, <2>5 DEF RowsOnly
  <2> QED  BY <1>5, <2>6 DEF v
<1>8. Fences(from, r) = Fences(from, to)
  <2>1. r <= u /\ u < to
    BY <1>0, <1>1, <1>2
  <2>2. \A i \in Fences(from, r) : i \in Fences(from, to)
    BY <1>2, <2>1 DEF Fences, LineStarts
  <2>3. ASSUME NEW i \in Fences(from, to) PROVE i \in Fences(from, r)
    <3>1. i \in from..(to - 1) /\ source[i].mark = "fence" /\ (i = from \/ IsLine(i))
      BY <2>3 DEF Fences, LineStarts, IsLine
    <3>2. i < r
      <4>1. CASE i = from
        BY <1>2, <1>6, <4>1
      <4>2. CASE i # from /\ i > u
        <5>1. i \in LinesBetween(from, to)
          BY <1>2, <3>1, <4>2 DEF LinesBetween, IsLine
        <5>2. i <= u
          BY <1>3, <5>1
        <5> QED  BY <1>2, <3>1, <4>2, <5>2
      <4>3. CASE i # from /\ i <= u /\ i >= r
        <5>1. i \in r..u
          BY <1>2, <3>1, <4>3
        <5>2. source[i].mark = "row"
          BY <1>5, <3>1, <4>3, <5>1 DEF RowsOnly
        <5> QED  BY <3>1, <5>2
      <4> QED  BY <1>2, <3>1, <4>1, <4>2, <4>3
    <3>3. i \in from..(r - 1)
      BY <1>2, <3>1, <3>2
    <3> QED  BY <3>1, <3>3 DEF Fences, LineStarts, IsLine
  <2> QED  BY <2>2, <2>3
<1>9. Cardinality(Fences(from, r)) % 2 = 0 \/ Fences(from, r) \ {from} = {}
  BY <1>8 DEF FencesClosed
<1>10. OpensNothing(from, r)
  BY <1>7, <1>9 DEF OpensNothing
<1> QED  BY <1>10 DEF r

(* The budget itself, when no table goes on before it or the table began   *)
(* with the block.                                                         *)
LEMMA BudgetOpensNothing ==
  ASSUME source \in Seq(Pieces),
         NEW from \in Nat \ {0}, NEW to \in Nat, from < to, to <= End,
         FencesClosed(from, to), InTable(from, to) => ~(TableStart(from, to) > from)
  PROVE  OpensNothing(from, to)
<1> DEFINE u == LineBefore(from, to)
<1>0. End \in Nat /\ u \in 1..(to - 1) /\ u \in 1..End
  <2>1. u \in 1..(to - 1)
    BY LineBeforeIsLower
  <2> HIDE DEF u
  <2> QED  BY <2>1 DEF End
<1>1. ASSUME source[1].mark # "row", NEW t \in TablesBegun(from, to) PROVE FALSE
  <2>1. /\ t \in (from + 1)..(to - 1) /\ IsLine(t) /\ RowsOnly(t, to)
        /\ source[LineBefore(from, t)].mark # "row"
    BY <1>1, TableBeginsAtRow
  <2>2. t \in LinesBetween(from, to)
    BY <2>1 DEF LinesBetween, IsLine
  <2>3. u \in LinesBetween(from, to) /\ \A l \in LinesBetween(from, to) : l <= u
    BY <2>2, LineBeforeIsLower
  <2>4. t <= u /\ IsLine(u)
    <3> HIDE DEF u
    <3> QED  BY <2>2, <2>3 DEF LinesBetween, IsLine
  <2>5. u \in t..to /\ u \in t..End
    <3> HIDE DEF u
    <3> QED  BY <1>0, <2>1, <2>4
  <2>6. source[u].mark = "row" /\ RowsOnly(t, u)
    <3> HIDE DEF u
    <3>1. \A l \in t..u : l \in t..to
      BY <2>1, <2>5
    <3> QED  BY <2>1, <2>4, <2>5, <3>1 DEF RowsOnly
  <2>7. t \in (from + 1)..End
    BY <1>0, <2>1
  <2>8. Climb(from)[u] = t
    <3> HIDE DEF u
    <3> QED  BY <2>1, <2>4, <2>5, <2>6, <2>7, ClimbReaches
  <2>9. InTable(from, to) /\ TableStart(from, to) = t
    BY <2>6, <2>8, TableStartIsClimb DEF InTable
  <2> QED  BY <2>1, <2>9
<1>2. Cardinality(Fences(from, to)) % 2 = 0 \/ Fences(from, to) \ {from} = {}
  BY DEF FencesClosed
<1> QED  BY <1>1, <1>2 DEF OpensNothing

LEMMA StructuralEndOpensNothing ==
  ASSUME source \in Seq(Pieces), NEW from \in 1..Len(source), NEW to \in (from + 1)..End
  PROVE  OpensNothing(from, StructuralEnd(from, to))
<1>0. from \in Nat \ {0} /\ to \in Nat /\ from < to /\ to <= End
  BY DEF End
<1> DEFINE r == StructuralEnd(from, to)
<1>1. \/ r \in Headings(from, to) /\ r > from
      \/ /\ r \in Fences(from, to) /\ r > from
         /\ Cardinality(Fences(from, to)) % 2 = 1
         /\ \A y \in Fences(from, to) : y <= r
      \/ /\ FencesClosed(from, to) /\ InTable(from, to)
         /\ r = TableStart(from, to) /\ r > from
      \/ /\ FencesClosed(from, to) /\ r = to
         /\ InTable(from, to) => ~(TableStart(from, to) > from)
  BY <1>0, StructuralEndCases
<1> HIDE DEF r
<1>2. OpensNothing(from, r)
  <2>1. CASE r \in Headings(from, to) /\ r > from
    BY <1>0, <2>1, HeadingOpensNothing
  <2>2. CASE /\ r \in Fences(from, to) /\ r > from
             /\ Cardinality(Fences(from, to)) % 2 = 1
             /\ \A y \in Fences(from, to) : y <= r
    BY <1>0, <2>2, FenceOpensNothing
  <2>3. CASE /\ FencesClosed(from, to) /\ InTable(from, to)
             /\ r = TableStart(from, to) /\ r > from
    BY <1>0, <2>3, TableOpensNothing
  <2>4. CASE /\ FencesClosed(from, to) /\ r = to
             /\ InTable(from, to) => ~(TableStart(from, to) > from)
    BY <1>0, <2>4, BudgetOpensNothing
  <2> QED  BY <1>1, <2>1, <2>2, <2>3, <2>4
<1> QED  BY <1>2 DEF r
-----------------------------------------------------------------------------
(***************************************************************************)
(* The loop.  A chunk is well cut when it is within the budget, its words  *)
(* are accounted for, and it ends where the model split the block or at    *)
(* the block's structural end.                                             *)
(***************************************************************************)
AllOutcomes == Outcomes \cup {"suffix_rollover", "suffix_at_block_start_kept_as_block"}
ChunkRecord == [from : Nat, to : Nat, outcome : AllOutcomes, block : Nat, suffix : Nat]

Cut(to) == IF to < End /\ source[to].gap = "none" THEN 1 ELSE 0

WellCut(c) ==
  /\ c.from < c.to /\ c.to <= End
  /\ Words(c.from, c.to) <= MaxWords
  /\ c.block = Words(c.from, c.to) + c.suffix - (IF c.suffix > 0 THEN Cut(c.to) ELSE 0)
  /\ c.outcome # "suffix_rollover" => OpensNothing(c.from, c.to)

ChunkInv ==
  /\ source \in Seq(Pieces) /\ raw \in Seq(ChunkRecord)
  /\ pending \in 1..End
  /\ pending = IF raw = <<>> THEN 1 ELSE raw[Len(raw)].to
  /\ \A i \in DOMAIN raw : /\ raw[i].from = IF i = 1 THEN 1 ELSE raw[i - 1].to
                           /\ raw[i].from \in 1..Len(source)
                           /\ WellCut(raw[i])

(* The block that is cut off next. *)
LEMMA BlockIsWithin ==
  ASSUME source \in Seq(Pieces), pending \in 1..End, More
  PROVE  /\ pending \in 1..Len(source) /\ pending \in Nat
         /\ BlockEnd \in (pending + 1)..End
         /\ Words(pending, BlockEnd) \in Nat /\ Words(pending, BlockEnd) <= MaxWords
<1>1. pending \in 1..Len(source) /\ pending \in Nat /\ End \in Nat
  BY DEF More, End
<1> DEFINE n == NominalEnd(pending)
<1>2. n \in (pending + 1)..End /\ Words(pending, n) <= MaxWords
  BY <1>1, NominalEndFits
<1>3. BlockEnd \in (pending + 1)..n
  <2> HIDE DEF n
  <2>1. StructuralEnd(pending, n) \in (pending + 1)..n
    BY <1>1, <1>2, StructuralEndIsWithin
  <2> QED  BY <2>1 DEF BlockEnd, n
<1> HIDE DEF n
<1>4. BlockEnd \in Nat /\ n \in Nat /\ BlockEnd <= n /\ BlockEnd \in (pending + 1)..End
  BY <1>1, <1>2, <1>3
<1>5. Words(pending, BlockEnd) <= Words(pending, n)
  BY <1>1, <1>4, WordsGrow
<1>6. Words(pending, BlockEnd) \in Nat /\ Words(pending, n) \in Nat
  BY <1>1, <1>4, WordsType
<1> QED  BY <1>1, <1>2, <1>4, <1>5, <1>6, ChunkAssumption

(* The suffix the model answers occurs last where it was cut. *)
LEMMA SplitAtSuffix ==
  ASSUME source \in Seq(Pieces), pending \in 1..End, More, NEW k \in pending..(BlockEnd - 1)
  PROVE  SplitAt(Text(k, BlockEnd)) = k
<1> DEFINE t == Text(k, BlockEnd)
           here(j) == j + Len(t) <= BlockEnd /\ Text(j, j + Len(t)) = t
<1>0. pending \in Nat /\ BlockEnd \in Nat /\ k \in Nat /\ k < BlockEnd
  BY BlockIsWithin
<1>1. Len(t) = BlockEnd - k
  <2>1. BlockEnd - k \in Nat
    BY <1>0
  <2> QED  BY <2>1 DEF Text
<1>2. here(k)
  <2>1. k + (BlockEnd - k) = BlockEnd
    BY <1>0
  <2> QED  BY <1>0, <1>1, <2>1
<1> HIDE DEF t
<1>3. \A j \in pending..(BlockEnd - 1) : here(j) => j <= k
  BY <1>0, <1>1
<1>4. \A j \in (k + 1)..(BlockEnd - 1) : ~here(j)
  BY <1>0, <1>1
<1> DEFINE last(x) == here(x) /\ \A j \in (x + 1)..(BlockEnd - 1) : ~here(j)
<1>5. SplitAt(t) = CHOOSE x \in pending..(BlockEnd - 1) : last(x)
  BY DEF SplitAt
<1>6. last(k)
  BY <1>2, <1>4
<1> DEFINE x == SplitAt(t)
<1>7. x \in pending..(BlockEnd - 1) /\ last(x)
  <2> HIDE DEF last
  <2> QED  BY <1>5, <1>6
<1>8. x <= k
  BY <1>3, <1>7
<1>9. ~(x < k)
  <2>1. x < k => k \in (x + 1)..(BlockEnd - 1)
    BY <1>0, <1>7
  <2> QED  BY <1>2, <1>7, <2>1
<1> HIDE DEF x
<1>10. x = k
  BY <1>0, <1>7, <1>8, <1>9
<1> QED  BY <1>10 DEF x, t

(* What is well cut depends on the source only. *)
LEMMA SameSource ==
  ASSUME source' = source, NEW CONSTANT x
  PROVE  WellCut(x)' <=> WellCut(x)
<1>1. \A a, b : (WordStarts(a, b))' = WordStarts(a, b)
  BY DEF WordStarts
<1>2. \A a, b : (LineStarts(a, b))' = LineStarts(a, b)
  BY DEF LineStarts
<1>3. \A a, b : (Words(a, b))' = Words(a, b)
  BY <1>1 DEF Words
<1>4. \A a, b : (Fences(a, b))' = Fences(a, b)
  BY <1>2 DEF Fences
<1>5. \A a, b : (TablesBegun(a, b))' = TablesBegun(a, b)
  BY <1>2 DEF TablesBegun
<1>6. \A to : Cut(to)' = Cut(to)
  BY DEF Cut, End
<1>7. \A a, b : (OpensNothing(a, b))' <=> OpensNothing(a, b)
  BY <1>4, <1>5 DEF OpensNothing, End
<1> QED  BY <1>3, <1>6, <1>7 DEF WellCut, End

(* A step that appends a well cut chunk from where the loop is and goes on *)
(* from its end keeps the invariant.                                       *)
LEMMA ChunkAppended ==
  ASSUME ChunkInv, More, source' = source, NEW c \in ChunkRecord, raw' = Append(raw, c),
         pending' = c.to, c.from = pending, WellCut(c)
  PROVE  ChunkInv'
<1> USE DEF ChunkInv
<1>1. End' = End /\ End = Len(source) + 1 /\ Len(source) \in Nat /\ pending \in 1..Len(source)
  BY DEF End, More
<1>2. /\ raw' \in Seq(ChunkRecord) /\ Len(raw') = Len(raw) + 1 /\ Len(raw) \in Nat
      /\ DOMAIN raw = 1..Len(raw) /\ DOMAIN raw' = 1..(Len(raw) + 1)
      /\ raw'[Len(raw) + 1] = c /\ \A i \in 1..Len(raw) : raw'[i] = raw[i]
  BY DEF ChunkRecord
<1>3. c.to \in Nat /\ c.from \in Nat
  BY DEF ChunkRecord
<1>4. pending' \in 1..End
  BY <1>1, <1>3 DEF WellCut
<1>5. raw' # <<>>
  BY <1>2
<1>6. \A x : WellCut(x)' <=> WellCut(x)
  BY SameSource
<1>7. ASSUME NEW i \in DOMAIN raw'
      PROVE  /\ raw'[i].from = IF i = 1 THEN 1 ELSE raw'[i - 1].to
             /\ raw'[i].from \in 1..Len(source)
             /\ WellCut(raw'[i])
  <2>1. CASE i \in 1..Len(raw)
    <3>1. raw'[i] = raw[i] /\ (i # 1 => i - 1 \in 1..Len(raw) /\ raw'[i - 1] = raw[i - 1])
      BY <1>2, <2>1
    <3> HIDE DEF ChunkInv
    <3>2. /\ raw[i].from = IF i = 1 THEN 1 ELSE raw[i - 1].to
          /\ raw[i].from \in 1..Len(source)
          /\ WellCut(raw[i])
      BY <1>2, <2>1 DEF ChunkInv
    <3> QED  BY <3>1, <3>2
  <2>2. CASE i = Len(raw) + 1
    <3>1. raw'[i] = c
      BY <1>2, <2>2
    <3>2. pending = IF i = 1 THEN 1 ELSE raw'[i - 1].to
      <4>1. CASE raw = <<>>
        BY <1>2, <2>2, <4>1
      <4>2. CASE raw # <<>>
        <5>1. i # 1 /\ i - 1 = Len(raw) /\ Len(raw) \in 1..Len(raw)
          BY <1>2, <2>2, <4>2
        <5> QED  BY <1>2, <4>2, <5>1
      <4> QED  BY <4>1, <4>2
    <3> QED  BY <1>1, <3>1, <3>2
  <2>3. i \in 1..Len(raw) \/ i = Len(raw) + 1
    BY <1>2
  <2> QED  BY <2>1, <2>2, <2>3
<1>8. pending' = IF raw' = <<>> THEN 1 ELSE raw'[Len(raw')].to
  BY <1>2, <1>5
<1>9. (source \in Seq(Pieces))'
  OBVIOUS
<1>10. (\A i \in DOMAIN raw : WellCut(raw[i]))'
  <2> HIDE DEF WellCut
  <2> QED  BY <1>6, <1>7
<1>11. Len(source)' = Len(source)
  OBVIOUS
<1> QED  BY <1>1, <1>2, <1>4, <1>7, <1>8, <1>9, <1>10, <1>11

(* A chunk that is the whole block. *)
LEMMA BlockIsWellCut ==
  ASSUME ChunkInv, More, NEW o \in AllOutcomes
  PROVE  Chunk(BlockEnd, o, 0) \in ChunkRecord /\ WellCut(Chunk(BlockEnd, o, 0))
<1>1. /\ pending \in 1..Len(source) /\ pending \in Nat
      /\ BlockEnd \in (pending + 1)..End /\ BlockEnd \in Nat /\ End \in Nat
      /\ Words(pending, BlockEnd) \in Nat /\ Words(pending, BlockEnd) <= MaxWords
  BY BlockIsWithin DEF ChunkInv, End
<1>2. Chunk(BlockEnd, o, 0) \in ChunkRecord
  BY <1>1 DEF Chunk, ChunkRecord
<1>3. OpensNothing(pending, BlockEnd)
  <2>1. NominalEnd(pending) \in (pending + 1)..End /\ source \in Seq(Pieces)
    BY <1>1, NominalEndFits DEF ChunkInv
  <2> QED  BY <1>1, <2>1, StructuralEndOpensNothing DEF BlockEnd
<1>4. WellCut(Chunk(BlockEnd, o, 0))
  BY <1>1, <1>3 DEF Chunk, WellCut
<1> QED  BY <1>2, <1>4

LEMMA RolloverKeepsInv ==
  ASSUME ChunkInv, NEW k \in pending..(BlockEnd - 1), Rollover(k)
  PROVE  ChunkInv'
<1>0. More /\ source' = source /\ source \in Seq(Pieces) /\ pending \in 1..End
  BY DEF Rollover, ChunkInv
<1>1. /\ pending \in 1..Len(source) /\ pending \in Nat
      /\ BlockEnd \in (pending + 1)..End /\ BlockEnd \in Nat /\ End \in Nat
      /\ Words(pending, BlockEnd) \in Nat /\ Words(pending, BlockEnd) <= MaxWords
  BY <1>0, BlockIsWithin DEF End
<1>2. SplitAt(Text(k, BlockEnd)) = k
  BY <1>0, SplitAtSuffix
<1>3. k \in Nat /\ pending <= k /\ k < BlockEnd
  BY <1>1
<1>4. CASE k > pending
  <2> DEFINE c == Chunk(k, "suffix_rollover", Words(k, BlockEnd))
  <2>1. raw' = Append(raw, c) /\ pending' = k
    BY <1>2, <1>4 DEF Rollover, Emit
  <2>2. Words(k, BlockEnd) \in Nat /\ Words(pending, k) \in Nat
    BY <1>1, <1>3, WordsType
  <2>3. Words(pending, k) <= Words(pending, BlockEnd)
    BY <1>1, <1>3, WordsGrow
  <2>4. Words(pending, BlockEnd) =
          Words(pending, k) + Words(k, BlockEnd) - (IF source[k].gap = "none" THEN 1 ELSE 0)
    BY <1>1, <1>3, <1>4, WordsOfParts
  <2>5. Words(k, BlockEnd) > 0
    <3>1. k \in WordStarts(k, k + 1)
      BY <1>3 DEF WordStarts
    <3>2. Words(k, k) = 0 /\ Words(k, k + 1) = Words(k, k) + 1
      BY <1>3, <3>1, WordsNext
    <3>3. Words(k, k + 1) <= Words(k, BlockEnd)
      BY <1>1, <1>3, WordsGrow
    <3> QED  BY <2>2, <3>2, <3>3
  <2>6. k < End
    BY <1>1, <1>3
  <2>7. c \in ChunkRecord /\ c.to = k /\ c.from = pending
    <3>1. "suffix_rollover" \in AllOutcomes
      BY DEF AllOutcomes
    <3> QED  BY <1>1, <1>3, <2>2, <3>1 DEF Chunk, ChunkRecord
  <2>8. WellCut(c)
    <3>1. Words(pending, k) <= MaxWords
      BY <1>1, <2>2, <2>3, ChunkAssumption
    <3>2. Words(pending, BlockEnd) =
            Words(pending, k) + Words(k, BlockEnd)
              - (IF Words(k, BlockEnd) > 0 THEN Cut(k) ELSE 0)
      BY <2>4, <2>5, <2>6 DEF Cut
    <3> QED  BY <1>1, <1>3, <1>4, <2>6, <3>1, <3>2 DEF WellCut, Chunk
  <2> HIDE DEF c
  <2> QED  BY <1>0, <2>1, <2>7, <2>8, ChunkAppended
<1>5. CASE ~(k > pending)
  <2> DEFINE c == Chunk(BlockEnd, "suffix_at_block_start_kept_as_block", 0)
  <2>1. raw' = Append(raw, c) /\ pending' = BlockEnd
    BY <1>2, <1>5 DEF Rollover, Emit
  <2>2. c \in ChunkRecord /\ WellCut(c)
    <3>1. "suffix_at_block_start_kept_as_block" \in AllOutcomes
      BY DEF AllOutcomes
    <3> QED  BY <1>0, <3>1, BlockIsWellCut
  <2>3. c.to = BlockEnd /\ c.from = pending
    BY DEF Chunk
  <2> HIDE DEF c
  <2> QED  BY <1>0, <2>1, <2>2, <2>3, ChunkAppended
<1> QED  BY <1>4, <1>5

LEMMA KeepBlockKeepsInv ==
  ASSUME ChunkInv, NEW o \in Outcomes, KeepBlock(o)
  PROVE  ChunkInv'
<1>1. More /\ source' = source
  BY DEF KeepBlock
<1> DEFINE c == Chunk(BlockEnd, o, 0)
<1>2. raw' = Append(raw, c) /\ pending' = BlockEnd
  BY DEF KeepBlock, Emit, Kept
<1>3. o \in AllOutcomes
  BY DEF AllOutcomes
<1>4. c \in ChunkRecord /\ WellCut(c)
  BY <1>1, <1>3, BlockIsWellCut
<1>5. c.to = BlockEnd /\ c.from = pending
  BY DEF Chunk
<1> HIDE DEF c
<1> QED  BY <1>1, <1>2, <1>4, <1>5, ChunkAppended

LEMMA ChunkInvHolds == ChunkSpec => []ChunkInv
<1>1. ChunkInit => ChunkInv
  <2> SUFFICES ASSUME ChunkInit PROVE ChunkInv
    OBVIOUS
  <2>1. source \in Seq(Pieces) /\ pending = 1 /\ raw = <<>>
    BY SourcesAssumption DEF ChunkInit
  <2>2. 1 \in 1..End
    BY <2>1 DEF End
  <2> QED  BY <2>1, <2>2 DEF ChunkInv
<1>2. ChunkInv /\ [ChunkNext]_chunkVars => ChunkInv'
  <2> SUFFICES ASSUME ChunkInv, [ChunkNext]_chunkVars PROVE ChunkInv'
    OBVIOUS
  <2>1. ASSUME NEW k \in pending..(BlockEnd - 1), Rollover(k) PROVE ChunkInv'
    BY <2>1, RolloverKeepsInv
  <2>2. ASSUME NEW o \in Outcomes, KeepBlock(o) PROVE ChunkInv'
    BY <2>2, KeepBlockKeepsInv
  <2>3. CASE UNCHANGED chunkVars
    <3>1. source' = source /\ pending' = pending /\ raw' = raw
      BY <2>3 DEF chunkVars
    <3>2. \A x : WellCut(x)' <=> WellCut(x)
      BY <3>1, SameSource
    <3> QED  BY <3>1, <3>2 DEF ChunkInv, End
  <2> QED  BY <2>1, <2>2, <2>3 DEF ChunkNext
<1> QED  BY <1>1, <1>2, PTL DEF ChunkSpec

(* "Rolls the exact suffix into the next block", "without overlap or loss":*)
(* the spans tile the source, within the budget, and the counts a decision *)
(* records are those of its spans (semantic_chunks).                       *)
THEOREM Tiling == ChunkSpec => []SpansTileTheSource
<1>1. ChunkInv => SpansTileTheSource
  <2> SUFFICES ASSUME ChunkInv PROVE SpansTileTheSource
    OBVIOUS
  <2> QED  BY DEF ChunkInv, WellCut, Cut, SpansTileTheSource
<1> QED  BY <1>1, ChunkInvHolds, PTL

(* A block that is kept opens no table and no fence where it ends, if a    *)
(* heading did not end it (_structural_end).                               *)
THEOREM StructureKept == ChunkSpec => []BudgetOpensNoStructure
<1>1. ASSUME ChunkInv, NEW i \in DOMAIN raw, raw[i].outcome # "suffix_rollover"
      PROVE  OpensNothing(raw[i].from, raw[i].to)
  BY <1>1 DEF ChunkInv, WellCut
<1>2. ChunkInv => BudgetOpensNoStructure
  BY <1>1 DEF OpensNothing, TablesBegun, BudgetOpensNoStructure
<1> QED  BY <1>2, ChunkInvHolds, PTL
(* "A structural boundary immediately at the start must not stall the      *)
(* loop": every round gets further, which is what CutToTheEnd needs beside *)
(* the fairness of the loop.                                               *)
THEOREM LoopAdvances == ChunkSpec => [][pending < pending']_chunkVars
<1>1. ASSUME ChunkInv, ChunkNext PROVE pending < pending'
  <2>0. More => /\ pending \in Nat /\ BlockEnd \in (pending + 1)..End
                /\ \A k \in pending..(BlockEnd - 1) : SplitAt(Text(k, BlockEnd)) = k
    BY <1>1, BlockIsWithin, SplitAtSuffix DEF ChunkInv
  <2>1. ASSUME NEW k \in pending..(BlockEnd - 1), Rollover(k) PROVE pending < pending'
    <3>1. More /\ (pending' = BlockEnd \/ (pending' = k /\ k > pending))
      BY <2>0, <2>1 DEF Rollover
    <3> QED  BY <2>0, <3>1
  <2>2. ASSUME NEW o \in Outcomes, KeepBlock(o) PROVE pending < pending'
    <3>1. More /\ pending' = BlockEnd
      BY <2>2 DEF KeepBlock, Kept
    <3> QED  BY <2>0, <3>1
  <2> QED  BY <1>1, <2>1, <2>2 DEF ChunkNext
<1>2. ChunkInv /\ [ChunkNext]_chunkVars => [pending < pending']_chunkVars
  BY <1>1
<1> QED  BY <1>2, ChunkInvHolds, PTL DEF ChunkSpec

=============================================================================
