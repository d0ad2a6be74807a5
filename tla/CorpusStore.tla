------------------------------ MODULE CorpusStore ------------------------------
(***************************************************************************)
(* The corpus in Postgres (store/pgvector_store.py), the index runs that   *)
(* write it (pipeline/index.py, chunk ids of chunking/hierarchical.py) and *)
(* the retrieval that reads it (retrieval/hybrid.py, ranking/reranker.py). *)
(*                                                                         *)
(* An index run commits each document row, then all its chunks, then the   *)
(* entity links of each child chunk, every time in a transaction of its    *)
(* own; runs of different callers overlap and may die between two          *)
(* transactions.  Nothing is ever deleted.  A transaction is one step,     *)
(* except that of link_entities: what it links depends on the snapshot it  *)
(* started with, so its start and its commit are two steps.  A retrieval   *)
(* is three statements, with no transaction around them; one that raises   *)
(* hands its exception to the caller and changes nothing, so it need not   *)
(* be a step.                                                              *)
(*                                                                         *)
(* A document is one section: chunk 0 is the section itself (the parent),  *)
(* chunks 1 .. Children its pieces.  Text is its revision, so the row of a *)
(* chunk is the revision it holds and the organisation it belongs to;      *)
(* level, parent_id, dates and service line follow from these.  Caption    *)
(* chunks of images are children without a parent and are left out, as are *)
(* the diagnostic searches nothing in the application calls.               *)
(***************************************************************************)
EXTENDS Naturals, FiniteSets

CONSTANTS
    Docs,            \* doc_ids: hashes of file paths
    Orgs,            \* the organisations
    Runs,            \* the index runs ever started
    NoRun,
    Queries,         \* the retrievals ever started
    org_id,          \* org_id[r]: the organisation run r indexes for
    MaxRev,          \* revisions of a file: 1 .. MaxRev
    Children,        \* number of pieces of a section
    Heads,           \* possible first 120 characters of a chunk
    head,            \* head[v][i]: those of chunk i in revision v
    Entities,
    mentions,        \* mentions[v][i]: extract_entities of chunk i in revision v
    effective_date,  \* effective_date[v]: 0 for a revision without a date
    service_line,    \* service_line[d]
    Scopes,          \* what retrievals are limited to: org_id, as_of (0: any),
                     \* service_line ("any": any)
    retrieval_top_k, rerank_top_k, graph_expand_limit,
    seed_limit       \* seeds of the expansion; 8 in _apply_graph_ranker

Revs == 1..MaxRev
Lines == {service_line[d] : d \in Docs}

ASSUME CorpusAssumption ==
    /\ NoRun \notin Runs
    /\ org_id \in [Runs -> Orgs]
    /\ MaxRev \in Nat \ {0} /\ Children \in Nat
    /\ head \in [Revs -> [0..Children -> Heads]]
    /\ mentions \in [Revs -> [1..Children -> SUBSET Entities]]
    /\ effective_date \in [Revs -> Nat]
    /\ Scopes \subseteq [org_id : Orgs, as_of : Nat,
                         service_line : Lines \cup {"any"}]
    /\ {retrieval_top_k, rerank_top_k, graph_expand_limit, seed_limit}
         \subseteq Nat

VARIABLES
    disk,        \* disk[d]: the revision of the file now
    documents,   \* documents[d]: the run that wrote the row, NoRun for no row
    chunks,      \* chunks[id]: the row of a chunk, rev 0 for no row
    entities,    \* the names in the table entities
    links,       \* chunk_entities: pairs of a chunk id and an entity
    run,         \* run[r]: where index_corpus stands
    query,       \* query[q]: where retrieve stands
    last,        \* history: last[d], the run that last committed chunks of d
    raced        \* history: <<r, id, e>>, another run committed the new name e
                 \* while run r was linking id

tables == <<documents, chunks, entities, links>>
vars == <<disk, tables, run, query, last, raced>>

-----------------------------------------------------------------------------
(* Chunks *)

\* _chunk_id hashes the document, the position and the head of the text: a
\* later revision takes the same id as long as its head is the same.
_chunk_id(d, i, v) == [doc |-> d, index |-> i, head |-> head[v][i]]

ChunkIds == [doc : Docs, index : 0..Children, head : Heads]
IsChild(id) == id.index > 0

\* chunk_document: the ids of revision v of d, and of its section.
chunk_document(d, v) == {_chunk_id(d, i, v) : i \in 0..Children}
ParentId(d, v) == _chunk_id(d, 0, v)

NoRow == [rev |-> 0, org |-> NoRun]
ChunkRows == {NoRow} \cup [rev : Revs, org : Orgs]

-----------------------------------------------------------------------------
(* index_corpus *)

Live == {"documents", "chunks", "link", "linking"}
\* content[d] is the revision the run has read, 0 when it has not; todo holds
\* the documents to register, then the chunks to link; linking is the chunk
\* whose link_entities is under way, if any, and snapshot the names it sees.
RunState == [pc : {"idle", "done", "failed"} \cup Live,
             content : [Docs -> 0..MaxRev],
             todo : SUBSET (Docs \cup ChunkIds),
             linking : SUBSET ChunkIds, snapshot : SUBSET Entities]

Loaded(r) == {d \in Docs : run[r].content[d] # 0}
Produced(r) == UNION {chunk_document(d, run[r].content[d]) : d \in Loaded(r)}

\* ingest_paths, chunk_corpus and embed_chunks: a file that cannot be loaded is
\* logged and skipped; a run that loads nothing ends here and is no run.
Ingest(r, S) ==
    /\ run[r].pc = "idle" /\ S # {}
    /\ run' = [run EXCEPT ![r] =
                [@ EXCEPT !.pc = "documents", !.todo = S,
                          !.content = [d \in Docs |->
                                         IF d \in S THEN disk[d] ELSE 0]]]
    /\ UNCHANGED <<disk, tables, query, last, raced>>

\* One transaction; the row of another run is overwritten, org_id included.
upsert_document(r, d) ==
    /\ run[r].pc = "documents" /\ d \in run[r].todo
    /\ documents' = [documents EXCEPT ![d] = r]
    /\ run' = [run EXCEPT ![r].todo = @ \ {d},
                          ![r].pc = IF run[r].todo = {d} THEN "chunks" ELSE @]
    /\ UNCHANGED <<disk, chunks, entities, links, query, last, raced>>

\* ON CONFLICT (chunk_id) DO UPDATE: the table after the rows of r.
\* Mutants: DO NOTHING; sections that exist are not written again.
Upserted_KeepsOld(r) ==
    [id \in ChunkIds |->
       IF id \in Produced(r) /\ chunks[id] = NoRow
       THEN [rev |-> run[r].content[id.doc], org |-> org_id[r]] ELSE chunks[id]]
Upserted_KeepsSections(r) ==
    [id \in ChunkIds |->
       IF id \in Produced(r) /\ (IsChild(id) \/ chunks[id] = NoRow)
       THEN [rev |-> run[r].content[id.doc], org |-> org_id[r]] ELSE chunks[id]]
Upserted(r) ==
    [id \in ChunkIds |->
       IF id \in Produced(r)
       THEN [rev |-> run[r].content[id.doc], org |-> org_id[r]] ELSE chunks[id]]

\* The child chunks in whose text entities are found.
Names(r, id) == mentions[run[r].content[id.doc]][id.index]
Linkable(r) == {id \in Produced(r) : IsChild(id) /\ Names(r, id) # {}}

\* One transaction for the chunks of all documents of the run.
upsert_chunks(r) ==
    /\ run[r].pc = "chunks"
    /\ chunks' = Upserted(r)
    /\ last' = [d \in Docs |-> IF d \in Loaded(r) THEN r ELSE last[d]]
    /\ run' = [run EXCEPT ![r].pc = "link", ![r].todo = Linkable(r)]
    /\ query' = [q \in Queries |->
                   IF query[q].pc \in {"expand", "parents"}
                   THEN [query[q] EXCEPT !.disturbed = @ \cup Loaded(r)]
                   ELSE query[q]]
    /\ UNCHANGED <<disk, documents, entities, links, raced>>

\* One transaction per chunk, the pieces of a section in their order: a single
\* statement, READ COMMITTED, all parts of which see the names committed when
\* it starts.
link_entities(r, id) ==
    /\ run[r].pc = "link" /\ id \in run[r].todo
    /\ \A other \in run[r].todo : other.doc = id.doc => id.index <= other.index
    /\ run' = [run EXCEPT ![r].pc = "linking", ![r].linking = {id},
                          ![r].snapshot = entities]
    /\ UNCHANGED <<disk, tables, query, last, raced>>

\* The names whose entity_id the statement of r finds.  INSERT ... ON CONFLICT
\* DO NOTHING RETURNING gives the ones it inserts itself: it waits for another
\* run that is inserting the same name, and returns nothing when that commits.
\* UNION SELECT adds those of the snapshot.  A name in neither is dropped.
\* Mutant: without the SELECT.
Resolved_Returned(r, names) == names \ entities
Resolved(r, names) == (names \ entities) \cup (names \cap run[r].snapshot)

\* The statement commits.  Links of earlier revisions of the chunk stay.
commit_links(r, id) ==
    /\ run[r].pc = "linking" /\ id \in run[r].linking
    /\ entities' = entities \cup Names(r, id)
    /\ links' = links \cup {<<id, e>> : e \in Resolved(r, Names(r, id))}
    /\ run' = [run EXCEPT ![r].pc = "link", ![r].todo = @ \ {id},
                          ![r].linking = {}, ![r].snapshot = {}]
    /\ raced' = raced \cup
         UNION {{s} \X run[s].linking \X (Names(r, id) \ entities) :
                  s \in Runs \ {r}}
    /\ UNCHANGED <<disk, documents, chunks, query, last>>

\* The bump of the answer cache, which does not touch the store, and the end.
Finish(r) ==
    /\ run[r].pc = "link" /\ run[r].todo = {}
    /\ run' = [run EXCEPT ![r].pc = "done"]
    /\ UNCHANGED <<disk, tables, query, last, raced>>

\* A statement raises, ensure_schema or the width of a vector included, or the
\* process dies; what is committed stays.
Fail(r) ==
    /\ run[r].pc \in Live
    /\ run' = [run EXCEPT ![r].pc = "failed", ![r].linking = {},
                          ![r].snapshot = {}]
    /\ UNCHANGED <<disk, tables, query, last, raced>>

\* Somebody saves a new revision of the file.
Edit(d) ==
    /\ disk[d] < MaxRev
    /\ disk' = [disk EXCEPT ![d] = @ + 1]
    /\ UNCHANGED <<tables, run, query, last, raced>>

-----------------------------------------------------------------------------
(* retrieve *)

\* A RetrievedChunk: the row as it was read; whether the search itself found
\* it and with a cosine at or above min_absolute_cosine (0 where the code has
\* none); the revision of the section text attached to it, 0 for none; and, for
\* the properties, whether it belonged to the last publish of its document.
Hit == [id : ChunkIds, rev : Revs, org : Orgs, direct : BOOLEAN,
        cosine : BOOLEAN, excerpt : 0..MaxRev, current : BOOLEAN]

QueryState == [pc : {"idle", "expand", "parents", "rerank", "done"},
               scope : Scopes, by_id : SUBSET Hit, disturbed : SUBSET Docs]

\* _scope_predicates and the service line, of a row or a hit.  superseded_date
\* is NULL in every row: no statement of the application sets it.
InScope(d, row, s) ==
    /\ row.org = s.org_id
    /\ \/ s.as_of = 0
       \/ effective_date[row.rev] <= s.as_of
    /\ s.service_line = "any" \/ s.service_line = service_line[d]

IsCurrent(id) ==
    /\ last[id.doc] # NoRun
    /\ id \in chunk_document(id.doc, run[last[id.doc]].content[id.doc])

ToHit(id, direct, cosine) ==
    [id |-> id, rev |-> chunks[id].rev, org |-> chunks[id].org,
     direct |-> direct, cosine |-> cosine, excerpt |-> 0,
     current |-> IsCurrent(id)]

\* hybrid_search_rrf: child chunks in scope, any of them up to the limit (the
\* rankers and the approximate index decide), each with its cosine.
Searchable(s) ==
    {id \in ChunkIds : /\ IsChild(id) /\ chunks[id] # NoRow
                       /\ InScope(id.doc, chunks[id], s)}

hybrid_search_rrf(q, s) ==
    /\ query[q].pc = "idle"
    /\ \E found \in SUBSET Searchable(s) :
         /\ Cardinality(found) <= retrieval_top_k
         /\ \E relevant \in SUBSET found :
              query' = [query EXCEPT ![q] =
                [pc |-> "expand", scope |-> s, disturbed |-> {},
                 by_id |-> {ToHit(id, TRUE, id \in relevant) : id \in found}]]
    /\ UNCHANGED <<disk, tables, run, last, raced>>

\* The best n of a set, whatever its order: n of them, or all.
Best(n, S) ==
    {T \in SUBSET S : Cardinality(T) = n} \cup
    (IF Cardinality(S) <= n THEN {S} ELSE {})

\* graph_expand: child chunks that share an entity with a seed.  No scope.
Neighbours(seeds) ==
    {id \in ChunkIds :
       /\ IsChild(id) /\ id \notin seeds /\ chunks[id] # NoRow
       /\ \E e \in Entities :
            <<id, e>> \in links /\ \E s \in seeds : <<s, e>> \in links}

\* A neighbour the search did not find enters without a cosine; one it found
\* only gains score.
\* Mutant: a neighbour is as relevant as the passage it was reached from.
WithNeighbours_Relevant(hits, found) ==
    hits \cup {ToHit(id, FALSE, TRUE) : id \in found \ {h.id : h \in hits}}
WithNeighbours(hits, found) ==
    hits \cup {ToHit(id, FALSE, FALSE) : id \in found \ {h.id : h \in hits}}

\* _apply_graph_ranker.
graph_expand(q) ==
    /\ query[q].pc = "expand"
    /\ \E seeds \in Best(seed_limit, {h.id : h \in query[q].by_id}) :
       \E found \in Best(graph_expand_limit, Neighbours(seeds)) :
         query' = [query EXCEPT ![q].pc = "parents",
                                ![q].by_id = WithNeighbours(@, found)]
    /\ UNCHANGED <<disk, tables, run, last, raced>>

\* _attach_parent_context, of what is left after the cut to retrieval_top_k.
WithParent(h) == [h EXCEPT !.excerpt = chunks[ParentId(h.id.doc, h.rev)].rev]

fetch_parent_context(q) ==
    /\ query[q].pc = "parents"
    /\ \E fused \in Best(retrieval_top_k, query[q].by_id) :
         query' = [query EXCEPT ![q].pc = "rerank",
                                ![q].by_id = {WithParent(h) : h \in fused}]
    /\ UNCHANGED <<disk, tables, run, last, raced>>

\* Every provider, and the fallback to fusion order when one fails, keeps some
\* of the candidates, up to the limit.
\* Mutant: the fallback forgets to cut.
Reranked_Uncut(hits) == Best(rerank_top_k, hits) \cup {hits}
Reranked(hits) == Best(rerank_top_k, hits)

rerank(q) ==
    /\ query[q].pc = "rerank"
    /\ \E kept \in Reranked(query[q].by_id) :
         query' = [query EXCEPT ![q].pc = "done", ![q].by_id = kept]
    /\ UNCHANGED <<disk, tables, run, last, raced>>

-----------------------------------------------------------------------------
Init ==
    /\ disk = [d \in Docs |-> 1]
    /\ documents = [d \in Docs |-> NoRun]
    /\ chunks = [id \in ChunkIds |-> NoRow]
    /\ entities = {} /\ links = {}
    /\ run = [r \in Runs |-> [pc |-> "idle", todo |-> {}, linking |-> {},
                              snapshot |-> {}, content |-> [d \in Docs |-> 0]]]
    /\ query \in [Queries -> {[pc |-> "idle", scope |-> s, by_id |-> {},
                               disturbed |-> {}] : s \in Scopes}]
    /\ last = [d \in Docs |-> NoRun]
    /\ raced = {}

RunStep(r) ==
    \/ \E S \in SUBSET Docs : Ingest(r, S)
    \/ \E d \in Docs : upsert_document(r, d)
    \/ upsert_chunks(r)
    \/ \E id \in run[r].todo : link_entities(r, id)
    \/ \E id \in run[r].linking : commit_links(r, id)
    \/ Finish(r)
    \/ Fail(r)

QueryStep(q) ==
    \/ hybrid_search_rrf(q, query[q].scope)
    \/ graph_expand(q) \/ fetch_parent_context(q) \/ rerank(q)

Next ==
    \/ \E r \in Runs : RunStep(r)
    \/ \E q \in Queries : QueryStep(q)
    \/ \E d \in Docs : Edit(d)

Spec == Init /\ [][Next]_vars

-----------------------------------------------------------------------------
(* Properties *)

\* The types of the tables, the index runs and the retrievals, and that no more
\* than rerank_top_k passages are returned, the reranker's fallback included.
TypeOK ==
    /\ disk \in [Docs -> Revs]
    /\ documents \in [Docs -> Runs \cup {NoRun}]
    /\ chunks \in [ChunkIds -> ChunkRows]
    /\ entities \subseteq Entities
    /\ links \subseteq ChunkIds \X Entities
    /\ run \in [Runs -> RunState]
    /\ query \in [Queries -> QueryState]
    /\ \A q \in Queries :
         query[q].pc = "done" => Cardinality(query[q].by_id) <= rerank_top_k
    /\ last \in [Docs -> Runs \cup {NoRun}]
    /\ raced \subseteq Runs \X ChunkIds \X Entities

\* Whoever published a document last published it whole: each chunk of that
\* revision is in the table with the text and the organisation of that run,
\* however runs over the same document overlap, fail or are repeated
\* (upsert_chunks, one transaction keyed by chunk id).  So the only rows of
\* other revisions are of chunks the revision no longer has.
PublishIsWhole ==
    \A d \in Docs : last[d] # NoRun =>
        \A id \in chunk_document(d, run[last[d]].content[d]) :
            chunks[id] = [rev |-> run[last[d]].content[d],
                          org |-> org_id[last[d]]]

\* Once the run that published a document last is through, each child chunk is
\* linked to the entities of the text it holds, although other runs link other
\* texts to the same chunk ids, before or after.  Only a name that another run
\* introduced while this run's statement was under way may be missing
\* (link_entities); to index the document again adds it.
LinksComplete ==
    \A d \in Docs : last[d] # NoRun /\ run[last[d]].pc = "done" =>
        \A id \in chunk_document(d, run[last[d]].content[d]) :
            IsChild(id) =>
                \A e \in mentions[chunks[id].rev][id.index] :
                    <<id, e>> \in links \/ <<last[d], id, e>> \in raced

\* The section text put beside a passage is of the passage's revision, unless
\* the document was published again while the question was retrieving, or the
\* passage is a leftover of a replaced revision (_attach_parent_context).
ExcerptOfSameRevision ==
    \A q \in Queries : query[q].pc \in {"rerank", "done"} =>
        \A h \in query[q].by_id :
            h.current /\ h.id.doc \notin query[q].disturbed => h.excerpt = h.rev

\* The relevance floor is only ever cleared by a passage within the scope of
\* the question: a neighbour of the entity graph, which is not limited to the
\* scope, "must never satisfy the absolute relevance floor on its own"
\* (_apply_graph_ranker; the floor is that of FinanceRAGAgent.generate).
FloorClearedInScope ==
    \A q \in Queries : query[q].pc = "done" =>
        \A h \in query[q].by_id :
            h.cosine => h.direct /\ InScope(h.id.doc, h, query[q].scope)

-----------------------------------------------------------------------------
(* What the documentation says, and the code does not do *)

\* "org_id is an equality filter rather than an advisory signal [...] it is
\* never softened into a ranking hint" (_scope_predicates, pgvector_store.py:
\* 78-80).  Every passage a question is given belongs to the organisation the
\* question was asked for.
RetrievedOwnOrganisation ==
    \A q \in Queries : query[q].pc = "done" =>
        \A h \in query[q].by_id : h.org = query[q].scope.org_id
=============================================================================
