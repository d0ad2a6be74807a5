-------------------------- MODULE CorpusStore_proofs --------------------------
(***************************************************************************)
(* Proofs about CorpusStore, for any number of documents, organisations,   *)
(* revisions, overlapping index runs and retrievals.                       *)
(***************************************************************************)
EXTENDS CorpusStore, TLAPS

\* The tables and the index runs have their types.
StoreType ==
    /\ disk \in [Docs -> Revs]
    /\ documents \in [Docs -> Runs \cup {NoRun}]
    /\ chunks \in [ChunkIds -> ChunkRows]
    /\ entities \subseteq Entities
    /\ links \subseteq ChunkIds \X Entities
    /\ run \in [Runs -> RunState]
    /\ last \in [Docs -> Runs \cup {NoRun}]
    /\ raced \subseteq Runs \X ChunkIds \X Entities

\* What run r has still to do, that what it no longer has to link is linked or
\* was raced, and that the names missing in its snapshot were raced.
RunOK(r) ==
    /\ run[r].pc = "documents" => run[r].todo \subseteq Docs
    /\ run[r].pc \in {"link", "linking"} => run[r].todo \subseteq Linkable(r)
    /\ run[r].pc = "done" => run[r].todo = {}
    /\ run[r].linking \subseteq run[r].todo
    /\ run[r].pc # "linking" => run[r].linking = {}
    /\ run[r].pc \in {"link", "linking", "done"} =>
         \A id \in Linkable(r) \ run[r].todo : \A e \in Names(r, id) :
             <<id, e>> \in links \/ <<r, id, e>> \in raced
    /\ \A id \in run[r].linking : \A e \in entities \ run[r].snapshot :
           <<r, id, e>> \in raced

\* The run that published a document last has read it, and will not again.
LastBegan ==
    \A d \in Docs : last[d] # NoRun =>
        run[last[d]].pc # "idle" /\ run[last[d]].content[d] \in Revs

StoreInv ==
    /\ StoreType
    /\ \A r \in Runs : RunOK(r)
    /\ LastBegan
    /\ PublishIsWhole

\* The passage is of the revision its document was last published in.
OfLast(h) ==
    /\ last[h.id.doc] # NoRun
    /\ run[last[h.id.doc]].content[h.id.doc] = h.rev

\* Undisturbed(x, h): nothing was published that could part the passage from
\* its section since retrieval x read it.
Undisturbed(x, h) == h.current /\ h.id.doc \notin x.disturbed

\* What holds of a retrieval on its way.
QueryOK(x) ==
    /\ \A h \in x.by_id : h.cosine => h.direct /\ InScope(h.id.doc, h, x.scope)
    /\ x.pc \in {"expand", "parents"} =>
         \A h \in x.by_id : Undisturbed(x, h) => OfLast(h)
    /\ x.pc \in {"rerank", "done"} =>
         \A h \in x.by_id : Undisturbed(x, h) => h.excerpt = h.rev
    /\ x.pc = "done" => Cardinality(x.by_id) <= rerank_top_k

\* The inductive invariant.
IInv ==
    /\ StoreInv
    /\ query \in [Queries -> QueryState]
    /\ \A q \in Queries : QueryOK(query[q])

-----------------------------------------------------------------------------
(* Chunk ids *)

\* The ids of a document's revision are ids, and name the document.
LEMMA ChunkIdType ==
    ASSUME NEW d \in Docs, NEW v \in Revs
    PROVE  /\ chunk_document(d, v) \subseteq ChunkIds
           /\ \A id \in chunk_document(d, v) : id.doc = d
           /\ ParentId(d, v) \in chunk_document(d, v)
<1>1. ASSUME NEW i \in 0..Children
      PROVE  /\ _chunk_id(d, i, v) \in ChunkIds
             /\ _chunk_id(d, i, v).doc = d
  BY <1>1, CorpusAssumption DEF _chunk_id, ChunkIds
<1>2. 0 \in 0..Children
  BY CorpusAssumption
<1> QED
  BY <1>1, <1>2 DEF chunk_document, ParentId

\* What a run produces are ids of documents it has read.
LEMMA ProducedType ==
    ASSUME StoreType, NEW r \in Runs
    PROVE  /\ \A d \in Loaded(r) : d \in Docs /\ run[r].content[d] \in Revs
           /\ \A id \in Produced(r) :
                /\ id \in ChunkIds /\ id.doc \in Loaded(r)
                /\ id \in chunk_document(id.doc, run[r].content[id.doc])
           /\ \A d \in Loaded(r) :
                chunk_document(d, run[r].content[d]) \subseteq Produced(r)
<1>1. run[r].content \in [Docs -> 0..MaxRev]
  BY DEF StoreType, RunState
<1>2. \A d \in Loaded(r) : d \in Docs /\ run[r].content[d] \in Revs
  BY <1>1, CorpusAssumption DEF Loaded, Revs
<1>3. ASSUME NEW d \in Loaded(r), NEW id \in chunk_document(d, run[r].content[d])
      PROVE  id \in ChunkIds /\ id.doc = d
  BY <1>2, <1>3, ChunkIdType
<1> QED
  BY <1>2, <1>3 DEF Produced

\* A run links child chunks it has produced.
LEMMA LinkableType ==
    ASSUME StoreType, NEW r \in Runs
    PROVE  Linkable(r) \subseteq ChunkIds /\ Linkable(r) \subseteq Produced(r)
  BY ProducedType DEF Linkable

-----------------------------------------------------------------------------
(* Index runs *)

\* A step of run r that reads nothing anew and publishes nothing.
LEMMA OneRun ==
    ASSUME StoreInv, NEW r \in Runs, NEW x \in RunState,
           run' = [run EXCEPT ![r] = x],
           x.content = run[r].content, x.pc # "idle",
           UNCHANGED <<disk, chunks, last>>,
           documents' \in [Docs -> Runs \cup {NoRun}],
           entities' \subseteq Entities,
           links \subseteq links', links' \subseteq ChunkIds \X Entities,
           raced \subseteq raced', raced' \subseteq Runs \X ChunkIds \X Entities,
           \A s \in Runs \ {r} : \A id \in run[s].linking :
               \A e \in entities' \ entities : <<s, id, e>> \in raced',
           RunOK(r)'
    PROVE  StoreInv'
<1>1. \A s \in Runs : run'[s].content = run[s].content
  BY DEF StoreInv, StoreType
<1>2. StoreType'
  BY DEF StoreInv, StoreType
<1>3. ASSUME NEW s \in Runs, s # r
      PROVE  RunOK(s)'
  <2>1. run'[s] = run[s]
    BY <1>3 DEF StoreInv, StoreType
  <2>2. Linkable(s)' = Linkable(s) /\ \A id : Names(s, id)' = Names(s, id)
    BY <2>1 DEF Linkable, Produced, Loaded, Names
  <2>3. RunOK(s)
    BY DEF StoreInv
  <2>4. \A id \in run[s].linking : \A e \in entities' \ run[s].snapshot :
            <<s, id, e>> \in raced'
    BY <1>3, <2>3 DEF RunOK
  <2> QED
    BY <2>1, <2>2, <2>3, <2>4 DEF RunOK
<1>4. LastBegan'
  BY <1>1 DEF StoreInv, StoreType, LastBegan
<1>5. PublishIsWhole'
  BY <1>1 DEF StoreInv, StoreType, PublishIsWhole
<1> QED
  BY <1>2, <1>3, <1>4, <1>5 DEF StoreInv

\* The same of a step that links nothing.
LEMMA OneRunQuiet ==
    ASSUME StoreInv, NEW r \in Runs, NEW x \in RunState,
           run' = [run EXCEPT ![r] = x],
           x.content = run[r].content, x.pc # "idle",
           UNCHANGED <<disk, chunks, entities, links, last, raced>>,
           documents' \in [Docs -> Runs \cup {NoRun}],
           RunOK(r)'
    PROVE  StoreInv'
<1>1. /\ entities' \subseteq Entities
      /\ links \subseteq links' /\ links' \subseteq ChunkIds \X Entities
      /\ raced \subseteq raced' /\ raced' \subseteq Runs \X ChunkIds \X Entities
      /\ entities' \ entities = {}
  BY DEF StoreInv, StoreType
<1> QED
  BY <1>1, OneRun

\* A run that begins is not yet the last to publish anything.
LEMMA IngestOK ==
    ASSUME StoreInv, NEW r \in Runs, NEW S \in SUBSET Docs, Ingest(r, S)
    PROVE  StoreInv'
<1> DEFINE x == [run[r] EXCEPT !.pc = "documents", !.todo = S,
                   !.content = [d \in Docs |-> IF d \in S THEN disk[d] ELSE 0]]
<1>0. run[r] \in RunState /\ run[r].pc = "idle" /\ run[r].linking = {}
  BY DEF StoreInv, StoreType, RunOK, Ingest
<1>1. x \in RunState /\ x.pc = "documents" /\ x.todo = S /\ x.linking = {}
  <2> DEFINE c == [d \in Docs |-> IF d \in S THEN disk[d] ELSE 0]
  <2>1. c \in [Docs -> 0..MaxRev]
    BY CorpusAssumption DEF StoreInv, StoreType, Revs
  <2> HIDE DEF c
  <2>2. [run[r] EXCEPT !.pc = "documents", !.todo = S, !.content = c] \in RunState
    BY <1>0, <2>1 DEF RunState, Live
  <2> QED
    BY <1>0, <2>2 DEF RunState, c
<1>2. run' = [run EXCEPT ![r] = x]
  BY DEF Ingest, StoreInv, StoreType
<1> HIDE DEF x
<1>3. UNCHANGED <<disk, documents, chunks, entities, links, last, raced>>
  BY DEF Ingest, tables
<1>4. \A s \in Runs : s # r => run'[s] = run[s]
  BY <1>2 DEF StoreInv, StoreType
<1>5. run'[r] = x
  BY <1>2 DEF StoreInv, StoreType
<1>6. StoreType'
  BY <1>1, <1>2, <1>3 DEF StoreInv, StoreType
<1>7. ASSUME NEW s \in Runs
      PROVE  RunOK(s)'
  <2>1. CASE s = r
    BY <1>1, <1>5, <2>1 DEF RunOK
  <2>2. CASE s # r
    <3>1. Linkable(s)' = Linkable(s) /\ \A id : Names(s, id)' = Names(s, id)
      BY <1>4, <2>2 DEF Linkable, Produced, Loaded, Names
    <3> QED
      BY <1>3, <1>4, <2>2, <3>1 DEF StoreInv, RunOK
  <2> QED
    BY <2>1, <2>2
<1>8. \A d \in Docs : last[d] # NoRun => last[d] \in Runs /\ last[d] # r
  BY <1>0 DEF StoreInv, StoreType, LastBegan
<1>9. LastBegan'
  BY <1>3, <1>4, <1>8 DEF StoreInv, LastBegan
<1>10. PublishIsWhole'
  BY <1>3, <1>4, <1>8 DEF StoreInv, PublishIsWhole
<1> QED
  BY <1>6, <1>7, <1>9, <1>10 DEF StoreInv

\* Registering a document touches no chunk and no link.
LEMMA UpsertDocumentOK ==
    ASSUME StoreInv, NEW r \in Runs, NEW d \in Docs, upsert_document(r, d)
    PROVE  StoreInv'
<1> DEFINE x == [run[r] EXCEPT !.todo = @ \ {d},
                               !.pc = IF run[r].todo = {d} THEN "chunks" ELSE @]
<1>1. run[r] \in RunState /\ run[r].pc = "documents" /\ run[r].todo \subseteq Docs
      /\ run[r].linking = {}
  BY DEF StoreInv, StoreType, RunOK, upsert_document
<1>2. x \in RunState /\ x.content = run[r].content
      /\ x.pc \in {"documents", "chunks"} /\ x.todo \subseteq Docs
      /\ x.linking = {}
  BY <1>1 DEF RunState, Live
<1>3. run' = [run EXCEPT ![r] = x]
  BY DEF StoreInv, StoreType, upsert_document
<1>4. run'[r] = x
  BY <1>3 DEF StoreInv, StoreType
<1>5. RunOK(r)'
  BY <1>2, <1>4 DEF RunOK
<1>6. /\ UNCHANGED <<disk, chunks, entities, links, last, raced>>
      /\ documents' \in [Docs -> Runs \cup {NoRun}]
  BY DEF upsert_document, StoreInv, StoreType
<1> HIDE DEF x
<1> QED
  BY <1>2, <1>3, <1>5, <1>6, OneRunQuiet

\* Publishing makes r the last to publish what it has read, whole, and takes
\* nothing from the documents it has not read.
LEMMA UpsertChunksOK ==
    ASSUME StoreInv, NEW r \in Runs, upsert_chunks(r)
    PROVE  StoreInv'
<1> DEFINE x == [run[r] EXCEPT !.pc = "link", !.todo = Linkable(r)]
<1>1. StoreType /\ run[r] \in RunState /\ run[r].linking = {}
  BY DEF StoreInv, StoreType, RunOK, upsert_chunks
<1>2. x \in RunState /\ x.content = run[r].content /\ x.pc = "link"
      /\ x.todo = Linkable(r) /\ x.linking = {}
  BY <1>1, LinkableType DEF RunState, Live
<1>3. run' = [run EXCEPT ![r] = x]
      /\ UNCHANGED <<disk, documents, entities, links, raced>>
  BY DEF upsert_chunks
<1>4. /\ \A s \in Runs : s # r => run'[s] = run[s]
      /\ run'[r] = x
  BY <1>1, <1>3 DEF StoreType
<1> HIDE DEF x
<1>5. \A s \in Runs : run'[s].content = run[s].content
  BY <1>2, <1>4
<1>6. chunks' = Upserted(r)
      /\ last' = [d \in Docs |-> IF d \in Loaded(r) THEN r ELSE last[d]]
  BY DEF upsert_chunks
<1>7. chunks' \in [ChunkIds -> ChunkRows]
  <2>1. ASSUME NEW id \in Produced(r)
        PROVE  [rev |-> run[r].content[id.doc], org |-> org_id[r]] \in ChunkRows
    BY <1>1, <2>1, ProducedType, CorpusAssumption DEF ChunkRows
  <2> QED
    BY <1>1, <1>6, <2>1 DEF StoreType, Upserted
<1>8. StoreType'
  BY <1>1, <1>2, <1>3, <1>6, <1>7 DEF StoreType
<1>9. ASSUME NEW s \in Runs
      PROVE  RunOK(s)'
  <2>1. Linkable(s)' = Linkable(s) /\ \A id : Names(s, id)' = Names(s, id)
    BY <1>5 DEF Linkable, Produced, Loaded, Names
  <2>2. CASE s = r
    BY <1>2, <1>4, <2>1, <2>2 DEF RunOK
  <2>3. CASE s # r
    BY <1>3, <1>4, <2>1, <2>3 DEF StoreInv, RunOK
  <2> QED
    BY <2>2, <2>3
<1>10. LastBegan'
  BY <1>1, <1>2, <1>4, <1>5, <1>6, ProducedType DEF StoreInv, LastBegan, StoreType
<1>11. ASSUME NEW d \in Docs, last'[d] # NoRun,
              NEW id \in chunk_document(d, run'[last'[d]].content[d])
       PROVE  chunks'[id] = [rev |-> run'[last'[d]].content[d],
                             org |-> org_id[last'[d]]]
  <2>1. CASE d \in Loaded(r)
    <3>1. last'[d] = r /\ run'[r].content = run[r].content
      BY <1>5, <1>6, <2>1
    <3>2. id \in Produced(r) /\ id \in ChunkIds
      BY <1>1, <1>11, <2>1, <3>1, ProducedType
    <3>3. id.doc = d
      BY <1>1, <1>11, <2>1, <3>1, ProducedType, ChunkIdType
    <3> QED
      BY <1>6, <3>1, <3>2, <3>3 DEF Upserted
  <2>2. CASE d \notin Loaded(r)
    <3>1. last'[d] = last[d] /\ last[d] \in Runs
      BY <1>1, <1>6, <1>11, <2>2 DEF StoreType
    <3>2. chunks[id] = [rev |-> run[last[d]].content[d], org |-> org_id[last[d]]]
      BY <1>5, <1>11, <3>1 DEF StoreInv, PublishIsWhole
    <3>3. id.doc = d
      BY <1>11 DEF chunk_document, _chunk_id
    <3>4. id \notin Produced(r)
      BY <1>1, <2>2, <3>3, ProducedType
    <3>5. id \in ChunkIds
      <4>1. run[last[d]].content[d] \in Revs
        BY <1>11, <3>1 DEF StoreInv, LastBegan
      <4> QED
        BY <1>5, <1>11, <3>1, <4>1, ChunkIdType
    <3> QED
      BY <1>5, <1>6, <3>1, <3>2, <3>4, <3>5 DEF Upserted
  <2> QED
    BY <2>1, <2>2
<1>12. PublishIsWhole'
  BY <1>11 DEF PublishIsWhole
<1> QED
  BY <1>8, <1>9, <1>10, <1>12 DEF StoreInv

\* What is in todo is a chunk with names of its own.
LEMMA TodoType ==
    ASSUME StoreInv, NEW r \in Runs, NEW id \in Linkable(r)
    PROVE  id \in ChunkIds /\ Names(r, id) \subseteq Entities
<1>1. StoreType
  BY DEF StoreInv
<1>2. id \in ChunkIds /\ id \in Produced(r) /\ IsChild(id)
  BY <1>1, LinkableType DEF Linkable
<1>3. id.index \in 1..Children /\ run[r].content[id.doc] \in Revs
  BY <1>1, <1>2, ProducedType, CorpusAssumption DEF ChunkIds, IsChild
<1> QED
  BY <1>2, <1>3, CorpusAssumption DEF Names

\* A statement that starts misses no name.
LEMMA LinkEntitiesOK ==
    ASSUME StoreInv, NEW r \in Runs, NEW id \in run[r].todo, link_entities(r, id)
    PROVE  StoreInv'
<1> DEFINE x == [run[r] EXCEPT !.pc = "linking", !.linking = {id},
                               !.snapshot = entities]
<1>1. StoreType /\ run[r] \in RunState /\ run[r].pc = "link"
      /\ run[r].todo \subseteq Linkable(r) /\ RunOK(r)
  BY DEF StoreInv, StoreType, RunOK, link_entities
<1>2. id \in ChunkIds
  BY <1>1, TodoType
<1>3. x \in RunState /\ x.content = run[r].content /\ x.pc = "linking"
      /\ x.todo = run[r].todo /\ x.linking = {id} /\ x.snapshot = entities
  BY <1>1, <1>2 DEF RunState, Live, StoreType
<1>4. run' = [run EXCEPT ![r] = x]
      /\ UNCHANGED <<disk, documents, chunks, entities, links, last, raced>>
  BY <1>1 DEF link_entities, tables, StoreType
<1>5. run'[r] = x
  BY <1>1, <1>4 DEF StoreType
<1> HIDE DEF x
<1>6. Linkable(r)' = Linkable(r) /\ \A i : Names(r, i)' = Names(r, i)
  BY <1>3, <1>5 DEF Linkable, Produced, Loaded, Names
<1>7. RunOK(r)'
  BY <1>1, <1>3, <1>4, <1>5, <1>6 DEF RunOK
<1> QED
  BY <1>1, <1>3, <1>4, <1>7, OneRunQuiet DEF StoreType

\* A statement that commits links the names it does not lose to a race, and
\* what it introduces is raced wherever another statement is under way.
LEMMA CommitLinksOK ==
    ASSUME StoreInv, NEW r \in Runs, NEW id \in run[r].linking, commit_links(r, id)
    PROVE  StoreInv'
<1> DEFINE x == [run[r] EXCEPT !.pc = "link", !.todo = @ \ {id},
                               !.linking = {}, !.snapshot = {}]
           new == Names(r, id) \ entities
           races == UNION {{s} \X run[s].linking \X new : s \in Runs \ {r}}
<1>1. StoreType /\ run[r] \in RunState /\ run[r].pc = "linking"
      /\ run[r].todo \subseteq Linkable(r) /\ id \in run[r].todo /\ RunOK(r)
  BY DEF StoreInv, StoreType, RunOK, commit_links
<1>2. x \in RunState /\ x.content = run[r].content /\ x.pc = "link"
      /\ x.todo = run[r].todo \ {id} /\ x.linking = {}
  BY <1>1 DEF RunState, Live
<1>3. /\ run' = [run EXCEPT ![r] = x]
      /\ entities' = entities \cup Names(r, id)
      /\ links' = links \cup {<<id, e>> : e \in Resolved(r, Names(r, id))}
      /\ raced' = raced \cup races
      /\ UNCHANGED <<disk, documents, chunks, last>>
  BY <1>1 DEF commit_links, StoreType
<1>4. run'[r] = x
  BY <1>1, <1>3 DEF StoreType
<1> HIDE DEF x
<1>5. id \in ChunkIds /\ Names(r, id) \subseteq Entities
  BY <1>1, TodoType
<1>6. /\ entities' \subseteq Entities
      /\ links \subseteq links' /\ links' \subseteq ChunkIds \X Entities
  BY <1>1, <1>3, <1>5 DEF StoreType, Resolved
<1>7. \A s \in Runs \ {r} : \A i \in run[s].linking : \A e \in new :
          <<s, i, e>> \in races
  OBVIOUS
<1>8. races \subseteq Runs \X ChunkIds \X Entities
  <2>1. \A s \in Runs : run[s].linking \subseteq ChunkIds
    BY <1>1 DEF StoreType, RunState
  <2> QED
    BY <1>5, <2>1
<1> HIDE DEF races
<1>9. raced \subseteq raced' /\ raced' \subseteq Runs \X ChunkIds \X Entities
  BY <1>1, <1>3, <1>8 DEF StoreType
<1>10. \A s \in Runs \ {r} : \A i \in run[s].linking :
           \A e \in entities' \ entities : <<s, i, e>> \in raced'
  BY <1>3, <1>7
<1>11. Linkable(r)' = Linkable(r) /\ \A i : Names(r, i)' = Names(r, i)
  BY <1>2, <1>4 DEF Linkable, Produced, Loaded, Names
<1>12. ASSUME NEW i \in Linkable(r) \ x.todo, NEW e \in Names(r, i)
       PROVE  <<i, e>> \in links' \/ <<r, i, e>> \in raced'
  <2>1. CASE i = id
    <3>1. CASE e \in Resolved(r, Names(r, id))
      BY <1>3, <2>1, <3>1
    <3>2. CASE e \notin Resolved(r, Names(r, id))
      <4>1. e \in entities \ run[r].snapshot
        BY <1>12, <2>1, <3>2 DEF Resolved
      <4> QED
        BY <1>1, <1>9, <2>1, <4>1 DEF RunOK
    <3> QED
      BY <3>1, <3>2
  <2>2. CASE i # id
    BY <1>1, <1>2, <1>6, <1>9, <1>12, <2>2 DEF RunOK
  <2> QED
    BY <2>1, <2>2
<1>13. RunOK(r)'
  BY <1>1, <1>2, <1>4, <1>11, <1>12 DEF RunOK
<1>14. documents' \in [Docs -> Runs \cup {NoRun}]
  BY <1>1, <1>3 DEF StoreType
<1> QED
  BY <1>2, <1>3, <1>6, <1>9, <1>10, <1>13, <1>14, OneRun

\* A run is through only when nothing is left to link.
LEMMA FinishOK ==
    ASSUME StoreInv, NEW r \in Runs, Finish(r)
    PROVE  StoreInv'
<1> DEFINE x == [run[r] EXCEPT !.pc = "done"]
<1>1. StoreType /\ run[r] \in RunState /\ run[r].pc = "link" /\ run[r].todo = {}
      /\ run[r].linking = {} /\ RunOK(r)
  BY DEF StoreInv, StoreType, RunOK, Finish
<1>2. x \in RunState /\ x.content = run[r].content /\ x.pc = "done" /\ x.todo = {}
      /\ x.linking = {}
  BY <1>1 DEF RunState
<1>3. run' = [run EXCEPT ![r] = x]
      /\ UNCHANGED <<disk, documents, chunks, entities, links, last, raced>>
  BY DEF Finish, tables
<1>4. run'[r] = x
  BY <1>1, <1>3 DEF StoreType
<1> HIDE DEF x
<1>5. Linkable(r)' = Linkable(r) /\ \A i : Names(r, i)' = Names(r, i)
  BY <1>2, <1>4 DEF Linkable, Produced, Loaded, Names
<1>6. RunOK(r)'
  BY <1>1, <1>2, <1>3, <1>4, <1>5 DEF RunOK
<1> QED
  BY <1>1, <1>2, <1>3, <1>6, OneRunQuiet DEF StoreType

\* A run that dies leaves what it has committed.
LEMMA FailOK ==
    ASSUME StoreInv, NEW r \in Runs, Fail(r)
    PROVE  StoreInv'
<1> DEFINE x == [run[r] EXCEPT !.pc = "failed", !.linking = {}, !.snapshot = {}]
<1>1. StoreType /\ run[r] \in RunState
  BY DEF StoreInv, StoreType
<1>2. x \in RunState /\ x.content = run[r].content /\ x.pc = "failed"
      /\ x.linking = {}
  BY <1>1 DEF RunState
<1>3. run' = [run EXCEPT ![r] = x]
      /\ UNCHANGED <<disk, documents, chunks, entities, links, last, raced>>
  BY <1>1 DEF Fail, tables, StoreType
<1>4. run'[r] = x
  BY <1>1, <1>3 DEF StoreType
<1> HIDE DEF x
<1>5. RunOK(r)'
  BY <1>2, <1>4 DEF RunOK
<1> QED
  BY <1>1, <1>2, <1>3, <1>5, OneRunQuiet DEF StoreType

\* A new revision of a file is not in the store before a run reads it.
LEMMA EditOK ==
    ASSUME StoreInv, NEW d \in Docs, Edit(d)
    PROVE  StoreInv'
<1>1. disk' \in [Docs -> Revs]
  BY CorpusAssumption DEF StoreInv, StoreType, Edit, Revs
<1>2. UNCHANGED <<documents, chunks, entities, links, run, last, raced>>
  BY DEF Edit, tables
<1>3. StoreType'
  BY <1>1, <1>2 DEF StoreInv, StoreType
<1>4. \A r \in Runs : RunOK(r)'
  BY <1>2 DEF StoreInv, RunOK, Linkable, Produced, Loaded, Names
<1>5. LastBegan' /\ PublishIsWhole'
  BY <1>2 DEF StoreInv, LastBegan, PublishIsWhole
<1> QED
  BY <1>3, <1>4, <1>5 DEF StoreInv

\* A step that leaves the store and its runs alone.
LEMMA StoreSame ==
    ASSUME StoreInv, UNCHANGED <<disk, tables, run, last, raced>>
    PROVE  StoreInv'
<1>1. StoreType'
  BY DEF StoreInv, StoreType, tables
<1>2. \A r \in Runs : RunOK(r)'
  BY DEF StoreInv, RunOK, Linkable, Produced, Loaded, Names, tables
<1>3. LastBegan' /\ PublishIsWhole'
  BY DEF tables, StoreInv, LastBegan, PublishIsWhole
<1> QED
  BY <1>1, <1>2, <1>3 DEF StoreInv

-----------------------------------------------------------------------------
(* Retrievals *)

\* A cut takes some of a set, up to its limit.
LEMMA BestOK ==
    ASSUME NEW n \in Nat, NEW S, NEW T \in Best(n, S)
    PROVE  T \subseteq S /\ Cardinality(T) <= n
  BY DEF Best

\* A row that is read becomes a hit with the text, the organisation and, when
\* it is current, the revision of the last publish.
LEMMA ToHitOK ==
    ASSUME StoreInv, NEW id \in ChunkIds, chunks[id] # NoRow,
           NEW b \in BOOLEAN, NEW c \in BOOLEAN
    PROVE  LET h == ToHit(id, b, c)
           IN  /\ h \in Hit
               /\ h.id = id /\ h.direct = b /\ h.cosine = c
               /\ h.rev = chunks[id].rev /\ h.org = chunks[id].org
               /\ h.current => OfLast(h)
<1> DEFINE h == ToHit(id, b, c)
<1>1. chunks[id] \in [rev : Revs, org : Orgs]
  BY DEF StoreInv, StoreType, ChunkRows
<1>2. IsCurrent(id) \in BOOLEAN
  BY DEF IsCurrent
<1>3. 0 \in 0..MaxRev
  BY CorpusAssumption
<1>4. h \in Hit
  BY <1>1, <1>2, <1>3 DEF ToHit, Hit
<1>5. /\ h.id = id /\ h.direct = b /\ h.cosine = c
      /\ h.rev = chunks[id].rev /\ h.org = chunks[id].org
      /\ h.current = IsCurrent(id)
  BY DEF ToHit
<1>6. ASSUME IsCurrent(id)
      PROVE  last[id.doc] # NoRun /\ run[last[id.doc]].content[id.doc] = chunks[id].rev
  <2>1. id.doc \in Docs /\ last[id.doc] # NoRun
        /\ id \in chunk_document(id.doc, run[last[id.doc]].content[id.doc])
    BY <1>6 DEF IsCurrent, ChunkIds
  <2>2. chunks[id] = [rev |-> run[last[id.doc]].content[id.doc],
                      org |-> org_id[last[id.doc]]]
    BY <2>1 DEF StoreInv, PublishIsWhole
  <2> QED
    BY <2>1, <2>2
<1> HIDE DEF h
<1>7. h.current => OfLast(h)
  BY <1>5, <1>6 DEF OfLast
<1> QED
  BY <1>4, <1>5, <1>7 DEF h

\* A step that leaves the retrievals and what was published last alone.
LEMMA QueriesSame ==
    ASSUME IInv, query' = query, last' = last,
           \A r \in Runs : run[r].pc # "idle" => run'[r].content = run[r].content
    PROVE  query' \in [Queries -> QueryState] /\ \A q \in Queries : QueryOK(query[q])'
<1>1. ASSUME NEW q \in Queries, NEW h \in query[q].by_id, OfLast(h)
      PROVE  OfLast(h)'
  <2>1. h.id.doc \in Docs
    BY DEF IInv, QueryState, Hit, ChunkIds
  <2>2. last[h.id.doc] \in Runs /\ run[last[h.id.doc]].pc # "idle"
    BY <1>1, <2>1 DEF IInv, StoreInv, StoreType, LastBegan, OfLast
  <2> QED
    BY <1>1, <2>2 DEF OfLast
<1>2. ASSUME NEW q \in Queries
      PROVE  QueryOK(query[q])'
  <2>1. QueryOK(query[q])
    BY DEF IInv
  <2> QED
    BY <1>1, <2>1 DEF QueryOK, Undisturbed, InScope
<1> QED
  BY <1>2 DEF IInv

\* A step of one retrieval, on the store as it is.
LEMMA OneQuery ==
    ASSUME IInv, NEW q \in Queries, NEW x \in QueryState, QueryOK(x),
           query' = [query EXCEPT ![q] = x],
           UNCHANGED <<disk, tables, run, last, raced>>
    PROVE  IInv'
<1>1. StoreInv'
  BY StoreSame DEF IInv
<1>2. query' \in [Queries -> QueryState]
  BY DEF IInv
<1>3. ASSUME NEW p \in Queries
      PROVE  QueryOK(query[p])'
  <2>1. QueryOK(query'[p])
    BY DEF IInv
  <2>2. QueryOK(query[p])' <=> QueryOK(query'[p])
    BY DEF QueryOK, OfLast, Undisturbed, InScope
  <2> QED
    BY <2>1, <2>2
<1> QED
  BY <1>1, <1>2, <1>3 DEF IInv

\* What the search finds is in scope, and of the last publish when current.
LEMMA SearchOK ==
    ASSUME IInv, NEW q \in Queries, hybrid_search_rrf(q, query[q].scope)
    PROVE  IInv'
<1> DEFINE s == query[q].scope
<1>1. StoreInv /\ s \in Scopes
  BY DEF IInv, QueryState
<1> HIDE DEF s
<1>2. PICK found \in SUBSET Searchable(s), relevant \in SUBSET Searchable(s) :
         query' = [query EXCEPT ![q] =
           [pc |-> "expand", scope |-> s, disturbed |-> {},
            by_id |-> {ToHit(id, TRUE, id \in relevant) : id \in found}]]
  BY DEF hybrid_search_rrf, s
<1> DEFINE hits == {ToHit(id, TRUE, id \in relevant) : id \in found}
           x == [pc |-> "expand", scope |-> s, disturbed |-> {}, by_id |-> hits]
<1>3. ASSUME NEW id \in found
      PROVE  LET h == ToHit(id, TRUE, id \in relevant)
             IN  /\ h \in Hit /\ h.direct
                 /\ InScope(h.id.doc, h, s)
                 /\ h.current => OfLast(h)
  <2>1. id \in ChunkIds /\ chunks[id] # NoRow /\ InScope(id.doc, chunks[id], s)
    BY <1>3 DEF Searchable
  <2>2. (id \in relevant) \in BOOLEAN
    OBVIOUS
  <2> DEFINE h == ToHit(id, TRUE, id \in relevant)
  <2>3. /\ h \in Hit /\ h.id = id /\ h.direct = TRUE
        /\ h.rev = chunks[id].rev /\ h.org = chunks[id].org
        /\ h.current => OfLast(h)
    BY <1>1, <2>1, <2>2, ToHitOK
  <2> HIDE DEF h
  <2>4. InScope(h.id.doc, h, s)
    BY <2>1, <2>3 DEF InScope
  <2> QED
    BY <2>3, <2>4 DEF h
<1>4. \A h \in hits : /\ h \in Hit /\ h.direct /\ InScope(h.id.doc, h, s)
                      /\ h.current => OfLast(h)
  BY <1>3
<1> HIDE DEF hits
<1>5. x \in QueryState
  BY <1>1, <1>4 DEF QueryState
<1>6. QueryOK(x)
  BY <1>4 DEF QueryOK, Undisturbed
<1>7. query' = [query EXCEPT ![q] = x]
  BY <1>2 DEF hits
<1>8. UNCHANGED <<disk, tables, run, last, raced>>
  BY DEF hybrid_search_rrf
<1> HIDE DEF x
<1> QED
  BY <1>5, <1>6, <1>7, <1>8, OneQuery

\* Neighbours join without a cosine, and as they stand in the table.
LEMMA ExpandOK ==
    ASSUME IInv, NEW q \in Queries, graph_expand(q)
    PROVE  IInv'
<1>1. StoreInv /\ query[q] \in QueryState /\ QueryOK(query[q])
      /\ query[q].pc = "expand"
  BY DEF IInv, graph_expand
<1>2. PICK seeds, found :
         /\ found \in Best(graph_expand_limit, Neighbours(seeds))
         /\ query' = [query EXCEPT ![q] =
              [query[q] EXCEPT !.pc = "parents",
                               !.by_id = WithNeighbours(query[q].by_id, found)]]
  BY DEF graph_expand, IInv
<1> DEFINE new == {ToHit(id, FALSE, FALSE) :
                     id \in found \ {h.id : h \in query[q].by_id}}
           hits == query[q].by_id \cup new
           x == [query[q] EXCEPT !.pc = "parents", !.by_id = hits]
<1>3. \A h \in new : h \in Hit /\ ~h.cosine /\ (h.current => OfLast(h))
  <2>1. found \subseteq Neighbours(seeds)
    BY <1>2, BestOK, CorpusAssumption
  <2>2. \A id \in found : id \in ChunkIds /\ chunks[id] # NoRow
    BY <2>1 DEF Neighbours
  <2>3. ASSUME NEW id \in found
        PROVE  LET h == ToHit(id, FALSE, FALSE)
               IN  h \in Hit /\ ~h.cosine /\ (h.current => OfLast(h))
    BY <1>1, <2>2, ToHitOK
  <2> QED
    BY <2>3
<1> HIDE DEF new
<1>4. \A h \in hits : h \in Hit
  BY <1>1, <1>3 DEF QueryState
<1>5. \A h \in hits : h \in new \/ h \in query[q].by_id
  OBVIOUS
<1> HIDE DEF hits
<1>6. x \in QueryState /\ x.pc = "parents" /\ x.by_id = hits
      /\ x.scope = query[q].scope /\ x.disturbed = query[q].disturbed
  BY <1>1, <1>4 DEF QueryState
<1>7. query' = [query EXCEPT ![q] = x]
  BY <1>2 DEF hits, new, WithNeighbours
<1> HIDE DEF x
<1>8. QueryOK(x)
  BY <1>1, <1>3, <1>5, <1>6 DEF QueryOK, Undisturbed
<1>9. UNCHANGED <<disk, tables, run, last, raced>>
  BY DEF graph_expand
<1> QED
  BY <1>6, <1>7, <1>8, <1>9, OneQuery

\* The section of an undisturbed passage is still that of its revision.
LEMMA ParentsOK ==
    ASSUME IInv, NEW q \in Queries, fetch_parent_context(q)
    PROVE  IInv'
<1>1. StoreInv /\ query[q] \in QueryState /\ QueryOK(query[q])
      /\ query[q].pc = "parents"
  BY DEF IInv, fetch_parent_context
<1>2. PICK fused \in Best(retrieval_top_k, query[q].by_id) :
         query' = [query EXCEPT ![q] =
           [query[q] EXCEPT !.pc = "rerank",
                            !.by_id = {WithParent(h) : h \in fused}]]
  BY DEF fetch_parent_context, IInv
<1> DEFINE hits == {WithParent(h) : h \in fused}
           x == [query[q] EXCEPT !.pc = "rerank", !.by_id = hits]
<1>3. fused \subseteq query[q].by_id
  BY <1>2, BestOK, CorpusAssumption
<1>4. ASSUME NEW h \in fused
      PROVE  LET g == WithParent(h)
             IN  /\ g \in Hit
                 /\ g.cosine => g.direct /\ InScope(g.id.doc, g, query[q].scope)
                 /\ Undisturbed(query[q], g) => g.excerpt = g.rev
  <2>1. h \in Hit /\ h \in query[q].by_id
    BY <1>1, <1>3, <1>4 DEF QueryState
  <2>2. h.id.doc \in Docs /\ h.rev \in Revs
    BY <2>1 DEF Hit, ChunkIds
  <2>3. ParentId(h.id.doc, h.rev) \in ChunkIds
        /\ ParentId(h.id.doc, h.rev) \in chunk_document(h.id.doc, h.rev)
    BY <2>2, ChunkIdType
  <2> DEFINE v == chunks[ParentId(h.id.doc, h.rev)].rev
             g == [h EXCEPT !.excerpt = v]
  <2>4. v \in 0..MaxRev
    BY <1>1, <2>3, CorpusAssumption DEF StoreInv, StoreType, ChunkRows, NoRow, Revs
  <2>5. ASSUME OfLast(h)
        PROVE  v = h.rev
    <3>1. /\ last[h.id.doc] # NoRun
          /\ run[last[h.id.doc]].content[h.id.doc] = h.rev
      BY <2>5 DEF OfLast
    <3>2. \A id \in chunk_document(h.id.doc, h.rev) :
            chunks[id] = [rev |-> h.rev, org |-> org_id[last[h.id.doc]]]
      BY <1>1, <2>2, <3>1 DEF StoreInv, PublishIsWhole
    <3>3. chunks[ParentId(h.id.doc, h.rev)]
            = [rev |-> h.rev, org |-> org_id[last[h.id.doc]]]
      BY <2>3, <3>2
    <3> QED
      BY <3>3
  <2> HIDE DEF v
  <2>6. /\ g \in Hit /\ g.excerpt = v /\ g.id = h.id /\ g.rev = h.rev
        /\ g.org = h.org /\ g.direct = h.direct /\ g.cosine = h.cosine
        /\ g.current = h.current
    BY <2>1, <2>4 DEF Hit
  <2>7. g = WithParent(h)
    BY DEF WithParent, v
  <2> HIDE DEF g
  <2>8. g.cosine => g.direct /\ InScope(g.id.doc, g, query[q].scope)
    BY <1>1, <2>1, <2>6 DEF QueryOK, InScope
  <2>9. Undisturbed(query[q], g) => g.excerpt = g.rev
    BY <1>1, <2>1, <2>5, <2>6 DEF QueryOK, Undisturbed
  <2> QED
    BY <2>6, <2>7, <2>8, <2>9
<1>5. \A g \in hits :
        /\ g \in Hit
        /\ g.cosine => g.direct /\ InScope(g.id.doc, g, query[q].scope)
        /\ Undisturbed(query[q], g) => g.excerpt = g.rev
  BY <1>4
<1> HIDE DEF hits
<1>6. x \in QueryState /\ x.pc = "rerank" /\ x.by_id = hits
      /\ x.scope = query[q].scope /\ x.disturbed = query[q].disturbed
  BY <1>1, <1>5 DEF QueryState
<1>7. query' = [query EXCEPT ![q] = x]
  BY <1>2 DEF hits
<1> HIDE DEF x
<1>8. QueryOK(x)
  BY <1>5, <1>6 DEF QueryOK, Undisturbed
<1>9. UNCHANGED <<disk, tables, run, last, raced>>
  BY DEF fetch_parent_context
<1> QED
  BY <1>6, <1>7, <1>8, <1>9, OneQuery

\* Reranking only drops passages, down to its limit.
LEMMA RerankOK ==
    ASSUME IInv, NEW q \in Queries, rerank(q)
    PROVE  IInv'
<1>1. query[q] \in QueryState /\ QueryOK(query[q]) /\ query[q].pc = "rerank"
  BY DEF IInv, rerank
<1>2. PICK kept \in Best(rerank_top_k, query[q].by_id) :
         query' = [query EXCEPT ![q] =
                    [query[q] EXCEPT !.pc = "done", !.by_id = kept]]
  BY DEF rerank, Reranked, IInv
<1> DEFINE x == [query[q] EXCEPT !.pc = "done", !.by_id = kept]
<1>3. kept \subseteq query[q].by_id /\ Cardinality(kept) <= rerank_top_k
  BY <1>2, BestOK, CorpusAssumption
<1>4. x \in QueryState /\ x.pc = "done" /\ x.by_id = kept
      /\ x.scope = query[q].scope /\ x.disturbed = query[q].disturbed
  BY <1>1, <1>3 DEF QueryState
<1>5. query' = [query EXCEPT ![q] = x]
  BY <1>2
<1> HIDE DEF x
<1>6. QueryOK(x)
  BY <1>1, <1>3, <1>4 DEF QueryOK, Undisturbed
<1>7. UNCHANGED <<disk, tables, run, last, raced>>
  BY DEF rerank
<1> QED
  BY <1>4, <1>5, <1>6, <1>7, OneQuery

\* Publishing disturbs the retrievals that are between two statements, and no
\* other passage of theirs.
LEMMA PublishDisturbs ==
    ASSUME IInv, NEW r \in Runs, upsert_chunks(r)
    PROVE  query' \in [Queries -> QueryState] /\ \A q \in Queries : QueryOK(query[q])'
<1>1. /\ \A s \in Runs : run'[s].content = run[s].content
      /\ last' = [d \in Docs |-> IF d \in Loaded(r) THEN r ELSE last[d]]
  BY DEF upsert_chunks, IInv, StoreInv, StoreType, RunState
<1>2. ASSUME NEW q \in Queries
      PROVE  query'[q] \in QueryState /\ QueryOK(query[q])'
  <2>1. query[q] \in QueryState /\ QueryOK(query[q])
    BY DEF IInv
  <2>2. CASE query[q].pc \in {"expand", "parents"}
    <3> DEFINE x == [query[q] EXCEPT !.disturbed = @ \cup Loaded(r)]
    <3>1. query'[q] = x
      BY <2>2 DEF upsert_chunks
    <3>2. Loaded(r) \subseteq Docs
      BY DEF Loaded
    <3>3. x \in QueryState /\ x.pc = query[q].pc /\ x.by_id = query[q].by_id
          /\ x.scope = query[q].scope /\ x.disturbed = query[q].disturbed \cup Loaded(r)
      BY <2>1, <3>2 DEF QueryState
    <3> HIDE DEF x
    <3>4. ASSUME NEW h \in x.by_id, Undisturbed(x, h)
          PROVE  OfLast(h)'
      <4>1. h.id.doc \in Docs
        BY <3>3, <3>4, <2>1 DEF QueryState, Hit, ChunkIds
      <4>2. OfLast(h) /\ h.id.doc \notin Loaded(r)
        BY <2>1, <2>2, <3>3, <3>4 DEF QueryOK, Undisturbed
      <4>3. last'[h.id.doc] = last[h.id.doc] /\ last[h.id.doc] \in Runs
        BY <1>1, <4>1, <4>2 DEF OfLast, IInv, StoreInv, StoreType
      <4> QED
        BY <1>1, <4>2, <4>3 DEF OfLast
    <3> QED
      BY <2>1, <2>2, <3>1, <3>3, <3>4 DEF QueryOK, Undisturbed, InScope
  <2>3. CASE query[q].pc \notin {"expand", "parents"}
    <3>1. query'[q] = query[q]
      BY <2>3 DEF upsert_chunks
    <3> QED
      BY <2>1, <2>3, <3>1 DEF QueryOK, Undisturbed, InScope
  <2> QED
    BY <2>2, <2>3
<1>3. query' \in [Queries -> QueryState]
  <2> DEFINE f(q) == IF query[q].pc \in {"expand", "parents"}
                     THEN [query[q] EXCEPT !.disturbed = @ \cup Loaded(r)]
                     ELSE query[q]
  <2>1. query' = [q \in Queries |-> f(q)]
    BY DEF upsert_chunks
  <2>2. \A q \in Queries : query'[q] = f(q)
    BY <2>1
  <2> HIDE DEF f
  <2>3. \A q \in Queries : f(q) \in QueryState
    BY <1>2, <2>2
  <2> QED
    BY <2>1, <2>3
<1> QED
  BY <1>2, <1>3

-----------------------------------------------------------------------------
(* The specification *)

\* The empty store, with no run and no retrieval begun, satisfies it.
LEMMA InitIInv == Init => IInv
<1> SUFFICES ASSUME Init PROVE IInv
  OBVIOUS
<1>1. StoreType
  BY CorpusAssumption DEF Init, StoreType, Revs, ChunkRows, RunState
<1>2. \A r \in Runs : RunOK(r)
  BY DEF Init, RunOK
<1>3. LastBegan /\ PublishIsWhole
  BY DEF Init, LastBegan, PublishIsWhole
<1>4. \A q \in Queries : query[q].pc = "idle" /\ query[q].by_id = {}
  BY DEF Init
<1>5. query \in [Queries -> QueryState]
  <2>1. ASSUME NEW s \in Scopes
        PROVE  [pc |-> "idle", scope |-> s, by_id |-> {}, disturbed |-> {}]
                 \in QueryState
    BY DEF QueryState
  <2> QED
    BY <2>1 DEF Init
<1>6. \A q \in Queries : QueryOK(query[q])
  BY <1>4 DEF QueryOK
<1> QED
  BY <1>1, <1>2, <1>3, <1>5, <1>6 DEF IInv, StoreInv

\* Every transaction of an index run preserves it.
LEMMA RunStepOK ==
    ASSUME IInv, NEW r \in Runs, RunStep(r)
    PROVE  IInv'
<1>1. StoreInv /\ run \in [Runs -> RunState]
  BY DEF IInv, StoreInv, StoreType
<1>2. CASE \E S \in SUBSET Docs : Ingest(r, S)
  <2>1. PICK S \in SUBSET Docs : Ingest(r, S)
    BY <1>2
  <2>2. \A s \in Runs : run[s].pc # "idle" => run'[s].content = run[s].content
    BY <1>1, <2>1 DEF Ingest
  <2>3. query' = query /\ last' = last
    BY <2>1 DEF Ingest
  <2> QED
    BY <1>1, <2>1, <2>2, <2>3, IngestOK, QueriesSame DEF IInv
<1>3. CASE \E d \in Docs : upsert_document(r, d)
  <2>1. PICK d \in Docs : upsert_document(r, d)
    BY <1>3
  <2>2. \A s \in Runs : run'[s].content = run[s].content
    BY <1>1, <2>1 DEF upsert_document, RunState
  <2>3. query' = query /\ last' = last
    BY <2>1 DEF upsert_document
  <2> QED
    BY <1>1, <2>1, <2>2, <2>3, UpsertDocumentOK, QueriesSame DEF IInv
<1>4. CASE upsert_chunks(r)
  BY <1>1, <1>4, UpsertChunksOK, PublishDisturbs DEF IInv
<1>5. CASE \E id \in run[r].todo : link_entities(r, id)
  <2>1. PICK id \in run[r].todo : link_entities(r, id)
    BY <1>5
  <2>2. \A s \in Runs : run'[s].content = run[s].content
    BY <1>1, <2>1 DEF link_entities, RunState
  <2>3. query' = query /\ last' = last
    BY <2>1 DEF link_entities
  <2> QED
    BY <1>1, <2>1, <2>2, <2>3, LinkEntitiesOK, QueriesSame DEF IInv
<1>6. CASE \E id \in run[r].linking : commit_links(r, id)
  <2>1. PICK id \in run[r].linking : commit_links(r, id)
    BY <1>6
  <2>2. \A s \in Runs : run'[s].content = run[s].content
    BY <1>1, <2>1 DEF commit_links, RunState
  <2>3. query' = query /\ last' = last
    BY <2>1 DEF commit_links
  <2> QED
    BY <1>1, <2>1, <2>2, <2>3, CommitLinksOK, QueriesSame DEF IInv
<1>7. CASE Finish(r)
  <2>1. /\ \A s \in Runs : run'[s].content = run[s].content
        /\ query' = query /\ last' = last
    BY <1>1, <1>7 DEF Finish, RunState
  <2> QED
    BY <1>1, <1>7, <2>1, FinishOK, QueriesSame DEF IInv
<1>8. CASE Fail(r)
  <2>1. /\ \A s \in Runs : run'[s].content = run[s].content
        /\ query' = query /\ last' = last
    BY <1>1, <1>8 DEF Fail, RunState
  <2> QED
    BY <1>1, <1>8, <2>1, FailOK, QueriesSame DEF IInv
<1> QED
  BY <1>2, <1>3, <1>4, <1>5, <1>6, <1>7, <1>8 DEF RunStep

\* Every step preserves it.
LEMMA NextIInv == IInv /\ [Next]_vars => IInv'
<1> SUFFICES ASSUME IInv, [Next]_vars PROVE IInv'
  OBVIOUS
<1>1. CASE \E r \in Runs : RunStep(r)
  BY <1>1, RunStepOK
<1>2. CASE \E q \in Queries : QueryStep(q)
  BY <1>2, SearchOK, ExpandOK, ParentsOK, RerankOK DEF QueryStep
<1>3. CASE \E d \in Docs : Edit(d)
  <2>1. PICK d \in Docs : Edit(d)
    BY <1>3
  <2>2. query' = query /\ last' = last /\ run' = run
    BY <2>1 DEF Edit
  <2> QED
    BY <2>1, <2>2, EditOK, QueriesSame DEF IInv
<1>4. CASE UNCHANGED vars
  <2>1. UNCHANGED <<disk, tables, run, last, raced>> /\ query' = query
    BY <1>4 DEF vars
  <2> QED
    BY <2>1, StoreSame, QueriesSame DEF IInv
<1> QED
  BY <1>1, <1>2, <1>3, <1>4 DEF Next

\* It holds in every reachable state.
LEMMA Inductive == Spec => []IInv
  BY InitIInv, NextIInv, PTL DEF Spec

\* The tables, the index runs and the retrievals keep their types, and no more
\* than rerank_top_k passages are ever returned.
THEOREM TypeCorrect == Spec => []TypeOK
<1>1. IInv => TypeOK
  BY DEF IInv, StoreInv, StoreType, QueryOK, TypeOK
<1> QED
  BY <1>1, Inductive, PTL

\* Whoever published a document last published it whole, however the runs over
\* it overlap, fail and are repeated (upsert_chunks).
THEOREM PublishWhole == Spec => []PublishIsWhole
<1>1. IInv => PublishIsWhole
  BY DEF IInv, StoreInv
<1> QED
  BY <1>1, Inductive, PTL

\* Once the last publisher of a document is through, every child chunk of it is
\* linked to the entities of the text it holds, except those another run
\* introduced while that very statement was under way (link_entities).
THEOREM LinksAreComplete == Spec => []LinksComplete
<1>1. ASSUME IInv, NEW d \in Docs, last[d] # NoRun, run[last[d]].pc = "done",
             NEW id \in chunk_document(d, run[last[d]].content[d]), IsChild(id),
             NEW e \in mentions[chunks[id].rev][id.index]
      PROVE  <<id, e>> \in links \/ <<last[d], id, e>> \in raced
  <2> DEFINE r == last[d]
  <2>1. r \in Runs /\ run[r].content[d] \in Revs /\ StoreType /\ RunOK(r)
    BY <1>1 DEF IInv, StoreInv, StoreType, LastBegan
  <2>2. chunks[id] = [rev |-> run[r].content[d], org |-> org_id[r]]
    BY <1>1 DEF IInv, StoreInv, PublishIsWhole
  <2>3. id.doc = d
    BY <1>1, <2>1, ChunkIdType
  <2>4. d \in Loaded(r)
    BY <2>1, CorpusAssumption DEF Loaded, Revs
  <2>5. id \in Produced(r)
    BY <1>1, <2>1, <2>4, ProducedType
  <2>6. e \in Names(r, id)
    BY <1>1, <2>2, <2>3 DEF Names
  <2>7. id \in Linkable(r) \ run[r].todo
    BY <1>1, <2>1, <2>5, <2>6 DEF Linkable, RunOK
  <2> QED
    BY <1>1, <2>1, <2>6, <2>7 DEF RunOK
<1>2. IInv => LinksComplete
  BY <1>1 DEF LinksComplete
<1> QED
  BY <1>2, Inductive, PTL

\* A passage that is current when it is read, and not published again before
\* its section is, is given the section text of its own revision
\* (_attach_parent_context).
THEOREM ExcerptsMatch == Spec => []ExcerptOfSameRevision
<1>1. IInv => ExcerptOfSameRevision
  BY DEF IInv, QueryOK, Undisturbed, ExcerptOfSameRevision
<1> QED
  BY <1>1, Inductive, PTL

\* Only a passage the search itself found, within the scope of the question,
\* ever clears the relevance floor (_apply_graph_ranker).
THEOREM FloorInScope == Spec => []FloorClearedInScope
<1>1. IInv => FloorClearedInScope
  BY DEF IInv, QueryOK, FloorClearedInScope
<1> QED
  BY <1>1, Inductive, PTL
=============================================================================
