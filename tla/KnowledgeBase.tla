----------------------------- MODULE KnowledgeBase -----------------------------
(***************************************************************************)
(* app/tools/knowledge_base.py: the in-memory hybrid index that policy_rag *)
(* queries.  Ingests and queries await the embedding service and then work *)
(* on the two indexes without another await.                               *)
(*                                                                         *)
(* Scores are small integers: what BM25, the cosine and the reranker       *)
(* compute from texts is any assignment of scores, after normalisation.    *)
(***************************************************************************)
EXTENDS Integers, FiniteSets, Sequences, SequencesExt

CONSTANTS
    ChunkIds,
    Ingests,        \* ids of ingest calls; a call's id also names its text
    NoText,
    NoChunk,
    NoAnswer,
    MaxScore,       \* bound: scores are 0 .. MaxScore
    MaxTopK,        \* bound on request.top_k
    Overfetch       \* the 3 of `request.top_k * 3`

ASSUME KBAssumption ==
    /\ NoText \notin Ingests
    /\ NoChunk \notin ChunkIds
    /\ {MaxScore, MaxTopK, Overfetch} \subseteq Nat \ {0}

VARIABLES
    documents,      \* DenseVectorIndex._documents
    sparse,         \* sparse[c]: the text behind BM25SparseIndex._docs[c]
    ingest,         \* ingest[i]: the chunk id call i is embedding for
    answer          \* the latest query's result, with what it was computed from

vars == <<documents, sparse, ingest, answer>>

NoQuery == [k |-> 0, fused |-> NoAnswer, chunks |-> <<>>]

Init ==
    /\ documents = <<>>
    /\ sparse = [c \in ChunkIds |-> NoText]
    /\ ingest = [i \in Ingests |-> [pc |-> "idle", chunk |-> NoChunk]]
    /\ answer = NoQuery

-----------------------------------------------------------------------------
(***************************************************************************)
(* ingest                                                                  *)
(***************************************************************************)
IngestBegins(i, c) ==
    /\ ingest[i].pc = "idle"
    /\ ingest' = [ingest EXCEPT ![i] = [pc |-> "embedding", chunk |-> c]]
    /\ UNCHANGED <<documents, sparse, answer>>

\* Mutant: a chunk id that is already indexed is not scored anew.
IngestAddsOnce(i) ==
    LET c == ingest[i].chunk IN
    /\ ingest[i].pc = "embedding"
    /\ documents' = Append(documents, [chunk |-> c, text |-> i])
    /\ sparse' = [sparse EXCEPT ![c] = IF @ = NoText THEN i ELSE @]
    /\ ingest' = [ingest EXCEPT ![i].pc = "done"]
    /\ answer' = NoQuery

\* The dense index appends, also when the chunk id is known; the sparse one
\* replaces.
IngestAdds(i) ==
    LET c == ingest[i].chunk IN
    /\ ingest[i].pc = "embedding"
    /\ documents' = Append(documents, [chunk |-> c, text |-> i])
    /\ sparse' = [sparse EXCEPT ![c] = i]
    /\ ingest' = [ingest EXCEPT ![i].pc = "done"]
    /\ answer' = NoQuery

IngestFails(i) ==
    /\ ingest[i].pc = "embedding"
    /\ ingest' = [ingest EXCEPT ![i].pc = "raised"]
    /\ UNCHANGED <<documents, sparse, answer>>

-----------------------------------------------------------------------------
(***************************************************************************)
(* query                                                                   *)
(***************************************************************************)
Indexed == {documents[i].chunk : i \in DOMAIN documents}

PositionsOf(c) == {i \in DOMAIN documents : documents[i].chunk = c}

\* DenseVectorIndex.get: the first document with the id.
Get(c) == documents[CHOOSE i \in PositionsOf(c) : \A j \in PositionsOf(c) : i <= j]

\* DenseVectorIndex.score: a dictionary, in which the last document wins.
DenseScore(sim, c) == sim[CHOOSE i \in PositionsOf(c) : \A j \in PositionsOf(c) : i >= j]

\* What the three scorers may make of a query: cosine of every document, BM25 of
\* every text (the sparse index has the same ids, see IndexesAgree), and lexical
\* overlap with every passage; all normalised.
Similarities == [DOMAIN documents -> 0 .. MaxScore]
SparseScores == [Indexed -> 0 .. MaxScore]
Overlaps == [Indexed -> 0 .. MaxScore]

\* The orders `sorted(fused, reverse=True)` may give: ties fall in the order of a
\* set of strings, which differs from process to process.
Rankings(fused) ==
    {p \in Bijection(1 .. Cardinality(DOMAIN fused), DOMAIN fused) :
        \A i, j \in DOMAIN p : i < j => fused[p[i]] >= fused[p[j]]}

Prefix(s, n) == SubSeq(s, 1, IF n < Len(s) THEN n ELSE Len(s))

\* chunks.sort(key=final_score, reverse=True), a stable sort: what was at i goes
\* behind all that has a greater score, and all of its own score that was before it.
GoesBefore(final, ids, i, j) ==
    \/ final[ids[i]] > final[ids[j]]
    \/ final[ids[i]] = final[ids[j]] /\ i < j

Place(final, ids, i) ==
    Cardinality({j \in DOMAIN ids : GoesBefore(final, ids, j, i)}) + 1

SortedBy(final, ids) ==
    [n \in DOMAIN ids |-> ids[CHOOSE i \in DOMAIN ids : Place(final, ids, i) = n]]

\* Mutant: the sort by final_score is missing, the chunks stay in fused order.
ChunksUnsorted(ranked, final, k) == Prefix(Prefix(ranked, k * Overfetch), k)

\* Mutant: the candidates are not cut to top_k.
ChunksUncut(ranked, final, k) == SortedBy(final, Prefix(ranked, k * Overfetch))

\* Candidates are fetched beyond top_k, cut to top_k in fused order, and only those
\* are sorted by their final score.
Chunks(ranked, final, k) ==
    SortedBy(final, Prefix(Prefix(ranked, k * Overfetch), k))

\* Both scores of a chunk, weighted.
Fused(w, sim, bm25) ==
    [c \in Indexed |-> w.dense * DenseScore(sim, c) + w.sparse * bm25[c]]

\* The chunks that are returned, with the text that get returns.
AnswerOf(k, fused, final, ranked) ==
    LET ids == Chunks(ranked, final, k) IN
    [k |-> k, fused |-> fused,
     chunks |-> [n \in DOMAIN ids |->
                    [chunk |-> ids[n], text |-> Get(ids[n]).text, score |-> final[ids[n]]]]]

\* One query; w are its two weights.  The reranker judges the text that get
\* returns.  A query leaves the indexes alone, so one query between two ingests is
\* enough (a bound).
QueryAnswers(k, w, use_reranker) ==
    /\ answer = NoQuery
    /\ \E sim \in Similarities, bm25 \in SparseScores, overlap \in Overlaps :
          LET fused == Fused(w, sim, bm25)
              final == IF use_reranker THEN overlap ELSE fused IN
          \E ranked \in Rankings(fused) : answer' = AnswerOf(k, fused, final, ranked)
    /\ UNCHANGED <<documents, sparse, ingest>>

Weights == {[dense |-> 1, sparse |-> 1], [dense |-> 1, sparse |-> 0]}

Next ==
    \/ \E i \in Ingests, c \in ChunkIds : IngestBegins(i, c)
    \/ \E i \in Ingests : IngestAdds(i) \/ IngestFails(i)
    \/ \E k \in 1 .. MaxTopK, w \in Weights, use_reranker \in BOOLEAN :
          QueryAnswers(k, w, use_reranker)

Spec == Init /\ [][Next]_vars

-----------------------------------------------------------------------------
(***************************************************************************)
(* Properties                                                              *)
(***************************************************************************)
Chunk == [chunk : ChunkIds, text : Ingests, score : 0 .. 2 * MaxScore]

TypeOK ==
    /\ documents \in Seq([chunk : ChunkIds, text : Ingests])
    /\ sparse \in [ChunkIds -> Ingests \cup {NoText}]
    /\ ingest \in [Ingests -> [pc : {"idle", "embedding", "done", "raised"},
                               chunk : ChunkIds \cup {NoChunk}]]
    /\ answer.k \in 0 .. MaxTopK
    /\ answer.chunks \in Seq(Chunk)
    /\ Len(answer.chunks) <= answer.k

\* HybridKnowledgeBase.ingest: the two indexes never disagree, however concurrent
\* ingests of one chunk id overtake each other: same ids, and the sparse index
\* scores the text whose embedding the dense one scores.
IndexesAgree ==
    \A c \in ChunkIds :
        /\ sparse[c] = NoText <=> PositionsOf(c) = {}
        /\ sparse[c] # NoText =>
              \E i \in PositionsOf(c) :
                  /\ documents[i].text = sparse[c]
                  /\ \A j \in PositionsOf(c) : j <= i

\* HybridKnowledgeBase.query: the answer holds the top_k chunks of the fused
\* ranking, each once, best first; what was left out has no better fused score,
\* even with over-fetching, the reranker, ties and ids ingested twice.
AnswerIsBest ==
    answer.k > 0 =>
        LET ids == [n \in DOMAIN answer.chunks |-> answer.chunks[n].chunk]
            f == answer.fused IN
        /\ Cardinality(ToSet(ids)) = Len(ids)
        /\ Len(ids) = answer.k \/ ToSet(ids) = DOMAIN f
        /\ \A x \in ToSet(ids), y \in DOMAIN f \ ToSet(ids) : f[x] >= f[y]
        /\ \A m, n \in DOMAIN ids : m < n => answer.chunks[m].score >= answer.chunks[n].score
=============================================================================
