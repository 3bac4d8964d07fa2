------------------------- MODULE KnowledgeRetrieval -------------------------
(***************************************************************************)
(* One query of the knowledge base (harness_rag/service.py): a first       *)
(* search, reranking, and when the evidence is poor a rewrite of the query *)
(* with searches of its own; primary and supplemental evidence, the blocks *)
(* their chunks come from, and the snippets of the answer.  Every search   *)
(* goes through MilvusExecutor.  The caller is the tool dispatcher, whose  *)
(* timeout cancels the query wherever it is.                               *)
(*                                                                         *)
(* Scores are reduced to what the thresholds tell apart: 0 is below        *)
(* retry_low_threshold, 2 at least second_pass_threshold.                  *)
(***************************************************************************)
EXTENDS MilvusExecutor, Subsequences

CONSTANTS
    Chunk, NoChunk,
    Parent,     \* the block a chunk was split from, or NoChunk
    Level,      \* the confidentiality of a chunk
    Clearance,  \* per caller: the levels of its field filters
    Summary,    \* the chunks that are summaries
    Sourced,    \* the chunks with a source
    HitList,    \* the results a search may have, before the filter
    Scoring,    \* what a reranker may say: chunks it leaves out are lost
    TopK,       \* of the rankings too: rerank_top_k is smaller
    MaxQueries, RenderLimit,
    HasRewriter

ASSUME RetrievalAssumption ==
    /\ Parent \in [Chunk -> Chunk \cup {NoChunk}]
    /\ NoChunk \notin Chunk
    /\ {Summary, Sourced} \subseteq SUBSET Chunk
    /\ HitList \subseteq Seq(Chunk)
    /\ \A score \in Scoring :
         DOMAIN score \subseteq Chunk /\ \A c \in DOMAIN score : score[c] \in 0..2
    /\ {TopK, MaxQueries, RenderLimit} \subseteq Nat \ {0}
    /\ HasRewriter \in BOOLEAN

VARIABLE query   \* per caller: the query it runs

retrievalVars == <<query, executorVars>>

Unscored == 3    \* no score: the reranker failed or there is none

Item(c, s) == [chunk |-> c, score |-> s, block |-> NoChunk]

NoQuery == [at |-> "idle", filter |-> {}, hits |-> <<>>, first |-> <<>>,
            left |-> 0, primary |-> <<>>, supplemental |-> <<>>]

-----------------------------------------------------------------------------
(* Evidence: evidence.py, rerank.py, policy.py                             *)

Chunks(items) == {items[i].chunk : i \in DOMAIN items}

Scores(items) == {items[i].score : i \in DOMAIN items} \ {Unscored}

Best(items) == CHOOSE s \in Scores(items) : \A r \in Scores(items) : r <= s

Prefix(items, n) == SubSeq(items, 1, IF n < Len(items) THEN n ELSE Len(items))

\* What a search finds, with the filter of the policy as Milvus applies it.
Filtered(hits, filter) ==
    LET passing == Picked(hits, {i \in DOMAIN hits : Level[hits[i]] \in filter})
    IN [i \in DOMAIN passing |-> Item(passing[i], Unscored)]

\* The items of one score.
Scored(items, score, s) ==
    Picked([i \in DOMAIN items |-> [items[i] EXCEPT !.score = s]],
           {i \in DOMAIN items :
               items[i].chunk \in DOMAIN score /\ score[items[i].chunk] = s})

\* _rank_by_scores and rerank_or_keep: best first, in order among equals.
Reranked(items, score) ==
    Prefix(Scored(items, score, 2) \o Scored(items, score, 1) \o Scored(items, score, 0), TopK)

Kept(items) == Prefix(items, TopK)

\* dedupe_evidence: the first of each chunk.
Distinct(items) ==
    Picked(items, {i \in DOMAIN items : \A j \in 1..(i - 1) : items[j].chunk # items[i].chunk})

\* should_repair, for a query without a focus.
ShouldRepair(items) ==
    \/ items = <<>>
    \/ Scores(items) # {} /\ Best(items) = 0
    \/ Chunks(items) \cap Sourced = {}
    \/ Chunks(items) \subseteq Summary

\* _should_promote_repair: good repair evidence replaces evidence that is
\* absent or unusable.
ShouldPromote(first, repair) ==
    /\ Scores(repair) # {} /\ Best(repair) = 2
    /\ first = <<>> \/ Scores(first) = {} \/ Best(first) = 0

\* merge_primary_and_supplemental: the supplement repeats nothing.
Supplement(primary, items) ==
    Distinct(Picked(items, {i \in DOMAIN items : items[i].chunk \notin Chunks(primary)}))

ParentsOf(items) ==
    {Parent[c] : c \in Chunks(items)} \ {NoChunk}

\* _apply_parent_texts
Expanded(items, fetched) ==
    [i \in DOMAIN items |->
        IF Parent[items[i].chunk] \in fetched
        THEN [items[i] EXCEPT !.block = Parent[items[i].chunk]] ELSE items[i]]

\* _render_section: as many as the limit allows, but for those whose block was
\* shown before.
Section(items, seen, limit) ==
    LET fresh == {i \in DOMAIN items :
                    \/ items[i].block = NoChunk
                    \/ /\ items[i].block \notin seen
                       /\ \A j \in 1..(i - 1) : items[j].block # items[i].block}
    IN Prefix(Picked(items, fresh), limit)

\* arrange_evidence_for_prompt: the best first, the second best last.
Arranged(items) ==
    IF Len(items) <= 3 THEN items
    ELSE Picked(items, {i \in DOMAIN items : i % 2 = 1})
         \o Picked(items, {i \in DOMAIN items : i % 2 = 0 /\ i > 2}) \o <<items[2]>>

\* render_evidence_for_prompt
Snippets(primary, supplemental) ==
    LET shown == Section(Arranged(Prefix(primary, RenderLimit)), {}, RenderLimit)
        blocks == {shown[i].block : i \in DOMAIN shown}
    IN shown \o Section(supplemental, blocks, RenderLimit - Len(shown))

-----------------------------------------------------------------------------
(* The query                                                               *)

RetrievalInit ==
    /\ query = [c \in Caller |-> NoQuery]
    /\ ExecutorInit

Over == {"idle", "answered", "insufficient", "unavailable"}

\* knowledge_query: the filters come from the identity of the caller.
Ask(c) ==
    /\ query[c].at \in Over
    /\ query' = [query EXCEPT ![c] = [NoQuery EXCEPT !.at = "first", !.filter = Clearance[c]]]
    /\ UNCHANGED executorVars

\* What the pipeline does next when the repair round is over or left out:
\* choose and merge the evidence, and see what blocks to fetch.
Merged(q, repaired) ==
    LET promote == ShouldPromote(q.first, repaired)
        primary == Distinct(Prefix(IF promote THEN repaired ELSE q.first, TopK))
        others == IF promote THEN Prefix(q.first, TopK) ELSE repaired
        supplemental == Supplement(primary, others)
    IN [q EXCEPT !.primary = primary, !.supplemental = supplemental,
                 !.hits = <<>>,
                 !.at = IF ParentsOf(primary \o supplemental) # {} THEN "expand"
                        ELSE IF primary = <<>> THEN "insufficient" ELSE "answered"]

\* The blocks arrived, or could not be fetched: the answer is rendered.
Answered(q, fetched) ==
    [q EXCEPT !.primary = Expanded(@, fetched), !.supplemental = Expanded(@, fetched),
              !.at = IF q.primary = <<>> THEN "insufficient" ELSE "answered"]

\* A search fails: the first one ends the query, one of the repair round
\* gives the whole round up, the one for the blocks leaves the chunks.
Failed(c) ==
    CASE query[c].at = "first" -> [NoQuery EXCEPT !.at = "unavailable"]
      [] query[c].at = "repair" -> Merged(query[c], <<>>)
      [] query[c].at = "expand" -> Answered(query[c], {})

Searching == {"first", "repair", "expand"}

\* Embed the query and search.
StartSearch(c) ==
    /\ query[c].at \in Searching
    /\ Submit(c)
    /\ UNCHANGED query

\* The embedding fails, or the executor is full.
NoSearch(c) ==
    /\ query[c].at \in Searching
    /\ answer[c] = "none"
    /\ query[c].at = "expand" => Busy(c)
    /\ query' = [query EXCEPT ![c] = Failed(c)]
    /\ UNCHANGED executorVars

\* A search of a round is over; the queries of the repair round are searched
\* one by one.
SearchOver(c) ==
    /\ query[c].at \in {"first", "repair"}
    /\ Resume(c)
    /\ IF answer[c] = "error" THEN query' = [query EXCEPT ![c] = Failed(c)]
       ELSE \E hits \in HitList :
              query' = [query EXCEPT
                ![c].hits = @ \o Filtered(hits, query[c].filter),
                ![c].left = IF query[c].at = "first" THEN 0 ELSE @ - 1,
                ![c].at = IF query[c].at = "first" THEN "rank_first"
                          ELSE IF query[c].left > 1 THEN "repair" ELSE "rank_repair"]

\* The blocks of both tiers, in one query by ids.
BlocksFetched(c) ==
    /\ query[c].at = "expand"
    /\ Resume(c)
    /\ query' = [query EXCEPT ![c] =
          IF answer[c] = "error" THEN Failed(c)
          ELSE Answered(query[c], ParentsOf(query[c].primary \o query[c].supplemental))]

\* What a reranker makes of the hits: a score for each, or nothing.
Rankings(items) ==
    {Kept(items)} \cup {Reranked(items, score) : score \in Scoring}

\* The first evidence is ranked.  If it is poor, and there is a rewriter and
\* time, the query is rewritten.
RankFirst(c) ==
    LET q == query[c] IN
    /\ q.at = "rank_first"
    /\ \E items \in Rankings(q.hits), inTime \in BOOLEAN :
         query' = [query EXCEPT ![c] =
            IF ShouldRepair(items) /\ HasRewriter /\ inTime
            THEN [q EXCEPT !.at = "rewrite", !.first = items, !.hits = <<>>]
            ELSE Merged([q EXCEPT !.first = items], <<>>)]
    /\ UNCHANGED executorVars

FilterLost(q) == UNION {Clearance[c] : c \in Caller}

\* build_repair_policy: a copy of the first policy but for its queries.
FilterOf(q) == q.filter

Rewrite(c) ==
    /\ query[c].at = "rewrite"
    /\ \/ \E n \in 1..MaxQueries :
            query' = [query EXCEPT ![c].at = "repair", ![c].left = n,
                                   ![c].filter = FilterOf(query[c])]
       \/ query' = [query EXCEPT ![c] = Merged(query[c], <<>>)]
    /\ UNCHANGED executorVars

RankRepair(c) ==
    /\ query[c].at = "rank_repair"
    /\ \E items \in Rankings(Distinct(query[c].hits)) :
         query' = [query EXCEPT ![c] = Merged(query[c], items)]
    /\ UNCHANGED executorVars

\* The dispatcher cancels the query; a search it awaits is abandoned.
TimeOut(c) ==
    /\ query[c].at \notin Over
    /\ query' = [query EXCEPT ![c] = NoQuery]
    /\ IF answer[c] # "none" THEN Cancel(c) ELSE UNCHANGED executorVars

RetrievalStep(c) ==
    \/ StartSearch(c) \/ NoSearch(c) \/ SearchOver(c) \/ BlocksFetched(c)
    \/ RankFirst(c) \/ Rewrite(c) \/ RankRepair(c)

-----------------------------------------------------------------------------
(* Properties                                                              *)

Items == [chunk : Chunk, score : 0..Unscored, block : Chunk \cup {NoChunk}]

Query ==
    [at : Over \cup Searching \cup {"rank_first", "rewrite", "rank_repair"},
     filter : SUBSET UNION {Clearance[c] : c \in Caller},
     hits : Seq(Items), first : Seq(Items), primary : Seq(Items), supplemental : Seq(Items),
     left : 0..MaxQueries]

\* The executor and every query are well formed; no tier of the evidence is
\* longer than top_k (service.py:151-152).
RetrievalTypeOK ==
    /\ ExecutorTypeOK
    /\ query \in [Caller -> Query]
    /\ \A c \in Caller :
         /\ Len(query[c].first) <= TopK
         /\ Len(query[c].primary) <= TopK
         /\ Len(query[c].supplemental) <= TopK

Evidence(c) == query[c].primary \o query[c].supplemental

\* Every chunk of the evidence, of whichever round, passes the filter that the
\* caller's identity gave (service.py:226-232), and none is there twice; nor is
\* a block that several chunks share shown twice (evidence.py:233).
EvidenceSound ==
    \A c \in Caller :
      /\ \A i \in DOMAIN Evidence(c) : Level[Evidence(c)[i].chunk] \in Clearance[c]
      /\ \A i, j \in DOMAIN Evidence(c) :
           Evidence(c)[i].chunk = Evidence(c)[j].chunk => i = j
      /\ LET shown == Snippets(query[c].primary, query[c].supplemental) IN
         \A i, j \in DOMAIN shown :
           shown[i].block = shown[j].block => i = j \/ shown[i].block = NoChunk
=============================================================================
