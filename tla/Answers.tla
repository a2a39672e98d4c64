------------------------------ MODULE Answers ------------------------------
(***************************************************************************)
(* The pure parts of the query pipeline: what a search may return, which   *)
(* chunks PromptBuilder fits into the prompt and what CitationBuilder      *)
(* makes of them.  A chunk is its url, permission tag, similarity in       *)
(* percent and size in tokens; a size of text adds up.                     *)
(***************************************************************************)
EXTENDS Integers, FiniteSets, Sequences, SequencesExt

CONSTANTS
    Queries,      \* requests of the query API
    Tags,         \* permission tags
    Urls,         \* source_urls
    Permissions,  \* Permissions[q]: the caller's permission tags
    Wildcard,     \* "*"
    NoUrl,        \* a chunk without source_url
    InGraph,      \* urls with a Document node
    TopK,         \* LIMIT of the search (5)
    LowScore,     \* similarity below which confidence is low (30)
    MaxTokens,    \* max_tokens of the prompt (1500)
    Overhead,     \* Overhead[q]: tokens of the prompts without chunks
    Addendum,     \* tokens added to the question when confidence is low
    GraphTokens,  \* tokens of the graph context of a document
    MaxCitations  \* citations of an answer (5)

ASSUME AnswersOK ==
    /\ Permissions \in [Queries -> SUBSET (Tags \cup {Wildcard})]
    /\ Wildcard \notin Tags /\ NoUrl \notin Urls /\ InGraph \subseteq Urls
    /\ TopK \in Nat /\ LowScore \in Nat /\ MaxTokens \in Nat
    /\ Overhead \in [Queries -> Nat] /\ Addendum \in Nat
    /\ GraphTokens \in Nat /\ MaxCitations \in Nat

\* A search finds no more than an answer cites: both are 5.
ASSUME RoomForAll == TopK <= MaxCitations

Chunk == [url : Urls \cup {NoUrl}, tag : Tags, score : Nat, tokens : Nat]

-----------------------------------------------------------------------------
(* VectorSearchService.search *)

Permitted(q, corpus) ==
    {c \in corpus : Wildcard \in Permissions[q] \/ c.tag \in Permissions[q]}

\* The best TopK permitted rows, best first, ties in any order.
Results(q, corpus) ==
    LET rows == Permitted(q, corpus)
        found == IF Cardinality(rows) < TopK THEN Cardinality(rows) ELSE TopK IN
    {s \in [1..found -> rows] :
        /\ IsInjective(s)
        /\ \A i \in 1..(found - 1) : s[i].score >= s[i + 1].score
        /\ \A r \in rows \ ToSet(s) : \A i \in 1..found : r.score <= s[i].score}

UrlsOf(chunks) == {c.url : c \in ToSet(chunks)} \ {NoUrl}

\* GraphSearchService.enrich: the documents of the chunks that the graph knows.
Enriched(chunks) == UrlsOf(chunks) \cap InGraph

\* max_sim < 0.3, and 0.0 without chunks
LowConfidence(chunks) == \A c \in ToSet(chunks) : c.score < LowScore

-----------------------------------------------------------------------------
(* PromptBuilder.build *)

Available(q, chunks) ==
    MaxTokens - Overhead[q] - GraphTokens * Cardinality(Enriched(chunks))
              - (IF LowConfidence(chunks) THEN Addendum ELSE 0)

\* A mutant: a chunk that does not fit is skipped.
FitOthers(so_far, c) ==
    IF so_far.left - c.tokens > 0
    THEN [so_far EXCEPT !.kept = Append(@, c), !.left = @ - c.tokens]
    ELSE so_far

\* One turn of the loop; it breaks at the first chunk that does not fit.
Fit(so_far, c) ==
    IF so_far.open /\ so_far.left - c.tokens > 0
    THEN [so_far EXCEPT !.kept = Append(@, c), !.left = @ - c.tokens]
    ELSE [so_far EXCEPT !.open = FALSE]

\* The prompt after so many turns.
Fitted(q, chunks) ==
    LET turn[n \in 0..Len(chunks)] ==
            IF n = 0 THEN [kept |-> << >>, left |-> Available(q, chunks), open |-> TRUE]
            ELSE Fit(turn[n - 1], chunks[n]) IN turn

InPrompt(q, chunks) == Fitted(q, chunks)[Len(chunks)].kept

-----------------------------------------------------------------------------
(* CitationBuilder.build *)

\* The dictionary by url, in the order of its keys: the better chunk stays.
Cite(found, c) ==
    CASE c.url = NoUrl -> found
      [] c.url # NoUrl /\ c.url \notin UrlsOf(found) -> Append(found, c)
      [] c.url # NoUrl /\ c.url \in UrlsOf(found) ->
            [i \in DOMAIN found |->
                IF found[i].url = c.url /\ c.score > found[i].score THEN c ELSE found[i]]

\* The dictionary after so many chunks.
Collected(chunks) ==
    LET turn[n \in 0..Len(chunks)] ==
            IF n = 0 THEN << >> ELSE Cite(turn[n - 1], chunks[n]) IN turn

\* sorted(..., reverse=True): the place of a chunk is the number of those before
\* it, and equal ones keep their order.
Before(s, i, j) == s[i].score > s[j].score \/ (s[i].score = s[j].score /\ i < j)
Place(s, i) == Cardinality({j \in DOMAIN s : Before(s, j, i)}) + 1
BestFirst(s) == [k \in DOMAIN s |-> s[CHOOSE i \in DOMAIN s : Place(s, i) = k]]

Citations(chunks) ==
    LET sorted == BestFirst(Collected(chunks)[Len(chunks)]) IN
    SubSeq(sorted, 1, IF Len(sorted) < MaxCitations THEN Len(sorted) ELSE MaxCitations)

-----------------------------------------------------------------------------
(* What they amount to *)

TokensOf(chunks) ==
    LET sum[n \in 0..Len(chunks)] == IF n = 0 THEN 0 ELSE sum[n - 1] + chunks[n].tokens IN
    sum[Len(chunks)]

\* The prompt holds the best chunks as far as they fit, and no less.
PromptFits(q, chunks) ==
    LET kept == InPrompt(q, chunks) IN
    /\ IsPrefix(kept, chunks)
    /\ kept # << >> => TokensOf(kept) < Available(q, chunks)
    /\ Len(kept) < Len(chunks) =>
         TokensOf(kept) + chunks[Len(kept) + 1].tokens >= Available(q, chunks)

\* Every document that was found is cited once, at its best score, best first.
CitesAll(chunks) ==
    LET cited == Citations(chunks) IN
    /\ UrlsOf(cited) = UrlsOf(chunks) /\ Len(cited) = Cardinality(UrlsOf(chunks))
    /\ \A i \in DOMAIN cited : \A c \in ToSet(chunks) :
         c.url = cited[i].url => c.score <= cited[i].score
    /\ \A i \in 1..(Len(cited) - 1) : cited[i].score >= cited[i + 1].score
=============================================================================
