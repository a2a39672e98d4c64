---------------------------- MODULE QueryProofs ----------------------------
(***************************************************************************)
(* Theorems about the query API, for any requests, corpora, permissions,   *)
(* pool and bounds.  TypeInv has the types, RequestInv what is true of one *)
(* request, and PoolInv the connections; a step of a request leaves every  *)
(* other request alone (Frame), so each is shown for one request only.     *)
(*                                                                         *)
(* What PromptBuilder and CitationBuilder make of the chunks is shown by   *)
(* an invariant of the loop each of them is (Fitting, Gathered), for any   *)
(* chunks a search can return.                                             *)
(***************************************************************************)
EXTENDS Query, SequenceLemmas, FiniteSetTheorems

-----------------------------------------------------------------------------
(* The steps *)

Step(q) == Advance(q) \/ Fails(q) \/ Disconnect(q) \/ Collect(q)

\* Only the place of the request changes, and whether it has a connection.
Moves(q, to) ==
    /\ Goes(q, to)
    /\ held' \subseteq held \cup {q} /\ held \subseteq held' \cup {q}
    /\ UNCHANGED <<retrieval, generation, outcome>>

MayMove(from, to) ==
    \/ to = from
    \/ from \notin Over /\ to \in {"failed", "left"}
    \/ from = "new" /\ to \in {"start", "search"}
    \/ from = "start" /\ to = "search"
    \/ from = "search" /\ to \in {"searching", "enrich"}
    \/ from = "searching" /\ to = "enrich"

\* The audit row is written.
Logs(q, to) ==
    /\ At(q, "audit") /\ Goes(q, to) /\ Logged(q)
    /\ held' \subseteq held \cup {q} /\ held \subseteq held' \cup {q}
    /\ UNCHANGED <<retrieval, generation, sent, expert>>

\* The steps that change more than that.
Works(q) ==
    \/ SearchReturns(q) \/ Enrich(q)
    \/ Generate(q) \/ GenerateTimesOut(q) \/ GenerateUnavailable(q)
    \/ GenerateStream(q) \/ StreamTimesOut(q) \/ StreamCompletes(q) \/ StreamUnavailable(q)
    \/ FindExpert(q)

LEMMA StepKinds ==
    ASSUME pc \in [Queries -> Stages], NEW q \in Queries, Step(q)
    PROVE  \/ Works(q)
           \/ \E to \in Stages : Moves(q, to) /\ MayMove(pc[q], to)
           \/ \E to \in {"done", "failed", "left"} : Logs(q, to)
  <1>1. CASE GetCurrentUser(q) \/ AdmissionFails(q) \/ StreamQuery(q) \/ SearchBegins(q)
                \/ SearchTimesOut(q)
    BY <1>1 DEF GetCurrentUser, AdmissionFails, StreamQuery, SearchBegins, SearchTimesOut,
                Moves, MayMove, Passes, At, Raises, Goes, Stages, Over
  <1>2. CASE Fails(q) /\ ~LogQueryFails(q)
    BY <1>2 DEF Fails, EmbedFails, SearchFails, EnrichFails, LLMBreaks, FindExpertFails,
                Moves, MayMove, Passes, At, Raises, Goes, Stages, Over
  <1>3. CASE LogQueryTimesOut(q)
    BY <1>3 DEF LogQueryTimesOut, Moves, MayMove, At, Raises, Goes, Stages, Over
  <1>4. CASE LogQuery(q)
    BY <1>4 DEF LogQuery, Logs, Passes
  <1>5. CASE LogQueryFails(q)
    <2>1. CASE audit' = audit
      BY <1>5, <2>1 DEF LogQueryFails, Moves, MayMove, At, Raises, Goes, Stages, Over, outcome
    <2>2. CASE Logged(q)
      BY <1>5, <2>2 DEF LogQueryFails, Logs, Raises
    <2> QED
      BY <1>5, <2>1, <2>2 DEF LogQueryFails
  <1>6. CASE Disconnect(q)
    <2>1. CASE audit' = audit
      BY <1>6, <2>1 DEF Disconnect, Moves, MayMove, Goes, Stages, Over, outcome
    <2>2. CASE At(q, "audit") /\ Logged(q)
      BY <1>6, <2>2 DEF Disconnect, Logs
    <2> QED
      BY <1>6, <2>1, <2>2 DEF Disconnect
  <1>7. CASE Collect(q)
    BY <1>7 DEF Collect, Moves, MayMove, At, Goes, Stages, Over
  <1> QED
    BY <1>1, <1>2, <1>3, <1>4, <1>5, <1>6, <1>7
       DEF Step, Advance, Retrieve, Answer, Finish, Works, Fails

-----------------------------------------------------------------------------
(* The types *)

Events == [type : {"retrieval_done", "token", "complete", "error"}, n : Nat]

TypeInv ==
    /\ pc \in [Queries -> Stages]
    /\ corpus \in Corpora
    /\ held \subseteq Queries /\ searched \subseteq Queries /\ unavailable \subseteq Queries
    /\ chunks \in [Queries -> Seq(Chunk)]
    /\ attempt \in [Queries -> Nat] /\ \A q \in Queries : attempt[q] \in 1..Attempts(q)
    /\ got \in [Queries -> 0..MaxAnswer]
    /\ answer \in [Queries -> Seq(Tokens)]
    /\ expert \in [Queries -> Experts \cup {Nobody}]
    /\ sent \in [Queries -> Seq(Events)]
    /\ audit = [q \in Queries |-> audit[q]]

LEMMA AttemptsTyped == \A q \in Queries : Attempts(q) \in Nat /\ 1 \in 1..Attempts(q)
  BY QueryOK DEF Attempts

LEMMA EventTyped ==
    ASSUME NEW type \in {"retrieval_done", "token", "complete", "error"}, NEW n \in Nat
    PROVE  Event(type, n) \in Events /\ Event(type, n).type = type /\ Event(type, n).n = n
  BY DEF Event, Events

\* What a search returns is a sequence of permitted rows, and the best of them.
LEMMA ResultsTyped ==
    ASSUME corpus \in Corpora, NEW q \in Queries, NEW s \in Results(q, corpus)
    PROVE  /\ s \in Seq(Chunk) /\ Len(s) \in Nat /\ Len(s) <= TopK
           /\ ToSet(s) \subseteq Permitted(q, corpus)
           /\ \A c \in Permitted(q, corpus) \ ToSet(s) :
                Len(s) = TopK /\ \A d \in ToSet(s) : c.score <= d.score
  <1> DEFINE rows == Permitted(q, corpus)
             found == IF Cardinality(rows) < TopK THEN Cardinality(rows) ELSE TopK
  <1>1. rows \in SUBSET corpus /\ corpus \subseteq Chunk /\ IsFiniteSet(corpus)
    BY QueryOK DEF Permitted
  <1>2. IsFiniteSet(rows) /\ Cardinality(rows) \in Nat
    BY <1>1, FS_Subset, FS_CardinalityType
  <1>3. found \in Nat /\ found <= TopK
    BY <1>2, AnswersOK
  <1>4. /\ s \in [1..found -> rows] /\ IsInjective(s)
        /\ \A r \in rows \ ToSet(s) : \A i \in 1..found : r.score <= s[i].score
    BY DEF Results
  <1> HIDE DEF rows
  <1>5. Len(s) = found /\ s \in Seq(rows) /\ s \in Seq(Chunk)
    <2> HIDE DEF found
    <2> QED
      BY <1>1, <1>3, <1>4
  <1>6. ToSet(s) \subseteq rows
    BY <1>4 DEF ToSet
  <1>7. ASSUME NEW c \in rows \ ToSet(s)
        PROVE  Len(s) = TopK /\ \A d \in ToSet(s) : c.score <= d.score
    <2>1. \A d \in ToSet(s) : c.score <= d.score
      BY <1>4 DEF ToSet
    <2>2. found = TopK
      <3>1. SUFFICES ASSUME found # TopK PROVE FALSE
        OBVIOUS
      <3>2. found = Cardinality(rows)
        BY <3>1
      <3>3. s \in Injection(1..found, rows)
        BY <1>4 DEF Injection, IsInjective
      <3>4. s \in Surjection(1..found, rows)
        BY <1>2, <1>3, <3>2, <3>3, FS_Interval, FS_Injection
      <3>5. \A x \in rows : x \in ToSet(s)
        BY <1>4, <3>4 DEF Surjection, ToSet
      <3> QED
        BY <3>5
    <2> QED
      BY <1>5, <2>1, <2>2
  <1> QED
    BY <1>3, <1>5, <1>6, <1>7 DEF rows

LEMMA TypeInit == Init => TypeInv
  BY AttemptsTyped, QueryOK DEF Init, TypeInv, Stages

\* What a request has, and that a step leaves it as it is.
Same(p) ==
    /\ pc'[p] = pc[p] /\ chunks'[p] = chunks[p] /\ attempt'[p] = attempt[p]
    /\ got'[p] = got[p] /\ answer'[p] = answer[p] /\ sent'[p] = sent[p]
    /\ expert'[p] = expert[p] /\ audit'[p] = audit[p]
    /\ (p \in held' <=> p \in held) /\ (p \in searched' <=> p \in searched)
    /\ (p \in unavailable' <=> p \in unavailable)

LEMMA Frame ==
    ASSUME TypeInv, NEW q \in Queries, Step(q)
    PROVE  corpus' = corpus /\ \A p \in Queries \ {q} : Same(p)
  <1>1. CASE Works(q)
    BY <1>1 DEF Works, SearchReturns, Enrich, Generate, GenerateTimesOut, GenerateUnavailable,
                GenerateStream, StreamTimesOut, TimesOut, StreamCompletes, StreamUnavailable,
                FindExpert, Passes, At, Goes, retrieval, generation, outcome, TypeInv, Same
  <1>2. ASSUME NEW to \in Stages, Moves(q, to)
        PROVE  corpus' = corpus /\ \A p \in Queries \ {q} : Same(p)
    BY <1>2 DEF Moves, Goes, retrieval, generation, outcome, TypeInv, Same
  <1>3. ASSUME NEW to \in Stages, Logs(q, to)
        PROVE  corpus' = corpus /\ \A p \in Queries \ {q} : Same(p)
    BY <1>3 DEF Logs, Logged, At, Goes, retrieval, generation, outcome, TypeInv, Same
  <1>4. {"done", "failed", "left"} \subseteq Stages
    BY DEF Stages, Over
  <1> QED
    BY <1>1, <1>2, <1>3, <1>4, StepKinds DEF TypeInv

LEMMA TypeStep ==
    ASSUME TypeInv, NEW q \in Queries, Step(q)
    PROVE  TypeInv'
  <1>1. CASE SearchReturns(q)
    <2>1. PICK s \in Results(q, corpus) : chunks' = [chunks EXCEPT ![q] = s]
      BY <1>1 DEF SearchReturns
    <2>2. s \in Seq(Chunk)
      BY ResultsTyped DEF TypeInv
    <2> QED
      BY <1>1, <2>1, <2>2
         DEF SearchReturns, Passes, At, Goes, generation, outcome, TypeInv, Stages, Attempts
  <1>2. CASE Enrich(q)
    <2>1. Event("retrieval_done", Len(chunks[q])) \in Events
      <3>1. Len(chunks[q]) \in Nat
        BY DEF TypeInv
      <3> QED
        BY <3>1, EventTyped
    <2> QED
      BY <1>2, <2>1
         DEF Enrich, Passes, At, Goes, retrieval, generation, TypeInv, Stages, Attempts
  <1>3. CASE Generate(q)
    <2>1. PICK n \in 0..MaxAnswer : answer' = [answer EXCEPT ![q] = [k \in 1..n |-> k]]
      BY <1>3 DEF Generate
    <2>2. [k \in 1..n |-> k] \in Seq(Tokens)
      BY QueryOK DEF Tokens
    <2> QED
      BY <1>3, <2>1, <2>2, AttemptsTyped
         DEF Generate, Passes, At, Goes, retrieval, outcome, TypeInv, Stages, Attempts
  <1>4. CASE GenerateTimesOut(q) \/ StreamTimesOut(q)
    <2>1. TimesOut(q, Attempts(q))
      BY <1>4 DEF GenerateTimesOut, StreamTimesOut, Attempts
    <2>2. attempt[q] + 1 \in Nat /\ attempt[q] + 1 \in 1..Attempts(q) /\ 0 \in 0..MaxAnswer
      BY <2>1, QueryOK, AttemptsTyped DEF TimesOut, TypeInv
    <2>3. attempt' \in [Queries -> Nat] /\ \A p \in Queries : attempt'[p] \in 1..Attempts(p)
      BY <2>1, <2>2 DEF TimesOut, TypeInv
    <2>4. got' \in [Queries -> 0..MaxAnswer]
      BY <2>1, <2>2 DEF TimesOut, TypeInv
    <2> QED
      BY <2>1, <2>3, <2>4 DEF TimesOut, retrieval, outcome, TypeInv, Attempts
  <1>5. CASE GenerateUnavailable(q)
    BY <1>5, AttemptsTyped
       DEF GenerateUnavailable, Passes, At, Goes, retrieval, outcome, TypeInv, Stages, Attempts
  <1>6. CASE GenerateStream(q)
    <2>0. MaxAnswer \in Nat /\ got[q] \in 0..MaxAnswer /\ got[q] < MaxAnswer
      BY <1>6, QueryOK DEF GenerateStream, TypeInv, At
    <2>a. got[q] + 1 \in Tokens /\ got[q] + 1 \in Nat
      BY <2>0 DEF Tokens
    <2>1. got[q] + 1 \in Tokens /\ Event("token", got[q] + 1) \in Events
      BY <2>a, EventTyped
    <2>2. Append(answer[q], got[q] + 1) \in Seq(Tokens)
      BY <2>1 DEF TypeInv
    <2>3. Append(sent[q], Event("token", got[q] + 1)) \in Seq(Events)
      BY <2>1 DEF TypeInv
    <2>4. got[q] + 1 \in 0..MaxAnswer
      BY <2>1, QueryOK DEF Tokens
    <2> QED
      BY <1>6, <2>2, <2>3, <2>4 DEF GenerateStream, At, retrieval, TypeInv, Attempts
  <1>7. CASE StreamCompletes(q) \/ StreamUnavailable(q)
    <2>1. Event("complete", 0) \in Events /\ Event("error", 0) \in Events
      BY EventTyped
    <2>2. /\ Append(sent[q], Event("complete", 0)) \in Seq(Events)
          /\ Append(sent[q], Event("error", 0)) \in Seq(Events)
      BY <2>1 DEF TypeInv
    <2>3. sent' \in [Queries -> Seq(Events)]
      BY <1>7, <2>2 DEF StreamCompletes, StreamUnavailable, TypeInv
    <2>4. pc' \in [Queries -> Stages] /\ unavailable' \subseteq Queries
      BY <1>7 DEF StreamCompletes, StreamUnavailable, Passes, Goes, generation, TypeInv, Stages
    <2> QED
      BY <1>7, <2>3, <2>4
         DEF StreamCompletes, StreamUnavailable, retrieval, generation, TypeInv, Attempts
  <1>8. CASE FindExpert(q)
    BY <1>8 DEF FindExpert, Passes, At, Goes, retrieval, generation, TypeInv, Stages, Attempts
  <1>9. ASSUME NEW to \in Stages, Moves(q, to) PROVE TypeInv'
    BY <1>9 DEF Moves, Goes, retrieval, generation, outcome, TypeInv, Attempts
  <1>10. ASSUME NEW to \in Stages, Logs(q, to) PROVE TypeInv'
    BY <1>10 DEF Logs, Logged, At, Goes, retrieval, generation, TypeInv, Attempts
  <1>11. {"done", "failed", "left"} \subseteq Stages
    BY DEF Stages, Over
  <1> QED
    BY <1>1, <1>2, <1>3, <1>4, <1>5, <1>6, <1>7, <1>8, <1>9, <1>10, <1>11, StepKinds
       DEF TypeInv, Works

-----------------------------------------------------------------------------
(* What is true of a request *)

Early == {"new", "start", "search", "searching"}

\* What was found.
Found(q) ==
    /\ pc[q] \in Early => chunks[q] = << >> /\ q \notin searched
    /\ BestPermitted(q)
    /\ Len(chunks[q]) <= TopK

Ended(q) == sent[q] # << >> /\ Last(sent[q]).type \in {"complete", "error"}

\* What a stream has told its client.
Told(q) ==
    q \in Streamed =>
        /\ pc[q] # "route"
        /\ pc[q] \in Early \cup {"enrich"} =>
             sent[q] = << >> /\ got[q] = 0 /\ attempt[q] = 1 /\ answer[q] = << >>
        /\ sent[q] # << >> => sent[q][1] = Event("retrieval_done", Len(chunks[q]))
        /\ pc[q] = "generate" =>
             sent[q] # << >> /\ Last(sent[q]).type \in {"retrieval_done", "token"}
        /\ pc[q] \in {"audit", "done"} => Ended(q)

\* The tokens, each once and in order until the LLM begins again.
Numbered(q) ==
    /\ q \notin Streamed => \A k \in DOMAIN answer[q] : answer[q][k] = k
    /\ q \in Streamed /\ attempt[q] = 1 =>
         Len(answer[q]) = got[q] /\ \A k \in DOMAIN answer[q] : answer[q][k] = k

\* The audit row, which is the last that is written about the request.
Accounted(q) ==
    \/ audit[q] = << >> /\ pc[q] # "done"
    \/ audit[q] = <<Row(q)>> /\ pc[q] \in Over /\ (q \in Streamed => Ended(q))

RequestInv(q) == Found(q) /\ Told(q) /\ Numbered(q) /\ Accounted(q)

LEMMA RequestInit == ASSUME Init, NEW q \in Queries PROVE RequestInv(q)
  BY AnswersOK
     DEF Init, RequestInv, Found, Told, Numbered, Accounted, BestPermitted, LowConfidence,
                   ToSet, Early, Over

LEMMA RequestFrame ==
    ASSUME NEW p \in Queries, corpus' = corpus, Same(p), RequestInv(p)
    PROVE  RequestInv(p)'
  BY DEF Same, RequestInv, Found, Told, Numbered, Accounted, BestPermitted, LowConfidence,
         Row, Ended

\* A step that only moves the request on.
LEMMA RequestMoves ==
    ASSUME TypeInv, NEW q \in Queries, RequestInv(q), NEW to \in Stages,
           Moves(q, to), MayMove(pc[q], to)
    PROVE  RequestInv(q)'
  <1>1. /\ pc'[q] = to /\ corpus' = corpus /\ chunks' = chunks /\ searched' = searched
        /\ attempt' = attempt /\ got' = got /\ answer' = answer /\ sent' = sent /\ audit' = audit
    BY DEF Moves, Goes, TypeInv, retrieval, generation, outcome
  <1>2. Found(q)'
    BY <1>1 DEF RequestInv, Found, BestPermitted, LowConfidence, MayMove, Early, Over
  <1>3. Told(q)'
    BY <1>1 DEF RequestInv, Told, Ended, MayMove, Early, Over
  <1>4. Numbered(q)'
    BY <1>1 DEF RequestInv, Numbered
  <1>5. Accounted(q)'
    BY <1>1 DEF RequestInv, Accounted, Row, Ended, MayMove, Over
  <1> QED
    BY <1>2, <1>3, <1>4, <1>5 DEF RequestInv

LEMMA RequestLogs ==
    ASSUME TypeInv, NEW q \in Queries, RequestInv(q), NEW to \in {"done", "failed", "left"},
           Logs(q, to)
    PROVE  RequestInv(q)'
  <1>1. /\ pc[q] = "audit" /\ pc'[q] = to /\ corpus' = corpus /\ chunks' = chunks
        /\ searched' = searched /\ attempt' = attempt /\ got' = got /\ answer' = answer
        /\ sent' = sent
    BY DEF Logs, At, Goes, TypeInv, retrieval, generation
  <1>2. Found(q)'
    BY <1>1 DEF RequestInv, Found, BestPermitted, LowConfidence, Early
  <1>3. Told(q)'
    BY <1>1 DEF RequestInv, Told, Ended, Early
  <1>4. Numbered(q)'
    BY <1>1 DEF RequestInv, Numbered
  <1>5. Accounted(q)'
    <2>1. audit[q] = << >>
      BY <1>1 DEF RequestInv, Accounted, Over
    <2>2. audit'[q] = <<Row(q)>>
      BY <2>1 DEF Logs, Logged, TypeInv
    <2>3. Row(q)' = Row(q)
      BY <1>1 DEF Row
    <2> QED
      BY <1>1, <2>2, <2>3 DEF RequestInv, Accounted, Told, Ended, Over
  <1> QED
    BY <1>2, <1>3, <1>4, <1>5 DEF RequestInv

LEMMA LastAppended ==
    ASSUME NEW S, NEW s \in Seq(S), NEW e \in S
    PROVE  /\ Append(s, e) # << >> /\ Last(Append(s, e)) = e
           /\ s # << >> => Append(s, e)[1] = s[1]
  <1> DEFINE a == Append(s, e)
  <1>1. /\ a # << >> /\ Len(a) = Len(s) + 1 /\ Len(s) \in Nat
        /\ \A i \in 1..Len(s) : a[i] = s[i]
        /\ a[Len(s) + 1] = e
    BY AppendProperties, LenProperties
  <1>2. s # << >> => Len(s) \in Nat \ {0}
    BY EmptySeq
  <1> HIDE DEF a
  <1>3. Last(a) = e
    BY <1>1 DEF Last
  <1>4. s # << >> => a[1] = s[1]
    BY <1>1, <1>2
  <1> QED
    BY <1>1, <1>3, <1>4 DEF a

LEMMA RequestWorks ==
    ASSUME TypeInv, NEW q \in Queries, RequestInv(q), Works(q)
    PROVE  RequestInv(q)'
  <1>1. pc[q] \notin Over /\ audit[q] = << >>
    BY DEF Works, SearchReturns, Enrich, Generate, GenerateTimesOut, GenerateUnavailable,
           GenerateStream, StreamTimesOut, TimesOut, StreamCompletes, StreamUnavailable,
           FindExpert, Passes, At, Over, RequestInv, Accounted
  <1>2. audit'[q] = << >> /\ pc'[q] # "done" /\ corpus' = corpus
    BY <1>1 DEF Works, SearchReturns, Enrich, Generate, GenerateTimesOut, GenerateUnavailable,
           GenerateStream, StreamTimesOut, TimesOut, StreamCompletes, StreamUnavailable,
           FindExpert, Passes, At, Goes, TypeInv, retrieval, generation, outcome, Over
  <1>3. Accounted(q)'
    BY <1>2 DEF Accounted
  <1>4. CASE SearchReturns(q)
    <2>1. PICK s \in Results(q, corpus) : chunks' = [chunks EXCEPT ![q] = s]
      BY <1>4 DEF SearchReturns
    <2>2. /\ chunks'[q] = s /\ pc[q] = "searching" /\ pc'[q] = "enrich"
          /\ q \in searched' /\ attempt' = attempt /\ got' = got /\ answer' = answer /\ sent' = sent
      BY <1>4, <2>1 DEF SearchReturns, Passes, At, Goes, TypeInv, generation, outcome
    <2>3. Found(q)'
      BY <1>2, <2>2, ResultsTyped DEF Found, BestPermitted, TypeInv, Early
    <2> QED
      BY <1>3, <2>2, <2>3 DEF RequestInv, Told, Numbered, Early, Ended
  <1>5. CASE Enrich(q)
    <2>1. /\ chunks' = chunks /\ pc[q] = "enrich" /\ pc'[q] = "generate" /\ searched' = searched
          /\ attempt' = attempt /\ got' = got /\ answer' = answer
          /\ q \in Streamed => sent'[q] = <<Event("retrieval_done", Len(chunks[q]))>>
      BY <1>5 DEF Enrich, Passes, At, Goes, TypeInv, retrieval, generation
    <2>2. Found(q)'
      BY <1>2, <2>1 DEF RequestInv, Found, BestPermitted, LowConfidence, Early
    <2>3. ASSUME q \in Streamed
          PROVE  /\ sent'[q] # << >> /\ sent'[q][1] = Event("retrieval_done", Len(chunks[q]))
                 /\ Last(sent'[q]).type = "retrieval_done"
      <3> DEFINE e == Event("retrieval_done", Len(chunks[q]))
      <3>1. e.type = "retrieval_done"
        BY DEF Event
      <3> HIDE DEF e
      <3> QED
        BY <2>1, <2>3, <3>1 DEF Last, e
    <2>4. Told(q)'
      BY <2>1, <2>3 DEF Told, Early
    <2> QED
      BY <1>3, <2>1, <2>2, <2>4 DEF RequestInv, Numbered
  <1>6. CASE Generate(q) \/ GenerateTimesOut(q) \/ GenerateUnavailable(q) \/ FindExpert(q)
    <2>1. q \notin Streamed /\ chunks' = chunks /\ searched' = searched /\ pc'[q] \notin Early
      BY <1>6
         DEF Generate, GenerateTimesOut, TimesOut, GenerateUnavailable, FindExpert, Passes, At,
                  Goes, TypeInv, retrieval, Early, RequestInv, Told
    <2>2. Found(q)'
      BY <1>2, <2>1 DEF RequestInv, Found, BestPermitted, LowConfidence
    <2>3. \A k \in DOMAIN answer'[q] : answer'[q][k] = k
      <3>1. CASE Generate(q)
        <4>1. PICK n \in 0..MaxAnswer : answer' = [answer EXCEPT ![q] = [k \in 1..n |-> k]]
          BY <3>1 DEF Generate
        <4> QED
          BY <4>1 DEF TypeInv
      <3>2. CASE answer' = answer
        BY <2>1, <3>2 DEF RequestInv, Numbered
      <3> QED
        BY <1>6, <3>1, <3>2
           DEF GenerateTimesOut, TimesOut, GenerateUnavailable, FindExpert, generation
    <2> QED
      BY <1>3, <2>1, <2>2, <2>3 DEF RequestInv, Told, Numbered
  <1>7. CASE GenerateStream(q)
    <2> DEFINE e == Event("token", got[q] + 1)
    <2>1. /\ q \in Streamed /\ pc[q] = "generate" /\ pc' = pc /\ chunks' = chunks
          /\ searched' = searched /\ attempt' = attempt /\ got'[q] = got[q] + 1
          /\ answer'[q] = Append(answer[q], got[q] + 1)
          /\ sent'[q] = Append(sent[q], e)
      BY <1>7 DEF GenerateStream, At, TypeInv, retrieval
    <2>2. e \in Events /\ e.type = "token" /\ got[q] \in Nat
      <3>1. got[q] \in Nat /\ got[q] + 1 \in Nat
        BY QueryOK DEF TypeInv
      <3> QED
        BY <3>1, EventTyped
    <2>3. Told(q)'
      <3>1. sent[q] \in Seq(Events)
        BY DEF TypeInv
      <3> HIDE DEF e
      <3>2. sent'[q] # << >> /\ Last(sent'[q]) = e /\ sent'[q][1] = sent[q][1]
        BY <2>1, <2>2, <3>1, LastAppended DEF RequestInv, Told
      <3> QED
        BY <2>1, <2>2, <3>2 DEF RequestInv, Told, Early
    <2>4. Found(q)'
      BY <1>2, <2>1 DEF RequestInv, Found, BestPermitted, LowConfidence
    <2>5. Numbered(q)'
      <3>1. answer[q] \in Seq(Nat)
        BY QueryOK DEF TypeInv, Tokens
      <3>2. SUFFICES ASSUME attempt[q] = 1
                     PROVE  /\ Len(answer'[q]) = got'[q]
                            /\ \A k \in DOMAIN answer'[q] : answer'[q][k] = k
        BY <2>1 DEF Numbered
      <3>3. Len(answer[q]) = got[q] /\ \A k \in DOMAIN answer[q] : answer[q][k] = k
        BY <2>1, <3>2 DEF RequestInv, Numbered
      <3> QED
        BY <2>1, <2>2, <3>1, <3>3
    <2> QED
      BY <1>3, <2>3, <2>4, <2>5 DEF RequestInv
  <1>8. CASE StreamTimesOut(q)
    <2>1. /\ q \in Streamed /\ pc[q] = "generate" /\ pc' = pc /\ chunks' = chunks
          /\ searched' = searched /\ attempt'[q] = attempt[q] + 1 /\ sent' = sent
          /\ attempt[q] \in Nat \ {0}
      BY <1>8, QueryOK DEF StreamTimesOut, TimesOut, At, TypeInv, retrieval, outcome, Attempts
    <2>2. Found(q)' /\ Told(q)'
      BY <1>2, <2>1 DEF RequestInv, Found, BestPermitted, LowConfidence, Told, Early, Ended
    <2> QED
      BY <1>3, <2>1, <2>2 DEF RequestInv, Numbered
  <1>9. CASE StreamCompletes(q) \/ StreamUnavailable(q)
    <2>1. PICK e \in Events : e.type \in {"complete", "error"} /\ sent'[q] = Append(sent[q], e)
      <3>1. CASE StreamCompletes(q)
        <4>1. sent'[q] = Append(sent[q], Event("complete", 0))
          BY <3>1 DEF StreamCompletes, TypeInv
        <4> QED
          BY <4>1, EventTyped
      <3>2. CASE StreamUnavailable(q)
        <4>1. sent'[q] = Append(sent[q], Event("error", 0))
          BY <3>2 DEF StreamUnavailable, TypeInv
        <4> QED
          BY <4>1, EventTyped
      <3> QED
        BY <1>9, <3>1, <3>2
    <2>2. /\ q \in Streamed /\ pc[q] = "generate" /\ pc'[q] = "audit" /\ chunks' = chunks
          /\ searched' = searched /\ attempt' = attempt /\ got' = got /\ answer' = answer
      BY <1>9
         DEF StreamCompletes, StreamUnavailable, Passes, At, Goes, TypeInv, retrieval,
             generation
    <2>3. sent[q] \in Seq(Events) /\ sent[q] # << >>
      BY <2>2 DEF TypeInv, RequestInv, Told
    <2>4. sent'[q] # << >> /\ Last(sent'[q]) = e /\ sent'[q][1] = sent[q][1]
      BY <2>1, <2>3, LastAppended
    <2>5. Told(q)'
      BY <2>1, <2>2, <2>3, <2>4 DEF RequestInv, Told, Early, Ended
    <2> QED
      BY <1>2, <1>3, <2>2, <2>5
         DEF RequestInv, Found, BestPermitted, LowConfidence, Numbered, Early
  <1> QED
    BY <1>4, <1>5, <1>6, <1>7, <1>8, <1>9 DEF Works

LEMMA RequestStep ==
    ASSUME TypeInv, \A p \in Queries : RequestInv(p), NEW q \in Queries, Step(q)
    PROVE  \A p \in Queries : RequestInv(p)'
  <1>1. RequestInv(q)'
    <2>1. ASSUME NEW to \in Stages, Moves(q, to), MayMove(pc[q], to) PROVE RequestInv(q)'
      BY <2>1, RequestMoves
    <2>2. ASSUME NEW to \in {"done", "failed", "left"}, Logs(q, to) PROVE RequestInv(q)'
      BY <2>2, RequestLogs
    <2>3. CASE Works(q)
      BY <2>3, RequestWorks
    <2> QED
      BY <2>1, <2>2, <2>3, StepKinds DEF TypeInv
  <1>2. ASSUME NEW p \in Queries \ {q} PROVE RequestInv(p)'
    BY Frame, RequestFrame
  <1> QED
    BY <1>1, <1>2

-----------------------------------------------------------------------------
(* The pool *)

Searching == {q \in Queries : pc[q] = "searching"}

PoolInv ==
    /\ IsFiniteSet(held) /\ IsFiniteSet(Searching) /\ InUse <= PoolSize
    /\ \A q \in held : pc[q] = "done" => q \in Streamed

LEMMA PoolInit == ASSUME Init PROVE PoolInv
  <1>1. held = {} /\ Searching = {}
    BY DEF Init, Searching
  <1>2. IsFiniteSet({}) /\ Cardinality({}) = 0
    BY FS_EmptySet
  <1>3. InUse = Cardinality(held) + Cardinality(Searching)
    BY DEF InUse, Searching
  <1>4. InUse <= PoolSize
    BY <1>1, <1>2, <1>3, QueryOK
  <1>5. IsFiniteSet(held) /\ IsFiniteSet(Searching)
    BY <1>1, <1>2
  <1>6. \A q \in held : pc[q] = "done" => q \in Streamed
    BY <1>1
  <1> QED
    BY <1>4, <1>5, <1>6 DEF PoolInv

\* A connection is taken only while there is a spare one.
LEMMA PoolKinds ==
    ASSUME TypeInv, NEW q \in Queries, Step(q)
    PROVE  \/ held' \subseteq held /\ Searching' \subseteq Searching
           \/ Spare /\ held' = held \cup {q} /\ Searching' \subseteq Searching
           \/ Spare /\ held' = held /\ Searching' \subseteq Searching \cup {q}
  <1>1. CASE Retrieve(q)
    BY <1>1
       DEF Retrieve, GetCurrentUser, AdmissionFails, StreamQuery, SearchBegins, SearchReturns,
                SearchTimesOut, Enrich, Raises, Passes, At, Goes, Searching, TypeInv
  <1>2. CASE Answer(q)
    BY <1>2
       DEF Answer, Generate, GenerateTimesOut, TimesOut, GenerateUnavailable, GenerateStream,
                StreamTimesOut, StreamCompletes, StreamUnavailable, Passes, At, Goes,
                Searching, TypeInv
  <1>3. CASE Finish(q)
    BY <1>3
       DEF Finish, FindExpert, LogQuery, LogQueryTimesOut, HasSession, Raises, Passes, At, Goes,
                Searching, TypeInv
  <1>4. CASE Fails(q)
    BY <1>4
       DEF Fails, EmbedFails, SearchFails, EnrichFails, LLMBreaks, FindExpertFails,
           LogQueryFails,
                Raises, Passes, At, Goes, Searching, TypeInv
  <1>5. CASE Disconnect(q) \/ Collect(q)
    BY <1>5 DEF Disconnect, Collect, Goes, Searching, TypeInv
  <1> QED
    BY <1>1, <1>2, <1>3, <1>4, <1>5 DEF Step, Advance

\* Only the collector touches a request that was answered ...
LEMMA DoneStays ==
    ASSUME TypeInv, NEW q \in Queries, Step(q), pc[q] = "done"
    PROVE  Collect(q)
  BY DEF Step, Advance, Retrieve, GetCurrentUser, AdmissionFails, StreamQuery, SearchBegins,
         SearchReturns, SearchTimesOut, Enrich, Answer, Generate, GenerateTimesOut, TimesOut,
         GenerateUnavailable, GenerateStream, StreamTimesOut, StreamCompletes,
         StreamUnavailable,
         Finish, FindExpert, LogQuery, LogQueryTimesOut, Fails, EmbedFails, SearchFails,
         EnrichFails,
         LLMBreaks, FindExpertFails, LogQueryFails, Disconnect, Passes, At, Over

\* ... and a POST that was answered has given its connection back.
LEMMA BecomesDone ==
    ASSUME TypeInv, NEW q \in Queries, Step(q), pc[q] # "done", pc'[q] = "done", q \in held'
    PROVE  q \in Streamed
  <1>1. ~Works(q)
    BY
       DEF Works, SearchReturns, Enrich, Generate, GenerateTimesOut, TimesOut,
           GenerateUnavailable,
           GenerateStream, StreamTimesOut, StreamCompletes, StreamUnavailable, FindExpert,
           Passes, At,
           Goes, TypeInv
  <1>2. CASE LogQuery(q)
    BY <1>2 DEF LogQuery
  <1> QED
    BY <1>1, <1>2
       DEF Step, Advance, Retrieve, Answer, Finish, Works, GetCurrentUser, AdmissionFails,
           StreamQuery, SearchBegins, SearchTimesOut, LogQueryTimesOut, Fails, EmbedFails,
           SearchFails,
           EnrichFails, LLMBreaks, FindExpertFails, LogQueryFails, Raises, Disconnect, Collect,
           Passes,
           At, Goes, TypeInv

LEMMA OneMore ==
    ASSUME NEW S, NEW x, IsFiniteSet(S)
    PROVE  /\ IsFiniteSet(S \cup {x}) /\ Cardinality(S \cup {x}) \in Nat
           /\ Cardinality(S \cup {x}) <= Cardinality(S) + 1
  <1>1. /\ IsFiniteSet(S \cup {x})
        /\ Cardinality(S \cup {x}) = IF x \in S THEN Cardinality(S) ELSE Cardinality(S) + 1
    BY FS_AddElement
  <1>2. Cardinality(S) \in Nat
    BY FS_CardinalityType
  <1> QED
    BY <1>1, <1>2

LEMMA PoolStep ==
    ASSUME TypeInv, PoolInv, NEW q \in Queries, Step(q)
    PROVE  PoolInv'
  <1>1. /\ IsFiniteSet(held) /\ Cardinality(held) \in Nat
        /\ IsFiniteSet(Searching) /\ Cardinality(Searching) \in Nat
        /\ InUse = Cardinality(held) + Cardinality(Searching) /\ InUse <= PoolSize
    BY FS_CardinalityType DEF PoolInv, InUse, Searching
  <1>2. InUse' = Cardinality(held') + Cardinality(Searching')
    BY DEF InUse, Searching
  <1>3. /\ IsFiniteSet(held \cup {q}) /\ Cardinality(held \cup {q}) \in Nat
        /\ Cardinality(held \cup {q}) <= Cardinality(held) + 1
        /\ IsFiniteSet(Searching \cup {q}) /\ Cardinality(Searching \cup {q}) \in Nat
        /\ Cardinality(Searching \cup {q}) <= Cardinality(Searching) + 1
    BY <1>1, OneMore
  <1>4. IsFiniteSet(held') /\ IsFiniteSet(Searching') /\ InUse' <= PoolSize
    <2>1. ASSUME NEW H, NEW W, IsFiniteSet(H), IsFiniteSet(W),
                 Cardinality(H) + Cardinality(W) <= PoolSize,
                 held' \subseteq H, Searching' \subseteq W
          PROVE  IsFiniteSet(held') /\ IsFiniteSet(Searching') /\ InUse' <= PoolSize
      <3>1. /\ IsFiniteSet(held') /\ Cardinality(held') <= Cardinality(H)
            /\ IsFiniteSet(Searching') /\ Cardinality(Searching') <= Cardinality(W)
        BY <2>1, FS_Subset
      <3>2. /\ Cardinality(held') \in Nat /\ Cardinality(H) \in Nat
            /\ Cardinality(Searching') \in Nat /\ Cardinality(W) \in Nat
        BY <2>1, <3>1, FS_CardinalityType
      <3> QED
        BY <1>2, <2>1, <3>1, <3>2, QueryOK
    <2>2. CASE held' \subseteq held /\ Searching' \subseteq Searching
      BY <1>1, <2>1, <2>2
    <2>3. CASE Spare /\ held' = held \cup {q} /\ Searching' \subseteq Searching
      <3>1. Cardinality(held \cup {q}) + Cardinality(Searching) <= PoolSize
        BY <1>1, <1>3, <2>3, QueryOK DEF Spare
      <3> QED
        BY <1>1, <1>3, <2>1, <2>3, <3>1
    <2>4. CASE Spare /\ held' = held /\ Searching' \subseteq Searching \cup {q}
      <3>1. Cardinality(held) + Cardinality(Searching \cup {q}) <= PoolSize
        BY <1>1, <1>3, <2>4, QueryOK DEF Spare
      <3> QED
        BY <1>1, <1>3, <2>1, <2>4, <3>1
    <2> QED
      BY <2>2, <2>3, <2>4, PoolKinds
  <1>5. ASSUME NEW p \in held', pc'[p] = "done" PROVE p \in Streamed
    <2>1. CASE p # q
      <3>1. p \in Queries \ {q}
        BY <1>5, <2>1, TypeStep DEF TypeInv
      <3> QED
        BY <1>5, <3>1, Frame DEF PoolInv, Same
    <2>2. CASE p = q
      <3>1. CASE pc[q] = "done"
        BY <1>5, <2>2, <3>1, DoneStays DEF Collect, PoolInv
      <3>2. CASE pc[q] # "done"
        BY <1>5, <2>2, <3>2, BecomesDone
      <3> QED
        BY <3>1, <3>2
    <2> QED
      BY <2>1, <2>2
  <1> QED
    BY <1>4, <1>5 DEF PoolInv

-----------------------------------------------------------------------------
(* The prompt *)

\* A state of the loop of PromptBuilder.
Turned == [kept : Seq(Chunk), left : Int, open : BOOLEAN]

\* What is known of a sequence of chunks and of its members.
LEMMA ChunksTyped ==
    ASSUME NEW s \in Seq(Chunk)
    PROVE  /\ Len(s) \in Nat /\ DOMAIN s = 1..Len(s) /\ \A i \in 1..Len(s) : s[i] \in Chunk
           /\ \A c \in Chunk : c.url \in Urls \cup {NoUrl} /\ c.score \in Nat /\ c.tokens \in Nat
  <1>1. Len(s) \in Nat /\ DOMAIN s = 1..Len(s)
    BY LenProperties
  <1>2. \A i \in 1..Len(s) : s[i] \in Chunk
    BY ElementOfSeq
  <1>3. \A c \in Chunk : c.url \in Urls \cup {NoUrl} /\ c.score \in Nat /\ c.tokens \in Nat
    BY DEF Chunk
  <1> QED
    BY <1>1, <1>2, <1>3

\* Chunks have no more urls than there are chunks.
LEMMA UrlsFinite ==
    ASSUME NEW s \in Seq(Chunk)
    PROVE  /\ IsFiniteSet(UrlsOf(s)) /\ Cardinality(UrlsOf(s)) \in Nat
           /\ Cardinality(UrlsOf(s)) <= Len(s)
  <1> DEFINE D == 1..Len(s)
             U == {s[i].url : i \in D}
  <1>1. Len(s) \in Nat /\ DOMAIN s = 1..Len(s)
    BY ChunksTyped
  <1>2. IsFiniteSet(D) /\ Cardinality(D) = Len(s)
    BY <1>1, FS_Interval
  <1> DEFINE f == [i \in D |-> s[i].url]
  <1>3. f \in Surjection(D, U)
    BY DEF Surjection
  <1>4. IsFiniteSet(U) /\ Cardinality(U) <= Len(s)
    <2> HIDE DEF f, U, D
    <2> QED
      BY <1>2, <1>3, FS_Surjection
  <1>5. UrlsOf(s) \subseteq U
    BY <1>1 DEF UrlsOf, ToSet
  <1> HIDE DEF U
  <1>6. IsFiniteSet(UrlsOf(s)) /\ Cardinality(UrlsOf(s)) <= Cardinality(U)
    BY <1>4, <1>5, FS_Subset
  <1> QED
    BY <1>1, <1>4, <1>6, FS_CardinalityType

LEMMA AvailableTyped ==
    ASSUME NEW q \in Queries, NEW s \in Seq(Chunk)
    PROVE  Available(q, s) \in Int
  <1>1. IsFiniteSet(Enriched(s))
    BY UrlsFinite, FS_Subset DEF Enriched
  <1>2. Cardinality(Enriched(s)) \in Nat
    BY <1>1, FS_CardinalityType
  <1> DEFINE n == Cardinality(Enriched(s))
             a == IF LowConfidence(s) THEN Addendum ELSE 0
  <1>3. GraphTokens \in Nat /\ Overhead[q] \in Nat /\ MaxTokens \in Nat /\ n \in Nat /\ a \in Nat
    BY <1>2, AnswersOK
  <1> HIDE DEF n, a
  <1>4. MaxTokens - Overhead[q] - GraphTokens * n - a \in Int
    BY <1>3
  <1> QED
    BY <1>4 DEF Available, n, a

\* A turn of the loop makes a state of the loop of one.
LEMMA FitTyped ==
    ASSUME NEW x \in Turned, NEW c \in Chunk
    PROVE  Fit(x, c) \in Turned
  <1>1. /\ x.kept \in Seq(Chunk) /\ x.left \in Int /\ c.tokens \in Nat
        /\ DOMAIN x = {"kept", "left", "open"} /\ x.open \in BOOLEAN
    BY DEF Turned, Chunk
  <1>2. Append(x.kept, c) \in Seq(Chunk) /\ x.left - c.tokens \in Int
    BY <1>1
  <1>3. CASE x.open /\ x.left - c.tokens > 0
    <2>1. Fit(x, c) = [x EXCEPT !.kept = Append(x.kept, c), !.left = x.left - c.tokens]
      BY <1>3 DEF Fit
    <2> QED
      BY <1>1, <1>2, <2>1 DEF Turned
  <1>4. CASE ~(x.open /\ x.left - c.tokens > 0)
    BY <1>4 DEF Fit, Turned
  <1> QED
    BY <1>3, <1>4

\* The recursive function Fitted has its equations, and its values are typed.
LEMMA FittedIs ==
    ASSUME NEW q \in Queries, NEW cs \in Seq(Chunk)
    PROVE  /\ Fitted(q, cs) \in [0..Len(cs) -> Turned]
           /\ Fitted(q, cs)[0] =
                [kept |-> << >>, left |-> Available(q, cs), open |-> TRUE]
           /\ \A n \in 1..Len(cs) :
                Fitted(q, cs)[n] = Fit(Fitted(q, cs)[n - 1], cs[n])
  <1> DEFINE N == Len(cs)
             x0 == [kept |-> << >>, left |-> Available(q, cs), open |-> TRUE]
             step == [x \in Turned \X (1..N) |-> Fit(x[1], cs[x[2]])]
             G(f) == [n \in 0..N |-> IF n = 0 THEN x0 ELSE Fit(f[n - 1], cs[n])]
  <1>1. N \in Nat /\ \A i \in 1..N : cs[i] \in Chunk
    BY ChunksTyped
  <1>2. x0 \in Turned
    BY AvailableTyped DEF Turned
  <1>3. step \in LoopTurns(Turned, N)
    BY <1>1, FitTyped DEF LoopTurns
  <1>4. PICK f : LoopRun(f, Turned, N, x0, step)
    <2> HIDE DEF N, x0, step
    <2> QED
      BY <1>1, <1>2, <1>3, LoopRuns
  <1>5. f \in [0..N -> Turned] /\ f[0] = x0
    BY <1>4 DEF LoopRun
  <1>6. \A i \in 1..N : f[i] = Fit(f[i - 1], cs[i])
    <2> TAKE i \in 1..N
    <2>1. i - 1 \in 0..N /\ <<f[i - 1], i>> \in Turned \X (1..N)
      BY <1>1, <1>5
    <2>2. f[i] = step[<<f[i - 1], i>>]
      BY <1>4 DEF LoopRun
    <2> QED
      BY <2>1, <2>2
  <1>7. f = G(f)
    BY <1>1, <1>5, <1>6
  <1>8. Fitted(q, cs) = CHOOSE g : g = G(g)
    BY DEF Fitted
  <1> DEFINE F == Fitted(q, cs)
  <1> HIDE DEF G, F
  <1>9. F = G(F)
    BY <1>7, <1>8, Zenon DEF F
  <1>10. F[0] = x0 /\ \A n \in 1..N : F[n] = Fit(F[n - 1], cs[n])
    <2>1. F = [n \in 0..N |-> IF n = 0 THEN x0 ELSE Fit(F[n - 1], cs[n])]
      BY <1>9 DEF G
    <2> HIDE DEF x0, N
    <2> QED
      BY <1>1, <2>1
  <1>11. LoopRun(F, Turned, N, x0, step)
    <2>1. DOMAIN F = 0..N /\ F = [i \in DOMAIN F |-> F[i]]
      BY <1>9 DEF G
    <2>2. \A i \in 1..N : F[i - 1] \in Turned => F[i] = step[<<F[i - 1], i>>]
      BY <1>10
    <2> HIDE DEF step, x0, N
    <2> QED
      BY <1>1, <1>2, <1>3, <1>10, <2>1, <2>2, LoopTyped
  <1> QED
    BY <1>10, <1>11 DEF F, LoopRun

\* So has the sum of TokensOf.
LEMMA TokensAre ==
    ASSUME NEW s \in Seq(Chunk)
    PROVE  \E f \in [0..Len(s) -> Nat] :
               /\ f[0] = 0 /\ \A n \in 1..Len(s) : f[n] = f[n - 1] + s[n].tokens
               /\ TokensOf(s) = f[Len(s)]
  <1> DEFINE N == Len(s)
             step == [x \in Nat \X (1..N) |-> x[1] + s[x[2]].tokens]
             G(f) == [n \in 0..N |-> IF n = 0 THEN 0 ELSE f[n - 1] + s[n].tokens]
             F == CHOOSE g : g = G(g)
  <1>1. N \in Nat /\ \A i \in 1..N : s[i].tokens \in Nat
    BY ChunksTyped
  <1>2. step \in LoopTurns(Nat, N)
    BY <1>1 DEF LoopTurns
  <1>3. PICK f : LoopRun(f, Nat, N, 0, step)
    <2> HIDE DEF N, step
    <2> QED
      BY <1>1, <1>2, LoopRuns
  <1>4. f \in [0..N -> Nat] /\ f[0] = 0
    BY <1>3 DEF LoopRun
  <1>5. \A i \in 1..N : f[i] = f[i - 1] + s[i].tokens
    <2> TAKE i \in 1..N
    <2>1. i - 1 \in 0..N /\ <<f[i - 1], i>> \in Nat \X (1..N)
      BY <1>1, <1>4
    <2>2. f[i] = step[<<f[i - 1], i>>]
      BY <1>3 DEF LoopRun
    <2> QED
      BY <2>1, <2>2
  <1>6. f = G(f)
    BY <1>1, <1>4, <1>5
  <1>7. TokensOf(s) = F[N]
    BY DEF TokensOf
  <1> HIDE DEF G
  <1>8. F = G(F)
    BY <1>6, Zenon
  <1> HIDE DEF F
  <1>9. F[0] = 0 /\ \A n \in 1..N : F[n] = F[n - 1] + s[n].tokens
    <2>1. F = [n \in 0..N |-> IF n = 0 THEN 0 ELSE F[n - 1] + s[n].tokens]
      BY <1>8 DEF G
    <2> HIDE DEF N
    <2> QED
      BY <1>1, <2>1
  <1>10. LoopRun(F, Nat, N, 0, step)
    <2>1. DOMAIN F = 0..N /\ F = [i \in DOMAIN F |-> F[i]]
      BY <1>8 DEF G
    <2>2. \A i \in 1..N : F[i - 1] \in Nat => F[i] = step[<<F[i - 1], i>>]
      BY <1>9
    <2> HIDE DEF step, N
    <2> QED
      BY <1>1, <1>2, <1>9, <2>1, <2>2, LoopTyped
  <1> QED
    BY <1>7, <1>9, <1>10 DEF LoopRun

LEMMA TokensAppended ==
    ASSUME NEW s \in Seq(Chunk), NEW c \in Chunk
    PROVE  TokensOf(Append(s, c)) = TokensOf(s) + c.tokens
  <1> DEFINE t == Append(s, c)
             N == Len(s)
  <1>1. /\ t \in Seq(Chunk) /\ N \in Nat /\ Len(t) = N + 1 /\ t[N + 1] = c
        /\ \A i \in 1..N : t[i] = s[i]
    BY AppendProperties, LenProperties
  <1>2. PICK f \in [0..N -> Nat] :
            /\ f[0] = 0 /\ \A n \in 1..N : f[n] = f[n - 1] + s[n].tokens
            /\ TokensOf(s) = f[N]
    BY TokensAre
  <1>3. PICK g \in [0..(N + 1) -> Nat] :
            /\ g[0] = 0 /\ \A n \in 1..(N + 1) : g[n] = g[n - 1] + t[n].tokens
            /\ TokensOf(t) = g[N + 1]
    <2>1. \E g \in [0..Len(t) -> Nat] :
            /\ g[0] = 0 /\ \A n \in 1..Len(t) : g[n] = g[n - 1] + t[n].tokens
            /\ TokensOf(t) = g[Len(t)]
      BY <1>1, TokensAre
    <2> QED
      BY <1>1, <2>1
  <1> HIDE DEF t, N
  <1>4. \A n \in 0..N : f[n] = g[n]
    <2> DEFINE T == {n \in 0..N : f[n] = g[n]}
    <2>1. 0 \in T
      BY <1>1, <1>2, <1>3
    <2>2. ASSUME NEW i \in 1..N, i - 1 \in T
          PROVE  i \in T
      <3>1. f[i] = f[i - 1] + s[i].tokens
        BY <1>2
      <3>2. g[i] = g[i - 1] + t[i].tokens
        BY <1>1, <1>3
      <3> QED
        BY <1>1, <2>2, <3>1, <3>2
    <2> HIDE DEF T
    <2>3. 0..N \subseteq T
      BY <1>1, <2>1, <2>2, Induction
    <2> QED
      BY <2>3 DEF T
  <1>5. TokensOf(t) = TokensOf(s) + c.tokens
    <2>1. g[N + 1] = g[N + 1 - 1] + t[N + 1].tokens
      BY <1>1, <1>3
    <2>2. N + 1 - 1 = N /\ N \in 0..N
      BY <1>1
    <2> QED
      BY <1>1, <1>2, <1>3, <1>4, <2>1, <2>2
  <1> QED
    BY <1>5 DEF t

LEMMA TokensNat ==
    ASSUME NEW s \in Seq(Chunk)
    PROVE  TokensOf(s) \in Nat
  <1>1. Len(s) \in Nat
    BY ChunksTyped
  <1>2. PICK f \in [0..Len(s) -> Nat] : TokensOf(s) = f[Len(s)]
    BY TokensAre
  <1> QED
    BY <1>1, <1>2

LEMMA TokensEmpty == TokensOf(<< >>) = 0
  <1>1. << >> \in Seq(Chunk) /\ Len(<< >>) = 0
    OBVIOUS
  <1>2. PICK h \in [0..Len(<< >>) -> Nat] : h[0] = 0 /\ TokensOf(<< >>) = h[Len(<< >>)]
    BY <1>1, TokensAre
  <1> QED
    BY <1>1, <1>2

\* The loop keeps the chunks from the first on, until one does not fit.
Fitting(q, cs, n, x) ==
    /\ Len(x.kept) <= n
    /\ \A k \in 1..Len(x.kept) : x.kept[k] = cs[k]
    /\ x.left = Available(q, cs) - TokensOf(x.kept)
    /\ x.kept # << >> => x.left > 0
    /\ x.open => Len(x.kept) = n
    /\ ~x.open => Len(x.kept) < n /\ x.left - cs[Len(x.kept) + 1].tokens <= 0

\* A turn keeps what is said of the loop.
LEMMA FitTurn ==
    ASSUME NEW q \in Queries, NEW cs \in Seq(Chunk), NEW n \in 1..Len(cs),
           NEW x \in Turned, Fitting(q, cs, n - 1, x)
    PROVE  Fitting(q, cs, n, Fit(x, cs[n]))
  <1> DEFINE c == cs[n]
             y == Fit(x, c)
             m == Len(x.kept)
  <1>1. /\ Len(cs) \in Nat /\ n \in Nat /\ n >= 1 /\ c \in Chunk /\ c.tokens \in Nat
        /\ \A k \in 1..Len(cs) : cs[k].tokens \in Nat
    BY ChunksTyped
  <1>2. x.kept \in Seq(Chunk) /\ x.left \in Int /\ m \in Nat /\ x.open \in BOOLEAN
    BY ChunksTyped DEF Turned
  <1>3. /\ DOMAIN x = {"kept", "left", "open"} /\ y \in Turned
    BY <1>1, FitTyped DEF Turned
  <1>4. Available(q, cs) \in Int /\ TokensOf(x.kept) \in Nat
    BY <1>1, <1>2, AvailableTyped, TokensNat
  <1>5. CASE x.open /\ x.left - c.tokens > 0
    <2> DEFINE k2 == Append(x.kept, c)
    <2>1. y.kept = k2 /\ y.left = x.left - c.tokens /\ y.open
      BY <1>3, <1>5 DEF Fit, Turned
    <2>2. Len(k2) = m + 1 /\ k2[m + 1] = c /\ \A i \in 1..m : k2[i] = x.kept[i]
      BY <1>1, <1>2, AppendProperties
    <2>3. TokensOf(k2) = TokensOf(x.kept) + c.tokens
      BY <1>1, <1>2, TokensAppended
    <2>4. m = n - 1 /\ x.left = Available(q, cs) - TokensOf(x.kept)
          /\ \A i \in 1..m : x.kept[i] = cs[i]
      BY <1>5 DEF Fitting
    <2> HIDE DEF k2, m, y
    <2>5. Len(k2) = n /\ \A i \in 1..Len(k2) : k2[i] = cs[i]
      <3>1. Len(k2) = n
        BY <1>1, <2>2, <2>4
      <3>2. ASSUME NEW i \in 1..Len(k2) PROVE k2[i] = cs[i]
        <4>1. CASE i = n
          BY <1>1, <2>2, <2>4, <4>1
        <4>2. CASE i # n
          <5>1. i \in 1..m
            BY <1>1, <3>1, <4>2, <2>4
          <5> QED
            BY <5>1, <2>2, <2>4
        <4> QED
          BY <4>1, <4>2
      <3> QED
        BY <3>1, <3>2
    <2>6. y.left = Available(q, cs) - TokensOf(k2) /\ y.left > 0
      BY <1>1, <1>2, <1>4, <1>5, <2>1, <2>3, <2>4
    <2> HIDE DEF c
    <2>7. Fitting(q, cs, n, y)
      BY <1>1, <2>1, <2>5, <2>6 DEF Fitting
    <2> QED
      BY <2>7 DEF y, c
  <1>6. CASE ~(x.open /\ x.left - c.tokens > 0)
    <2>1. y.kept = x.kept /\ y.left = x.left /\ ~y.open
      BY <1>3, <1>6 DEF Fit, Turned
    <2>2. m < n /\ x.left - cs[m + 1].tokens <= 0
      <3>1. CASE x.open
        <4>1. m = n - 1
          BY <3>1 DEF Fitting
        <4>2. m + 1 = n
          BY <1>1, <4>1
        <4> HIDE DEF m
        <4> QED
          BY <1>1, <1>2, <1>6, <3>1, <4>2
      <3>2. CASE ~x.open
        <4>1. m < n - 1 /\ x.left - cs[m + 1].tokens <= 0
          BY <3>2 DEF Fitting
        <4> QED
          BY <1>1, <1>2, <4>1
      <3> QED
        BY <3>1, <3>2
    <2>3. /\ m <= n /\ \A k \in 1..m : x.kept[k] = cs[k]
          /\ x.left = Available(q, cs) - TokensOf(x.kept)
          /\ x.kept # << >> => x.left > 0
      <3>1. m <= n
        BY <1>1, <1>2, <2>2
      <3> QED
        BY <3>1 DEF Fitting
    <2> HIDE DEF y, c
    <2>4. Fitting(q, cs, n, y)
      BY <2>1, <2>2, <2>3 DEF Fitting
    <2> QED
      BY <2>4 DEF y, c
  <1> QED
    BY <1>5, <1>6

\* The prompt holds the best chunks as far as they fit, whatever was found.
LEMMA PromptHolds ==
    ASSUME NEW q \in Queries, NEW cs \in Seq(Chunk)
    PROVE  PromptFits(q, cs) /\ ToSet(InPrompt(q, cs)) \subseteq ToSet(cs)
  <1> DEFINE N == Len(cs)
             F == Fitted(q, cs)
             T == {n \in 0..N : Fitting(q, cs, n, F[n])}
  <1>1. /\ F \in [0..N -> Turned]
        /\ F[0] = [kept |-> << >>, left |-> Available(q, cs), open |-> TRUE]
        /\ \A n \in 1..N : F[n] = Fit(F[n - 1], cs[n])
    BY FittedIs
  <1>2. N \in Nat
    BY ChunksTyped
  <1> HIDE DEF F
  <1>3. 0 \in T
    <2>1. TokensOf(<< >>) = 0 /\ Available(q, cs) \in Int
      BY AvailableTyped, TokensEmpty
    <2> HIDE DEF N
    <2> QED
      BY <1>1, <1>2, <2>1 DEF Fitting
  <1>4. ASSUME NEW i \in 1..N, i - 1 \in T PROVE i \in T
    <2>1. F[i - 1] \in Turned /\ Fitting(q, cs, i - 1, F[i - 1])
      BY <1>1, <1>4
    <2>2. Fitting(q, cs, i, Fit(F[i - 1], cs[i]))
      BY <2>1, FitTurn
    <2>3. F[i] = Fit(F[i - 1], cs[i])
      BY <1>1
    <2> HIDE DEF N
    <2> QED
      BY <1>2, <2>2, <2>3
  <1>5. N \in T
    <2> HIDE DEF T, N
    <2>1. 0..N \subseteq T
      BY <1>2, <1>3, <1>4, Induction
    <2> QED
      BY <1>2, <2>1
  <1> DEFINE x == F[N]
             kept == x.kept
             m == Len(kept)
  <1>6. x \in Turned /\ Fitting(q, cs, N, x)
    BY <1>1, <1>2, <1>5
  <1>7. kept \in Seq(Chunk) /\ m \in Nat /\ x.left \in Int /\ x.open \in BOOLEAN
    BY <1>6, ChunksTyped DEF Turned
  <1>8. InPrompt(q, cs) = kept
    BY DEF InPrompt, F
  <1>9. IsPrefix(kept, cs)
    <2>1. m <= N /\ \A k \in 1..m : kept[k] = cs[k]
      BY <1>6 DEF Fitting
    <2> HIDE DEF kept, x
    <2>2. SubSeq(kept, 1, m) = [k \in 1..m |-> kept[k]]
      BY <1>7
    <2>3. SubSeq(cs, 1, m) = [k \in 1..m |-> cs[k]]
      BY <1>7, <1>2, <2>1
    <2>4. SubSeq(kept, 1, m) = SubSeq(cs, 1, m)
      BY <2>1, <2>2, <2>3
    <2> QED
      BY <2>1, <2>4 DEF IsPrefix
  <1>10. TokensOf(kept) \in Nat /\ Available(q, cs) \in Int
    BY <1>7, AvailableTyped, TokensNat
  <1>11. kept # << >> => TokensOf(kept) < Available(q, cs)
    <2>1. /\ x.left = Available(q, cs) - TokensOf(kept)
          /\ kept # << >> => x.left > 0
      BY <1>6 DEF Fitting
    <2> QED
      BY <1>10, <2>1
  <1>12. ASSUME m < N
         PROVE  TokensOf(kept) + cs[m + 1].tokens >= Available(q, cs)
    <2>1. /\ x.left = Available(q, cs) - TokensOf(kept)
          /\ x.open => m = N
          /\ ~x.open => x.left - cs[m + 1].tokens <= 0
      BY <1>6 DEF Fitting
    <2>2. cs[m + 1].tokens \in Nat
      <3>1. m + 1 \in 1..N
        BY <1>2, <1>7, <1>12
      <3> QED
        BY <3>1, ChunksTyped
    <2> HIDE DEF m
    <2>3. ~x.open
      BY <1>2, <1>7, <1>12, <2>1
    <2> QED
      BY <1>10, <2>1, <2>2, <2>3
  <1>13. ToSet(kept) \subseteq ToSet(cs)
    <2>1. m <= N /\ \A k \in 1..m : kept[k] = cs[k]
      BY <1>6 DEF Fitting
    <2>2. DOMAIN kept = 1..m /\ DOMAIN cs = 1..N
      BY <1>7, ChunksTyped
    <2>3. \A k \in 1..m : k \in 1..N
      BY <1>2, <1>7, <2>1
    <2> HIDE DEF kept, m, N
    <2> QED
      BY <2>1, <2>2, <2>3 DEF ToSet
  <1> HIDE DEF x
  <1> QED
    BY <1>8, <1>9, <1>11, <1>12, <1>13 DEF PromptFits

-----------------------------------------------------------------------------
(* The citations *)

\* The urls of chunks, by their places.
LEMMA UrlsAre ==
    ASSUME NEW s \in Seq(Chunk)
    PROVE  /\ \A u \in UrlsOf(s) : u # NoUrl /\ \E i \in 1..Len(s) : s[i].url = u
           /\ \A i \in 1..Len(s) : s[i].url # NoUrl => s[i].url \in UrlsOf(s)
  <1>1. DOMAIN s = 1..Len(s)
    BY ChunksTyped
  <1> QED
    BY <1>1 DEF UrlsOf, ToSet

\* A dictionary by url of the first n chunks, at their best scores.
Gathered(cs, n, x) ==
    /\ \A i \in 1..Len(x) : x[i].url # NoUrl /\ \E k \in 1..n : x[i] = cs[k]
    /\ \A i, j \in 1..Len(x) : x[i].url = x[j].url => i = j
    /\ \A k \in 1..n : cs[k].url # NoUrl =>
         \E i \in 1..Len(x) : x[i].url = cs[k].url /\ cs[k].score <= x[i].score

\* The entry of a url is replaced where the new chunk is the better one.
LEMMA CiteAgain ==
    ASSUME NEW x \in Seq(Chunk), NEW c \in Chunk, c.url # NoUrl, c.url \in UrlsOf(x)
    PROVE  /\ Cite(x, c) \in Seq(Chunk) /\ Len(Cite(x, c)) = Len(x)
           /\ \A i \in 1..Len(x) :
                /\ Cite(x, c)[i] \in {x[i], c}
                /\ Cite(x, c)[i].url = x[i].url /\ x[i].score <= Cite(x, c)[i].score
                /\ x[i].url = c.url => c.score <= Cite(x, c)[i].score
  <1> DEFINE y == [i \in DOMAIN x |->
                     IF x[i].url = c.url /\ c.score > x[i].score THEN c ELSE x[i]]
  <1>1. /\ Len(x) \in Nat /\ DOMAIN x = 1..Len(x) /\ \A i \in 1..Len(x) : x[i] \in Chunk
        /\ \A d \in Chunk : d.score \in Nat
    BY ChunksTyped
  <1>2. Cite(x, c) = y
    BY DEF Cite
  <1>3. y \in [1..Len(x) -> Chunk]
    BY <1>1
  <1>4. ASSUME NEW i \in 1..Len(x)
        PROVE  /\ y[i] \in {x[i], c} /\ y[i].url = x[i].url /\ x[i].score <= y[i].score
               /\ x[i].url = c.url => c.score <= y[i].score
    <2>1. y[i] = IF x[i].url = c.url /\ c.score > x[i].score THEN c ELSE x[i]
      BY <1>1
    <2>2. x[i].score \in Nat /\ c.score \in Nat
      BY <1>1
    <2> HIDE DEF y
    <2> QED
      BY <2>1, <2>2
  <1> HIDE DEF y
  <1>5. y \in Seq(Chunk) /\ Len(y) = Len(x)
    BY <1>1, <1>3, FunIsSeq
  <1> QED
    BY <1>2, <1>4, <1>5

LEMMA CiteTyped ==
    ASSUME NEW x \in Seq(Chunk), NEW c \in Chunk
    PROVE  Cite(x, c) \in Seq(Chunk)
  <1>1. CASE c.url = NoUrl
    BY <1>1 DEF Cite
  <1>2. CASE c.url # NoUrl /\ c.url \notin UrlsOf(x)
    <2>1. Cite(x, c) = Append(x, c)
      BY <1>2 DEF Cite
    <2> QED
      BY <2>1
  <1>3. CASE c.url # NoUrl /\ c.url \in UrlsOf(x)
    BY <1>3, CiteAgain
  <1> QED
    BY <1>1, <1>2, <1>3

\* The recursive function Collected has its equations, and its values are typed.
LEMMA CollectedIs ==
    ASSUME NEW cs \in Seq(Chunk)
    PROVE  /\ Collected(cs) \in [0..Len(cs) -> Seq(Chunk)]
           /\ Collected(cs)[0] = << >>
           /\ \A n \in 1..Len(cs) :
                Collected(cs)[n] = Cite(Collected(cs)[n - 1], cs[n])
  <1> DEFINE N == Len(cs)
             S == Seq(Chunk)
             x0 == << >>
             step == [x \in S \X (1..N) |-> Cite(x[1], cs[x[2]])]
             G(f) == [n \in 0..N |-> IF n = 0 THEN x0 ELSE Cite(f[n - 1], cs[n])]
  <1>1. N \in Nat /\ \A i \in 1..N : cs[i] \in Chunk
    BY ChunksTyped
  <1>2. x0 \in S
    OBVIOUS
  <1>3. step \in LoopTurns(S, N)
    BY <1>1, CiteTyped DEF LoopTurns
  <1>4. PICK f : LoopRun(f, S, N, x0, step)
    <2> HIDE DEF N, S, x0, step
    <2> QED
      BY <1>1, <1>2, <1>3, LoopRuns
  <1>5. f \in [0..N -> S] /\ f[0] = x0
    BY <1>4 DEF LoopRun
  <1>6. \A i \in 1..N : f[i] = Cite(f[i - 1], cs[i])
    <2> TAKE i \in 1..N
    <2>1. i - 1 \in 0..N
      BY <1>1
    <2>2. f[i - 1] \in S
      BY <1>5, <2>1
    <2>3. f[i] = step[<<f[i - 1], i>>]
      BY <1>4 DEF LoopRun
    <2> HIDE DEF S
    <2> QED
      BY <2>2, <2>3
  <1>7. f = G(f)
    BY <1>1, <1>5, <1>6
  <1> DEFINE F == Collected(cs)
  <1>8. F = CHOOSE g : g = G(g)
    BY DEF Collected
  <1> HIDE DEF G, F
  <1>9. F = G(F)
    BY <1>7, <1>8, Zenon
  <1>10. F[0] = x0 /\ \A n \in 1..N : F[n] = Cite(F[n - 1], cs[n])
    <2>1. F = [n \in 0..N |-> IF n = 0 THEN x0 ELSE Cite(F[n - 1], cs[n])]
      BY <1>9 DEF G
    <2> HIDE DEF x0, N
    <2> QED
      BY <1>1, <2>1
  <1>11. LoopRun(F, S, N, x0, step)
    <2>1. DOMAIN F = 0..N /\ F = [i \in DOMAIN F |-> F[i]]
      BY <1>9 DEF G
    <2>2. \A i \in 1..N : F[i - 1] \in S => F[i] = step[<<F[i - 1], i>>]
      BY <1>10
    <2> HIDE DEF step, x0, N, S
    <2> QED
      BY <1>1, <1>2, <1>3, <1>10, <2>1, <2>2, LoopTyped
  <1> QED
    BY <1>10, <1>11 DEF F, LoopRun

\* A turn keeps what is said of the dictionary, whichever way the chunk goes.
LEMMA CiteTurn ==
    ASSUME NEW cs \in Seq(Chunk), NEW n \in 1..Len(cs),
           NEW x \in Seq(Chunk), Gathered(cs, n - 1, x)
    PROVE  Gathered(cs, n, Cite(x, cs[n]))
  <1> DEFINE c == cs[n]
             y == Cite(x, c)
             m == Len(x)
  <1>1. /\ Len(cs) \in Nat /\ n \in Nat /\ n >= 1 /\ m \in Nat /\ n - 1 \in Nat
        /\ c \in Chunk
    BY ChunksTyped
  <1>2. /\ \A i \in 1..m : x[i].url # NoUrl /\ \E k \in 1..(n - 1) : x[i] = cs[k]
        /\ \A i, j \in 1..m : x[i].url = x[j].url => i = j
        /\ \A k \in 1..(n - 1) : cs[k].url # NoUrl =>
             \E i \in 1..m : x[i].url = cs[k].url /\ cs[k].score <= x[i].score
    BY DEF Gathered
  <1>3. /\ \A i \in 1..m : x[i].score \in Nat
        /\ \A k \in 1..Len(cs) : cs[k].score \in Nat
    BY ChunksTyped
  <1>4. \A k \in 1..n : k = n \/ k \in 1..(n - 1)
    BY <1>1
  <1>5. \A k \in 1..(n - 1) : k \in 1..n /\ k \in 1..Len(cs)
    BY <1>1
  <1>6. CASE c.url = NoUrl
    <2>1. y = x
      BY <1>6 DEF Cite
    <2> QED
      BY <1>2, <1>4, <1>5, <1>6, <2>1 DEF Gathered
  <1>7. CASE c.url # NoUrl /\ c.url \notin UrlsOf(x)
    <2>1. y = Append(x, c)
      BY <1>7 DEF Cite
    <2>2. Len(y) = m + 1 /\ y[m + 1] = c /\ \A i \in 1..m : y[i] = x[i]
      BY <1>1, <2>1, AppendProperties
    <2>3. \A i \in 1..m : x[i].url # c.url
      BY <1>2, <1>7, UrlsAre
    <2>4. \A i \in 1..(m + 1) : i = m + 1 \/ i \in 1..m
      BY <1>1
    <2>5. m + 1 \in 1..(m + 1) /\ n \in 1..n /\ \A i \in 1..m : i \in 1..(m + 1)
      BY <1>1
    <2> HIDE DEF m, y
    <2>6. \A i \in 1..Len(y) : y[i].url # NoUrl /\ \E k \in 1..n : y[i] = cs[k]
      <3> TAKE i \in 1..Len(y)
      <3>1. CASE i = m + 1
        BY <1>7, <2>2, <2>5, <3>1
      <3>2. CASE i \in 1..m
        BY <1>2, <1>5, <2>2, <3>2
      <3> QED
        BY <2>2, <2>4, <3>1, <3>2
    <2>7. \A i, j \in 1..Len(y) : y[i].url = y[j].url => i = j
      BY <1>2, <2>2, <2>3, <2>4
    <2>8. ASSUME NEW k \in 1..n, cs[k].url # NoUrl
          PROVE  \E i \in 1..Len(y) : y[i].url = cs[k].url /\ cs[k].score <= y[i].score
      <3>1. CASE k = n
        <4>1. y[m + 1] = cs[k] /\ cs[k].score <= cs[k].score
          BY <1>1, <1>3, <2>2, <3>1
        <4> QED
          BY <4>1, <2>2, <2>5
      <3>2. CASE k \in 1..(n - 1)
        <4>1. PICK i \in 1..m : x[i].url = cs[k].url /\ cs[k].score <= x[i].score
          BY <1>2, <2>8, <3>2
        <4> QED
          BY <4>1, <2>2, <2>5
      <3> QED
        BY <1>4, <3>1, <3>2
    <2> HIDE DEF c
    <2> QED
      BY <2>6, <2>7, <2>8 DEF Gathered, y, c
  <1>8. CASE c.url # NoUrl /\ c.url \in UrlsOf(x)
    <2>1. /\ y \in Seq(Chunk) /\ Len(y) = m
          /\ \A i \in 1..m :
                /\ y[i] \in {x[i], c} /\ y[i].url = x[i].url /\ x[i].score <= y[i].score
                /\ x[i].url = c.url => c.score <= y[i].score
      BY <1>1, <1>8, CiteAgain
    <2>2. \A i \in 1..m : y[i].score \in Nat
      BY <2>1, ChunksTyped
    <2>3. PICK e \in 1..m : x[e].url = c.url
      BY <1>8, UrlsAre
    <2> HIDE DEF m, y
    <2>4. \A i \in 1..Len(y) : y[i].url # NoUrl /\ \E k \in 1..n : y[i] = cs[k]
      <3> TAKE i \in 1..Len(y)
      <3>1. i \in 1..m /\ y[i] \in {x[i], c} /\ y[i].url = x[i].url
        BY <2>1
      <3>2. PICK k \in 1..(n - 1) : x[i] = cs[k]
        BY <1>2, <3>1
      <3>3. n \in 1..n
        BY <1>1
      <3> QED
        BY <1>2, <1>5, <3>1, <3>2, <3>3
    <2>5. \A i, j \in 1..Len(y) : y[i].url = y[j].url => i = j
      BY <1>2, <2>1
    <2>6. ASSUME NEW k \in 1..n, cs[k].url # NoUrl
          PROVE  \E i \in 1..Len(y) : y[i].url = cs[k].url /\ cs[k].score <= y[i].score
      <3>1. CASE k = n
        BY <2>1, <2>3, <3>1
      <3>2. CASE k \in 1..(n - 1)
        <4>1. PICK i \in 1..m : x[i].url = cs[k].url /\ cs[k].score <= x[i].score
          BY <1>2, <2>6, <3>2
        <4>2. cs[k].score <= y[i].score
          BY <1>3, <1>5, <2>1, <2>2, <3>2, <4>1
        <4> QED
          BY <4>1, <4>2, <2>1
      <3> QED
        BY <1>4, <3>1, <3>2
    <2> HIDE DEF c
    <2> QED
      BY <2>4, <2>5, <2>6 DEF Gathered, y, c
  <1> QED
    BY <1>6, <1>7, <1>8

LEMMA CollectedHolds ==
    ASSUME NEW cs \in Seq(Chunk)
    PROVE  /\ Collected(cs)[Len(cs)] \in Seq(Chunk)
           /\ Gathered(cs, Len(cs), Collected(cs)[Len(cs)])
  <1> DEFINE N == Len(cs)
             F == Collected(cs)
             T == {n \in 0..N : Gathered(cs, n, F[n])}
  <1>1. /\ F \in [0..N -> Seq(Chunk)] /\ F[0] = << >>
        /\ \A n \in 1..N : F[n] = Cite(F[n - 1], cs[n])
    BY CollectedIs
  <1>2. N \in Nat
    BY ChunksTyped
  <1> HIDE DEF F
  <1>3. 0 \in T
    <2>1. Len(F[0]) = 0
      BY <1>1
    <2> QED
      BY <1>2, <2>1 DEF Gathered
  <1>4. ASSUME NEW i \in 1..N, i - 1 \in T PROVE i \in T
    <2>1. F[i - 1] \in Seq(Chunk) /\ Gathered(cs, i - 1, F[i - 1])
      BY <1>1, <1>4
    <2>2. Gathered(cs, i, Cite(F[i - 1], cs[i]))
      BY <2>1, CiteTurn
    <2>3. F[i] = Cite(F[i - 1], cs[i])
      BY <1>1
    <2> HIDE DEF N
    <2> QED
      BY <1>2, <2>2, <2>3
  <1>5. N \in T
    <2> HIDE DEF T, N
    <2>1. 0..N \subseteq T
      BY <1>2, <1>3, <1>4, Induction
    <2> QED
      BY <1>2, <2>1
  <1> QED
    BY <1>1, <1>2, <1>5 DEF F

\* Before is a strict total order of the places of a sequence.
LEMMA Ordered ==
    ASSUME NEW s \in Seq(Chunk)
    PROVE  /\ \A i \in 1..Len(s) : ~Before(s, i, i)
           /\ \A i, j \in 1..Len(s) : i # j => Before(s, i, j) \/ Before(s, j, i)
           /\ \A i, j \in 1..Len(s) : Before(s, i, j) => s[i].score >= s[j].score
           /\ \A i, j, k \in 1..Len(s) :
                Before(s, i, j) /\ Before(s, j, k) => Before(s, i, k)
  <1> DEFINE r == [i \in 1..Len(s) |-> s[i].score]
  <1>1. Len(s) \in Nat /\ \A i \in 1..Len(s) : r[i] \in Nat /\ s[i].score = r[i]
    BY ChunksTyped
  <1> HIDE DEF r
  <1> DEFINE D == 1..Len(s)
             b(i, j) == r[i] > r[j] \/ (r[i] = r[j] /\ i < j)
  <1>2. \A i, j \in D : Before(s, i, j) <=> b(i, j)
    BY <1>1 DEF Before
  <1>3. \A i \in D : ~b(i, i)
    BY <1>1
  <1>4. \A i, j \in D : i # j => b(i, j) \/ b(j, i)
    BY <1>1
  <1>5. \A i, j \in D : b(i, j) => s[i].score >= s[j].score
    BY <1>1
  <1>6. \A i, j, k \in D : b(i, j) /\ b(j, k) => b(i, k)
    BY <1>1
  <1> HIDE DEF b
  <1> QED
    BY <1>2, <1>3, <1>4, <1>5, <1>6

\* The places are numbers of 1..Len(s), in the order of Before.
LEMMA Places ==
    ASSUME NEW s \in Seq(Chunk)
    PROVE  /\ \A i \in 1..Len(s) : Place(s, i) \in 1..Len(s)
           /\ \A i, j \in 1..Len(s) : Before(s, i, j) => Place(s, i) < Place(s, j)
  <1> DEFINE N == Len(s)
             B(i) == {j \in DOMAIN s : Before(s, j, i)}
  <1>1. N \in Nat /\ DOMAIN s = 1..N
    BY ChunksTyped
  <1>2. IsFiniteSet(1..N) /\ Cardinality(1..N) = N
    BY <1>1, FS_Interval
  <1>3. ASSUME NEW i \in 1..N
        PROVE  IsFiniteSet(B(i)) /\ Cardinality(B(i)) \in 0..(N - 1)
    <2> DEFINE R == (1..N) \ {i}
    <2>1. IsFiniteSet(R) /\ Cardinality(R) = N - 1
      <3> HIDE DEF N
      <3> QED
        BY <1>2, <1>3, FS_RemoveElement
    <2>2. B(i) \subseteq R
      BY <1>1, Ordered
    <2> HIDE DEF B, R
    <2>3. IsFiniteSet(B(i)) /\ Cardinality(B(i)) <= N - 1
      BY <2>1, <2>2, FS_Subset
    <2>4. Cardinality(B(i)) \in Nat
      BY <2>3, FS_CardinalityType
    <2> QED
      BY <1>1, <2>3, <2>4
  <1>4. ASSUME NEW i \in 1..N, NEW j \in 1..N, Before(s, i, j)
        PROVE  Cardinality(B(i)) < Cardinality(B(j))
    <2>1. B(i) \subseteq B(j) /\ i \in B(j) /\ i \notin B(i)
      BY <1>1, <1>4, Ordered
    <2>2. IsFiniteSet(B(j)) /\ Cardinality(B(j)) \in 0..(N - 1)
      BY <1>3
    <2>3. Cardinality(B(i)) \in 0..(N - 1)
      BY <1>3
    <2> HIDE DEF B
    <2>4. /\ Cardinality(B(i)) <= Cardinality(B(j))
          /\ Cardinality(B(j)) = Cardinality(B(i)) => B(j) = B(i)
      BY <2>1, <2>2, FS_Subset
    <2> QED
      BY <1>1, <2>1, <2>2, <2>3, <2>4
  <1>5. \A i \in 1..N : Place(s, i) = Cardinality(B(i)) + 1
    BY DEF Place
  <1> HIDE DEF B, N
  <1>6. \A i \in 1..N : Place(s, i) \in 1..N
    BY <1>1, <1>3, <1>5
  <1>7. \A i, j \in 1..N : Before(s, i, j) => Place(s, i) < Place(s, j)
    <2> SUFFICES ASSUME NEW i \in 1..N, NEW j \in 1..N, Before(s, i, j)
                 PROVE  Place(s, i) < Place(s, j)
      OBVIOUS
    <2> QED
      BY <1>1, <1>3, <1>4, <1>5
  <1> QED
    BY <1>6, <1>7 DEF N

\* Every place is taken, by one chunk.
LEMMA Placed ==
    ASSUME NEW s \in Seq(Chunk)
    PROVE  \A k \in 1..Len(s) : \E i \in 1..Len(s) : Place(s, i) = k
  <1> DEFINE N == Len(s)
             f == [i \in 1..N |-> Place(s, i)]
  <1>1. N \in Nat
    BY ChunksTyped
  <1>2. IsFiniteSet(1..N)
    BY <1>1, FS_Interval
  <1>3. \A i \in 1..N : f[i] \in 1..N
    BY Places
  <1>4. ASSUME NEW i \in 1..N, NEW j \in 1..N, i # j PROVE f[i] # f[j]
    <2>1. Before(s, i, j) \/ Before(s, j, i)
      BY <1>4, Ordered
    <2>2. Place(s, i) \in 1..N /\ Place(s, j) \in 1..N
      BY Places
    <2>3. Place(s, i) < Place(s, j) \/ Place(s, j) < Place(s, i)
      BY <2>1, Places
    <2> HIDE DEF N
    <2> QED
      BY <1>1, <2>2, <2>3
  <1>5. f \in Injection(1..N, 1..N)
    <2>1. f \in [1..N -> 1..N]
      BY <1>3
    <2> HIDE DEF f, N
    <2> QED
      BY <1>4, <2>1 DEF Injection, IsInjective
  <1> HIDE DEF f, N
  <1>6. f \in Surjection(1..N, 1..N)
    BY <1>2, <1>5, FS_Injection
  <1>7. \A k \in 1..N : \E i \in 1..N : f[i] = k
    BY <1>6 DEF Surjection
  <1> QED
    BY <1>7 DEF f, N

\* Sorting keeps the chunks and puts the better ones first.
LEMMA BestFirstSorts ==
    ASSUME NEW s \in Seq(Chunk)
    PROVE  /\ BestFirst(s) \in Seq(Chunk) /\ Len(BestFirst(s)) = Len(s)
           /\ \A k \in 1..Len(s) : \E i \in 1..Len(s) : BestFirst(s)[k] = s[i]
           /\ \A i \in 1..Len(s) : \E k \in 1..Len(s) : BestFirst(s)[k] = s[i]
           /\ \A k, l \in 1..Len(s) :
                k < l => BestFirst(s)[k].score >= BestFirst(s)[l].score
  <1> DEFINE N == Len(s)
             t == BestFirst(s)
             at(k) == CHOOSE i \in 1..N : Place(s, i) = k
  <1>1. N \in Nat /\ DOMAIN s = 1..N /\ \A i \in 1..N : s[i] \in Chunk /\ s[i].score \in Nat
    BY ChunksTyped
  <1>2. t = [k \in 1..N |-> s[at(k)]]
    BY <1>1 DEF BestFirst
  <1>3. \A k \in 1..N : at(k) \in 1..N /\ Place(s, at(k)) = k
    BY Placed
  <1> HIDE DEF at, t
  <1>4. t \in [1..N -> Chunk]
    BY <1>1, <1>2, <1>3
  <1>5. t \in Seq(Chunk) /\ Len(t) = N
    BY <1>1, <1>4, FunIsSeq
  <1>6. ASSUME NEW i \in 1..N PROVE \E k \in 1..N : t[k] = s[i]
    <2> DEFINE k == Place(s, i)
    <2>1. k \in 1..N
      BY Places
    <2>2. at(k) = i
      <3>1. at(k) \in 1..N /\ Place(s, at(k)) = k
        BY <1>3, <2>1
      <3>2. ~Before(s, i, at(k)) /\ ~Before(s, at(k), i)
        <4>1. Before(s, i, at(k)) => Place(s, i) < Place(s, at(k))
          BY <3>1, Places
        <4>2. Before(s, at(k), i) => Place(s, at(k)) < Place(s, i)
          BY <3>1, Places
        <4>3. Place(s, at(k)) = Place(s, i) /\ Place(s, i) \in Nat
          BY <1>1, <2>1, <3>1
        <4> QED
          BY <4>1, <4>2, <4>3
      <3> QED
        BY <3>1, <3>2, Ordered
    <2> HIDE DEF k
    <2> QED
      BY <1>2, <2>1, <2>2
  <1>7. ASSUME NEW k \in 1..N, NEW l \in 1..N, k < l PROVE t[k].score >= t[l].score
    <2>1. at(k) \in 1..N /\ Place(s, at(k)) = k /\ at(l) \in 1..N /\ Place(s, at(l)) = l
      BY <1>3
    <2>2. ~Before(s, at(l), at(k))
      <3>1. Before(s, at(l), at(k)) => Place(s, at(l)) < Place(s, at(k))
        BY <2>1, Places
      <3> QED
        BY <1>1, <1>7, <2>1, <3>1
    <2>3. at(k) # at(l)
      BY <1>1, <1>7, <2>1
    <2>4. Before(s, at(k), at(l))
      BY <2>1, <2>2, <2>3, Ordered
    <2>5. s[at(k)].score >= s[at(l)].score
      BY <2>1, <2>4, Ordered
    <2> QED
      BY <1>2, <2>5
  <1> HIDE DEF N
  <1>8. \A k \in 1..N : \E i \in 1..N : t[k] = s[i]
    BY <1>2, <1>3
  <1> QED
    BY <1>5, <1>6, <1>7, <1>8 DEF N, t

\* The dictionary has as many entries as the chunks have urls.
LEMMA DistinctUrls ==
    ASSUME NEW cs \in Seq(Chunk), NEW x \in Seq(Chunk), Gathered(cs, Len(cs), x)
    PROVE  UrlsOf(x) = UrlsOf(cs) /\ Len(x) = Cardinality(UrlsOf(cs))
  <1> DEFINE m == Len(x)
             N == Len(cs)
  <1>1. /\ m \in Nat /\ \A i \in 1..m : x[i].url # NoUrl /\ \E k \in 1..N : x[i] = cs[k]
        /\ \A i, j \in 1..m : x[i].url = x[j].url => i = j
        /\ \A k \in 1..N : cs[k].url # NoUrl => \E i \in 1..m : x[i].url = cs[k].url
    BY ChunksTyped DEF Gathered
  <1>2. UrlsOf(x) = UrlsOf(cs)
    <2>1. ASSUME NEW u \in UrlsOf(x) PROVE u \in UrlsOf(cs)
      <3>1. PICK i \in 1..m : x[i].url = u
        BY UrlsAre
      <3>2. PICK k \in 1..N : x[i] = cs[k]
        BY <1>1
      <3> QED
        BY <1>1, <3>1, <3>2, UrlsAre
    <2>2. ASSUME NEW u \in UrlsOf(cs) PROVE u \in UrlsOf(x)
      <3>1. PICK k \in 1..N : cs[k].url = u /\ u # NoUrl
        BY UrlsAre
      <3>2. PICK i \in 1..m : x[i].url = cs[k].url
        BY <1>1, <3>1
      <3> QED
        BY <3>1, <3>2, UrlsAre
    <2> QED
      BY <2>1, <2>2
  <1> DEFINE U == UrlsOf(x)
             f == [i \in 1..m |-> x[i].url]
  <1>3. IsFiniteSet(1..m) /\ Cardinality(1..m) = m
    <2>1. m \in Nat
      BY <1>1
    <2> HIDE DEF m
    <2> QED
      BY <2>1, FS_Interval
  <1>4. f \in Surjection(1..m, U)
    <2>1. f \in [1..m -> U]
      BY <1>1, UrlsAre
    <2>2. \A u \in U : \E i \in 1..m : f[i] = u
      BY UrlsAre
    <2> HIDE DEF f, U, m
    <2> QED
      BY <2>1, <2>2 DEF Surjection
  <1>5. f \in Injection(1..m, U)
    <2>1. f \in [1..m -> U]
      BY <1>1, UrlsAre
    <2>2. \A i, j \in 1..m : f[i] = f[j] => i = j
      BY <1>1
    <2> HIDE DEF f, U, m
    <2> QED
      BY <2>1, <2>2 DEF Injection, IsInjective
  <1>6. Cardinality(U) = m
    <2> HIDE DEF f, U, m
    <2> QED
      BY <1>3, <1>4, <1>5, FS_Surjection
  <1> QED
    BY <1>2, <1>6

\* Every document found is cited once, at its best score and best first.
LEMMA CitesHold ==
    ASSUME NEW cs \in Seq(Chunk), Len(cs) <= TopK
    PROVE  CitesAll(cs) /\ ToSet(Citations(cs)) \subseteq ToSet(cs)
  <1> DEFINE x == Collected(cs)[Len(cs)]
             t == BestFirst(x)
             m == Len(x)
             N == Len(cs)
             cited == Citations(cs)
  <1>1. x \in Seq(Chunk) /\ Gathered(cs, N, x)
    BY CollectedHolds
  <1>2. UrlsOf(x) = UrlsOf(cs) /\ m = Cardinality(UrlsOf(cs))
    BY <1>1, DistinctUrls
  <1>3. N \in Nat /\ m \in Nat /\ m <= N
    BY <1>2, ChunksTyped, UrlsFinite
  <1>4. m <= MaxCitations
    BY <1>3, RoomForAll, AnswersOK
  <1> HIDE DEF x
  <1>5. /\ t \in Seq(Chunk) /\ Len(t) = m
        /\ \A k \in 1..m : \E i \in 1..m : t[k] = x[i]
        /\ \A i \in 1..m : \E k \in 1..m : t[k] = x[i]
        /\ \A k, l \in 1..m : k < l => t[k].score >= t[l].score
    BY <1>1, BestFirstSorts
  <1> HIDE DEF t, m
  <1>6. cited = t
    <2>1. cited = SubSeq(t, 1, IF Len(t) < MaxCitations THEN Len(t) ELSE MaxCitations)
      BY DEF Citations, x, t
    <2>2. (IF Len(t) < MaxCitations THEN Len(t) ELSE MaxCitations) = Len(t)
      BY <1>3, <1>4, <1>5, AnswersOK
    <2>3. SubSeq(t, 1, Len(t)) = t
      BY <1>5
    <2> HIDE DEF cited
    <2> QED
      BY <2>1, <2>2, <2>3
  <1> HIDE DEF cited
  <1>7. UrlsOf(t) = UrlsOf(x)
    <2>1. ASSUME NEW u \in UrlsOf(t) PROVE u \in UrlsOf(x)
      <3>1. PICK k \in 1..m : t[k].url = u /\ u # NoUrl
        BY <1>5, UrlsAre
      <3>2. PICK i \in 1..m : t[k] = x[i]
        BY <1>5
      <3> QED
        BY <1>1, <3>1, <3>2, UrlsAre DEF m
    <2>2. ASSUME NEW u \in UrlsOf(x) PROVE u \in UrlsOf(t)
      <3>1. PICK i \in 1..m : x[i].url = u /\ u # NoUrl
        BY <1>1, UrlsAre DEF m
      <3>2. PICK k \in 1..m : t[k] = x[i]
        BY <1>5
      <3> QED
        BY <1>5, <3>1, <3>2, UrlsAre
    <2> QED
      BY <2>1, <2>2
  <1>8. ASSUME NEW k \in 1..m, NEW c \in ToSet(cs), c.url = t[k].url
        PROVE  c.score <= t[k].score
    <2>1. PICK i \in 1..m : t[k] = x[i]
      BY <1>5
    <2>2. PICK n \in 1..N : c = cs[n]
      BY ChunksTyped DEF ToSet
    <2>3. x[i].url # NoUrl
      BY <1>1, <2>1 DEF Gathered, m
    <2>4. PICK j \in 1..m : x[j].url = c.url /\ c.score <= x[j].score
      <3>1. cs[n].url # NoUrl
        BY <1>8, <2>1, <2>2, <2>3
      <3> QED
        BY <1>1, <2>2, <3>1 DEF Gathered, m
    <2>5. j = i
      BY <1>1, <1>8, <2>1, <2>4 DEF Gathered, m
    <2> QED
      BY <2>1, <2>4, <2>5
  <1>9. DOMAIN t = 1..m
    BY <1>5, ChunksTyped
  <1>10. \A k \in 1..(m - 1) : t[k].score >= t[k + 1].score
    <2> TAKE k \in 1..(m - 1)
    <2>1. k \in 1..m /\ k + 1 \in 1..m /\ k < k + 1
      BY <1>3
    <2> QED
      BY <1>5, <2>1
  <1>11. ASSUME NEW c \in ToSet(t) PROVE c \in ToSet(cs)
    <2>1. PICK k \in 1..m : c = t[k]
      BY <1>9 DEF ToSet
    <2>2. PICK i \in 1..m : t[k] = x[i]
      BY <1>5
    <2>3. PICK n \in 1..N : x[i] = cs[n]
      BY <1>1 DEF Gathered, m
    <2> QED
      BY <2>1, <2>2, <2>3, ChunksTyped DEF ToSet
  <1> QED
    BY <1>2, <1>5, <1>6, <1>7, <1>8, <1>9, <1>10, <1>11 DEF CitesAll, cited

-----------------------------------------------------------------------------
(* The theorems *)

Inv == TypeInv /\ PoolInv /\ \A q \in Queries : RequestInv(q)

LEMMA InvHolds == Spec => []Inv
  <1>1. Init => Inv
    BY TypeInit, PoolInit, RequestInit DEF Inv
  <1>2. Inv /\ [Next]_vars => Inv'
    <2> SUFFICES ASSUME Inv, [Next]_vars PROVE Inv'
      OBVIOUS
    <2>1. CASE UNCHANGED vars
      BY <2>1
         DEF vars, Inv, TypeInv, Attempts, PoolInv, Searching, InUse, RequestInv, Found, Told,
                  Numbered, Accounted, BestPermitted, LowConfidence, Row, Ended
    <2>2. CASE Next
      BY <2>2, TypeStep, PoolStep, RequestStep DEF Next, Step, Inv
    <2> QED
      BY <2>1, <2>2
  <1> QED
    BY <1>1, <1>2, PTL DEF Spec

\* The beginning of an answer.
LEMMA PreviewTyped ==
    ASSUME NEW S, NEW s \in Seq(S)
    PROVE  /\ PreviewOf(s) \in Seq(S) /\ IsPrefix(PreviewOf(s), s)
           /\ Len(PreviewOf(s)) < Preview => PreviewOf(s) = s
           /\ \A k \in DOMAIN PreviewOf(s) :
                k \in DOMAIN s /\ PreviewOf(s)[k] = s[k]
  <1> DEFINE n == IF Len(s) < Preview THEN Len(s) ELSE Preview
             p == SubSeq(s, 1, n)
  <1>1. n \in Nat /\ n <= Len(s) /\ Len(s) \in Nat /\ (n < Preview => n = Len(s))
    BY QueryOK
  <1> HIDE DEF n
  <1>2. /\ p \in Seq(S) /\ Len(p) = n /\ DOMAIN p = 1..n /\ DOMAIN s = 1..Len(s)
        /\ \A k \in 1..n : p[k] = s[k]
    BY <1>1
  <1>3. n = Len(s) => p = s
    BY SubSeqFull
  <1>4. p = SubSeq(s, 1, n)
    OBVIOUS
  <1> HIDE DEF p
  <1>5. SubSeq(p, 1, n) = p
    <2>1. SubSeq(p, 1, Len(p)) = p
      BY <1>2, SubSeqFull
    <2> QED
      BY <1>2, <2>1
  <1>6. IsPrefix(p, s)
    BY <1>1, <1>2, <1>4, <1>5 DEF IsPrefix
  <1>7. n < Preview => p = s
    BY <1>1, <1>3
  <1>a. \A k \in 1..n : k \in 1..Len(s)
    BY <1>1
  <1>8. \A k \in DOMAIN p : k \in DOMAIN s /\ p[k] = s[k]
    BY <1>2, <1>a
  <1>9. PreviewOf(s) = p
    BY DEF PreviewOf, n, p
  <1> QED
    BY <1>2, <1>6, <1>7, <1>8, <1>9

\* Types, and that there are never more connections than the pool has, nor one
\* that a POST keeps once it is answered (deps.py, session.py, query.py).
THEOREM TypeCorrect == Spec => []TypeOK
  <1>1. Inv => TypeOK
    <2> SUFFICES ASSUME Inv PROVE TypeOK
      OBVIOUS
    <2>1. ASSUME NEW q \in Queries, NEW row \in ToSet(audit[q]) PROVE row.preview \in Seq(Tokens)
      <3>1. RequestInv(q)
        BY DEF Inv
      <3>2. audit[q] = <<Row(q)>>
        BY <2>1, <3>1 DEF RequestInv, Accounted, ToSet
      <3>3. row = Row(q)
        BY <2>1, <3>2 DEF ToSet
      <3> QED
        BY <3>3, PreviewTyped DEF Row, Inv, TypeInv
    <2> QED
      BY <2>1 DEF Inv, TypeInv, PoolInv, TypeOK
  <1> QED
    BY <1>1, InvHolds, PTL

\* A request that was answered has one audit row and none has two; the row
\* tells the answer as the client got it (query.py, streaming.py).
THEOREM AuditTellsTheAnswerHolds == Spec => []AuditTellsTheAnswer
  <1>1. Inv => AuditTellsTheAnswer
    <2> SUFFICES ASSUME Inv, NEW q \in Queries
                 PROVE  /\ pc[q] = "done" => Len(audit[q]) = 1
                        /\ Len(audit[q]) <= 1
                        /\ \A row \in ToSet(audit[q]) :
                            /\ IsPrefix(row.preview, answer[q])
                            /\ Len(row.preview) < Preview => row.preview = answer[q]
                            /\ attempt[q] = 1 =>
                                 \A k \in DOMAIN row.preview : row.preview[k] = k
                            /\ row.count = IF q \in Streamed THEN Len(chunks[q])
                                           ELSE Len(Citations(chunks[q]))
                            /\ q \in Streamed => Last(sent[q]).type \in {"complete", "error"}
      BY DEF AuditTellsTheAnswer
    <2>1. Found(q) /\ Told(q) /\ Numbered(q) /\ Accounted(q)
      BY DEF Inv, RequestInv
    <2>2. CASE audit[q] = << >> /\ pc[q] # "done"
      BY <2>2 DEF ToSet
    <2>3. CASE audit[q] = <<Row(q)>> /\ (q \in Streamed => Ended(q))
      <3>1. ToSet(audit[q]) = {Row(q)} /\ Len(audit[q]) = 1
        BY <2>3 DEF ToSet
      <3>2. answer[q] \in Seq(Tokens) /\ Row(q).preview = PreviewOf(answer[q])
        BY DEF Row, Inv, TypeInv
      <3>4. /\ IsPrefix(PreviewOf(answer[q]), answer[q])
            /\ Len(PreviewOf(answer[q])) < Preview => PreviewOf(answer[q]) = answer[q]
            /\ \A k \in DOMAIN PreviewOf(answer[q]) :
                 k \in DOMAIN answer[q] /\ PreviewOf(answer[q])[k] = answer[q][k]
        BY <3>2, PreviewTyped
      <3>5. /\ q \notin Streamed => \A k \in DOMAIN answer[q] : answer[q][k] = k
            /\ q \in Streamed /\ attempt[q] = 1 => \A k \in DOMAIN answer[q] : answer[q][k] = k
        BY <2>1 DEF Numbered
      <3>6. attempt[q] = 1 => \A k \in DOMAIN PreviewOf(answer[q]) : PreviewOf(answer[q])[k] = k
        BY <3>4, <3>5
      <3>7. q \in Streamed => Last(sent[q]).type \in {"complete", "error"}
        BY <2>3 DEF Ended
      <3>3. Row(q).count = IF q \in Streamed THEN Len(chunks[q]) ELSE Len(Citations(chunks[q]))
        BY <2>1, <2>3 DEF Row, Told, Ended, Event
      <3> QED
        BY <2>3, <3>1, <3>2, <3>3, <3>4, <3>6, <3>7
    <2> QED
      BY <2>1, <2>2, <2>3 DEF Accounted
  <1> QED
    BY <1>1, InvHolds, PTL

\* What a search found is what the caller may read and the best of it, and it
\* is nothing where the search failed (vector_search.py).
THEOREM BestPermittedHolds == Spec => [](\A q \in Queries : BestPermitted(q))
  <1>1. Inv => \A q \in Queries : BestPermitted(q)
    BY DEF Inv, RequestInv, Found
  <1> QED
    BY <1>1, InvHolds, PTL

\* A question is answered from what its caller may read and from the best of it:
\* the prompt holds the best chunks as far as they fit, and every document found
\* is cited once (vector_search.py, prompt_builder.py, citation_builder.py).
THEOREM AnsweredFromTheBestHolds == Spec => []AnsweredFromTheBest
  <1>1. Inv => AnsweredFromTheBest
    <2> SUFFICES ASSUME Inv, NEW q \in Queries
                 PROVE  BestPermitted(q) /\ PromptFits(q, chunks[q]) /\ CitesAll(chunks[q])
      BY DEF AnsweredFromTheBest
    <2>1. chunks[q] \in Seq(Chunk) /\ BestPermitted(q) /\ Len(chunks[q]) <= TopK
      BY DEF Inv, TypeInv, RequestInv, Found
    <2> QED
      BY <2>1, PromptHolds, CitesHold
  <1> QED
    BY <1>1, InvHolds, PTL

\* Nothing a caller may not read gets into the prompt of that caller's question or
\* among its citations (vector_search.py, prompt_builder.py, citation_builder.py).
THEOREM OnlyPermittedIsShown ==
    Spec => [](\A q \in Queries :
                  /\ ToSet(InPrompt(q, chunks[q])) \subseteq Permitted(q, corpus)
                  /\ ToSet(Citations(chunks[q])) \subseteq Permitted(q, corpus))
  <1>1. Inv => \A q \in Queries :
                  /\ ToSet(InPrompt(q, chunks[q])) \subseteq Permitted(q, corpus)
                  /\ ToSet(Citations(chunks[q])) \subseteq Permitted(q, corpus)
    <2> SUFFICES ASSUME Inv, NEW q \in Queries
                 PROVE  /\ ToSet(InPrompt(q, chunks[q])) \subseteq Permitted(q, corpus)
                        /\ ToSet(Citations(chunks[q])) \subseteq Permitted(q, corpus)
      OBVIOUS
    <2>1. chunks[q] \in Seq(Chunk) /\ BestPermitted(q) /\ Len(chunks[q]) <= TopK
      BY DEF Inv, TypeInv, RequestInv, Found
    <2>2. ToSet(chunks[q]) \subseteq Permitted(q, corpus)
      BY <2>1 DEF BestPermitted, ToSet
    <2> QED
      BY <2>1, <2>2, PromptHolds, CitesHold
  <1> QED
    BY <1>1, InvHolds, PTL

-----------------------------------------------------------------------------
(* The streams: Query implements AnswerStream *)

LEMMA StageIs ==
    ASSUME NEW q \in Streamed, Told(q), pc[q] \in Stages
    PROVE  /\ pc[q] \in Early \cup {"enrich"} => Stage(q) = "silent" /\ ~Ended(q)
           /\ pc[q] = "generate" => Stage(q) = "open" /\ ~Ended(q)
           /\ Ended(q) => Stage(q) = Last(sent[q]).type
           /\ pc[q] \in {"failed", "left"} /\ ~Ended(q) => Stage(q) = "cut"
           /\ pc[q] \in {"audit", "done"} => Ended(q)
           /\ pc[q] # "route"
  BY DEF Told, Stage, Ended, Early

\* What a step does to its stream, in the words of AnswerStream.
Keeps(q) ==
    /\ sent'[q] = sent[q] /\ Stage(q)' = Stage(q)
    /\ got'[q] = got[q] /\ attempt'[q] = attempt[q]
Retrieves(q) ==
    /\ Stage(q) = "silent" /\ Stage(q)' = "open" /\ got'[q] = got[q] /\ attempt'[q] = attempt[q]
    /\ \E n \in 0..TopK : sent'[q] = Append(sent[q], Event("retrieval_done", n))
Tells(q) ==
    /\ Stage(q) = "open" /\ Stage(q)' = "open" /\ got'[q] = got[q] + 1 /\ attempt'[q] = attempt[q]
    /\ sent'[q] = Append(sent[q], Event("token", got[q] + 1))
Restarts(q) ==
    /\ Stage(q) = "open" /\ Stage(q)' = "open" /\ got'[q] = 0 /\ attempt'[q] = attempt[q] + 1
    /\ attempt[q] < StreamAttempts /\ sent'[q] = sent[q]
Ends(q) ==
    /\ Stage(q) = "open" /\ got'[q] = got[q] /\ attempt'[q] = attempt[q]
    /\ \E e \in {"complete", "error"} : Stage(q)' = e /\ sent'[q] = Append(sent[q], Event(e, 0))
IsCut(q) ==
    /\ Stage(q) \in {"silent", "open"} /\ Stage(q)' = "cut"
    /\ sent'[q] = sent[q] /\ got'[q] = got[q] /\ attempt'[q] = attempt[q]

LEMMA StreamStep ==
    ASSUME TypeInv, TypeInv', NEW q \in Streamed, RequestInv(q), RequestInv(q)', Step(q)
    PROVE  Keeps(q) \/ Retrieves(q) \/ Tells(q) \/ Restarts(q) \/ Ends(q) \/ IsCut(q)
  <1>1. /\ q \in Queries /\ pc[q] \in Stages /\ pc'[q] \in Stages
        /\ Told(q) /\ Told(q)' /\ Found(q) /\ sent[q] \in Seq(Events) /\ chunks[q] \in Seq(Chunk)
    BY QueryOK DEF TypeInv, RequestInv
  <1>2. /\ pc[q] \in Early \cup {"enrich"} => Stage(q) = "silent" /\ ~Ended(q)
        /\ pc[q] = "generate" => Stage(q) = "open" /\ ~Ended(q)
        /\ Ended(q) => Stage(q) = Last(sent[q]).type
        /\ pc[q] \in {"failed", "left"} /\ ~Ended(q) => Stage(q) = "cut"
        /\ pc[q] \in {"audit", "done"} => Ended(q)
        /\ pc[q] # "route"
    BY <1>1, StageIs
  <1>3. /\ pc'[q] \in Early \cup {"enrich"} => Stage(q)' = "silent" /\ ~Ended(q)'
        /\ pc'[q] = "generate" => Stage(q)' = "open" /\ ~Ended(q)'
        /\ Ended(q)' => Stage(q)' = Last(sent'[q]).type
        /\ pc'[q] \in {"failed", "left"} /\ ~Ended(q)' => Stage(q)' = "cut"
        /\ pc'[q] \in {"audit", "done"} => Ended(q)'
        /\ pc'[q] # "route"
    BY <1>1 DEF Told, Stage, Ended, Early
  <1>4. ASSUME NEW to \in Stages, Moves(q, to), MayMove(pc[q], to) PROVE Keeps(q) \/ IsCut(q)
    <2>1. /\ pc'[q] = to /\ sent' = sent /\ got' = got /\ attempt' = attempt
      BY <1>1, <1>4 DEF Moves, Goes, TypeInv, generation, outcome
    <2>2. Ended(q)' <=> Ended(q)
      BY <2>1 DEF Ended
    <2>3. CASE Ended(q) \/ to = pc[q]
      <3>1. Stage(q)' = Stage(q)
        <4>1. CASE Ended(q)
          BY <1>2, <1>3, <2>1, <2>2, <4>1
        <4>2. CASE to = pc[q]
          BY <2>1, <4>2 DEF Stage
        <4> QED
          BY <2>3, <4>1, <4>2
      <3> QED
        BY <2>1, <3>1 DEF Keeps
    <2>4. CASE ~Ended(q) /\ to # pc[q]
      BY <1>1, <1>2, <1>3, <1>4, <2>1, <2>2, <2>4 DEF Keeps, IsCut, MayMove, Stages, Early, Over
    <2> QED
      BY <2>3, <2>4
  <1>5. ASSUME NEW to \in {"done", "failed", "left"}, Logs(q, to) PROVE Keeps(q)
    <2>1. /\ pc[q] = "audit" /\ sent' = sent /\ got' = got /\ attempt' = attempt
      BY <1>5 DEF Logs, At, generation
    <2>2. Ended(q) /\ Ended(q)'
      BY <1>2, <2>1 DEF Ended
    <2> QED
      BY <1>2, <1>3, <2>1, <2>2 DEF Keeps
  <1>6. CASE SearchReturns(q)
    <2>1. /\ pc[q] = "searching" /\ pc'[q] = "enrich"
          /\ sent' = sent /\ got' = got /\ attempt' = attempt
      BY <1>1, <1>6 DEF SearchReturns, Passes, At, Goes, TypeInv, generation, outcome
    <2> QED
      BY <1>2, <1>3, <2>1 DEF Keeps, Early
  <1>7. CASE Enrich(q)
    <2> DEFINE e == Event("retrieval_done", Len(chunks[q]))
    <2>1. /\ pc[q] = "enrich" /\ pc'[q] = "generate" /\ sent'[q] = <<e>>
          /\ got' = got /\ attempt' = attempt
      BY <1>1, <1>7 DEF Enrich, Passes, At, Goes, TypeInv, generation
    <2>2. Len(chunks[q]) \in 0..TopK
      <3>1. Len(chunks[q]) \in Nat
        BY <1>1
      <3> QED
        BY <1>1, <3>1, AnswersOK DEF Found
    <2>3. sent'[q] = Append(sent[q], e)
      <3>1. sent[q] = << >>
        BY <1>1, <2>1 DEF Told
      <3> HIDE DEF e
      <3> QED
        BY <2>1, <3>1
    <2> QED
      BY <1>2, <1>3, <2>1, <2>2, <2>3 DEF Retrieves
  <1>8. CASE GenerateStream(q)
    <2>1. /\ pc[q] = "generate" /\ pc' = pc /\ got'[q] = got[q] + 1 /\ attempt' = attempt
          /\ sent'[q] = Append(sent[q], Event("token", got[q] + 1))
      BY <1>1, <1>8 DEF GenerateStream, At, TypeInv
    <2> QED
      BY <1>2, <1>3, <2>1 DEF Tells
  <1>9. CASE StreamTimesOut(q)
    <2>1. /\ pc[q] = "generate" /\ pc' = pc /\ got'[q] = 0 /\ attempt'[q] = attempt[q] + 1
          /\ attempt[q] < StreamAttempts /\ sent' = sent
      BY <1>1, <1>9 DEF StreamTimesOut, TimesOut, At, TypeInv, outcome
    <2> QED
      BY <1>2, <1>3, <2>1 DEF Restarts
  <1>10. CASE StreamCompletes(q) \/ StreamUnavailable(q)
    <2>1. /\ pc[q] = "generate" /\ pc'[q] = "audit" /\ got' = got /\ attempt' = attempt
      BY <1>1, <1>10
         DEF StreamCompletes, StreamUnavailable, Passes, At, Goes, TypeInv, generation
    <2>2. PICK e \in {"complete", "error"} : sent'[q] = Append(sent[q], Event(e, 0))
      BY <1>1, <1>10 DEF StreamCompletes, StreamUnavailable, TypeInv
    <2>3. Event(e, 0) \in Events /\ Event(e, 0).type = e
      BY EventTyped
    <2>4. Last(sent'[q]) = Event(e, 0)
      BY <1>1, <2>2, <2>3, LastAppended
    <2>5. Stage(q)' = e
      BY <1>3, <2>1, <2>3, <2>4 DEF Ended
    <2> QED
      BY <1>2, <2>1, <2>2, <2>5 DEF Ends
  <1>11. q \in Streamed /\ ~FindExpert(q)
    BY <1>2 DEF FindExpert, Passes, At
  <1> QED
    BY <1>1, <1>4, <1>5, <1>6, <1>7, <1>8, <1>9, <1>10, <1>11, StepKinds
       DEF TypeInv, Works, Generate, GenerateTimesOut, GenerateUnavailable

\* A step of a stream is one of AnswerStream, a step of a POST none.
LEMMA PromisedStep ==
    ASSUME Inv, Inv', [Next]_vars
    PROVE  [Promised!Next]_(Promised!avars)
  <1> DEFINE Shown == [q \in Streamed |-> sent[q]]
             Stg == [q \in Streamed |-> Stage(q)]
             Lst == [q \in Streamed |-> got[q]]
             Rst == [q \in Streamed |-> attempt[q] - 1]
             Quiet(S) == \A p \in S : Keeps(p)
  <1>1. Quiet(Streamed) => UNCHANGED Promised!avars
    BY DEF Promised!avars, Keeps
  <1>2. CASE UNCHANGED vars
    BY <1>1, <1>2 DEF vars, Keeps, Stage
  <1>3. ASSUME NEW q \in Queries, Step(q) PROVE [Promised!Next]_(Promised!avars)
    <2>1. Quiet(Streamed \ {q})
      BY <1>3, Frame, QueryOK DEF Inv, Same, Keeps, Stage
    <2>2. CASE q \notin Streamed
      BY <1>1, <2>1, <2>2
    <2>3. CASE q \in Streamed
      <3>1. Keeps(q) \/ Retrieves(q) \/ Tells(q) \/ Restarts(q) \/ Ends(q) \/ IsCut(q)
        BY <1>3, <2>3, StreamStep DEF Inv
      <3>2. CASE Keeps(q)
        BY <1>1, <2>1, <3>2
      <3>3. CASE Retrieves(q)
        <4>1. Promised!Retrieved(q)
          BY <2>1, <2>3, <3>3
             DEF Promised!Retrieved, Promised!Shows, Promised!Event, Event, Retrieves, Keeps
        <4> QED
          BY <2>3, <4>1 DEF Promised!Next
      <3>4. CASE Tells(q)
        <4>1. Promised!Token(q)
          BY <2>1, <2>3, <3>4
             DEF Promised!Token, Promised!Shows, Promised!Event, Event, Tells, Keeps
        <4> QED
          BY <2>3, <4>1 DEF Promised!Next
      <3>5. CASE Restarts(q)
        <4>1. attempt[q] \in Nat \ {0}
          BY <2>3, QueryOK DEF Inv, TypeInv, Attempts
        <4>2. Rst[q] < StreamAttempts - 1 /\ attempt'[q] - 1 = (attempt[q] - 1) + 1
          BY <2>3, <3>5, <4>1, QueryOK DEF Restarts
        <4>3. Rst' = [Rst EXCEPT ![q] = @ + 1]
          BY <2>1, <2>3, <4>2 DEF Keeps
        <4>4. Lst' = [Lst EXCEPT ![q] = 0] /\ Shown' = Shown /\ Stg' = Stg /\ Stg[q] = "open"
          BY <2>1, <2>3, <3>5 DEF Restarts, Keeps
        <4>5. Promised!Restart(q)
          BY <4>2, <4>3, <4>4 DEF Promised!Restart
        <4> QED
          BY <2>3, <4>5 DEF Promised!Next
      <3>6. CASE Ends(q)
        <4>1. Promised!End(q)
          BY <2>1, <2>3, <3>6
             DEF Promised!End, Promised!Shows, Promised!Event, Event, Ends, Keeps
        <4> QED
          BY <2>3, <4>1 DEF Promised!Next
      <3>7. CASE IsCut(q)
        <4>1. Promised!Cut(q)
          BY <2>1, <2>3, <3>7 DEF Promised!Cut, IsCut, Keeps
        <4> QED
          BY <2>3, <4>1 DEF Promised!Next
      <3> QED
        BY <3>1, <3>2, <3>3, <3>4, <3>5, <3>6, <3>7
    <2> QED
      BY <2>2, <2>3
  <1> QED
    BY <1>2, <1>3 DEF Next, Step

\* Every stream is one of AnswerStream: the number of chunks, the tokens in their
\* order, begun again once at most, and then "complete" or "error" and nothing
\* more, unless it is cut (streaming.py, llm_client.py).
THEOREM StreamsAsPromisedHolds == Spec => StreamsAsPromised
  <1>1. Init => Promised!Init
    BY QueryOK DEF Init, Promised!Init, Stage
  <1>2. Inv /\ Inv' /\ [Next]_vars => [Promised!Next]_(Promised!avars)
    BY PromisedStep
  <1> QED
    BY <1>1, <1>2, InvHolds, PTL DEF Spec, StreamsAsPromised, Promised!Spec

-----------------------------------------------------------------------------
(* The work of a request is bounded *)

\* How far a request is from its end, and what the LLM may still do for it: attempts
\* and, of the present one, tokens.  A step takes one from this sum at least; a
\* connection counts since the garbage collector may give it back after the end.
ToGo == [s \in Stages |->
           CASE s = "new" -> 8 [] s = "start" -> 7 [] s = "search" -> 6 [] s = "searching" -> 5
             [] s = "enrich" -> 4 [] s = "generate" -> 3 [] s = "route" -> 2 [] s = "audit" -> 1
             [] OTHER -> 0]
Generation(q) == (Attempts(q) - attempt[q]) * (MaxAnswer + 1) + (MaxAnswer - got[q])
StepsLeft(q) ==
    2 * ToGo[pc[q]]
    + (IF q \in held THEN 1 ELSE 0)
    + (IF pc[q] \in Early \cup {"enrich", "generate"} THEN Generation(q) ELSE 0)

LEMMA ToGoTyped == \A s \in Stages : ToGo[s] \in Nat
  <1>1. ASSUME NEW s \in Stages PROVE ToGo[s] \in {0, 1, 2, 3, 4, 5, 6, 7, 8}
    BY DEF ToGo, Stages, Over
  <1> QED
    BY <1>1

LEMMA Times ==
    ASSUME NEW d \in Nat, NEW m \in Nat
    PROVE  d * m \in Nat /\ (d + 1) * m = d * m + m
  OBVIOUS

LEMMA GenerationTyped == ASSUME TypeInv, NEW q \in Queries PROVE Generation(q) \in Nat
  <1> DEFINE d == Attempts(q) - attempt[q]
             m == MaxAnswer + 1
  <1>1. d \in Nat /\ m \in Nat /\ MaxAnswer - got[q] \in Nat
    BY AttemptsTyped, QueryOK DEF TypeInv
  <1>2. d * m \in Nat
    <2> HIDE DEF d, m
    <2> QED
      BY <1>1, Times
  <1>3. d * m + (MaxAnswer - got[q]) \in Nat
    <2> DEFINE x == d * m
               y == MaxAnswer - got[q]
    <2>1. x \in Nat /\ y \in Nat
      BY <1>1, <1>2
    <2> HIDE DEF x, y
    <2>2. x + y \in Nat
      BY <2>1
    <2> QED
      BY <2>2 DEF x, y
  <1> QED
    BY <1>3 DEF Generation, d, m

LEMMA StepsLeftTyped == ASSUME TypeInv, NEW q \in Queries PROVE StepsLeft(q) \in Nat
  <1>1. pc[q] \in Stages /\ ToGo[pc[q]] \in Nat /\ Generation(q) \in Nat
    BY ToGoTyped, GenerationTyped DEF TypeInv
  <1> QED
    BY <1>1 DEF StepsLeft

\* A step forward, or the connection given back after the end.
Advances(q) ==
    /\ attempt'[q] = attempt[q] /\ got'[q] = got[q]
    /\ \/ ToGo[pc'[q]] < ToGo[pc[q]]
       \/ pc'[q] = pc[q] /\ q \in held /\ q \notin held'

\* How far each stage is from the end.
LEMMA ToGoIs ==
    /\ ToGo["new"] = 8 /\ ToGo["start"] = 7 /\ ToGo["search"] = 6 /\ ToGo["searching"] = 5
    /\ ToGo["enrich"] = 4 /\ ToGo["generate"] = 3 /\ ToGo["route"] = 2 /\ ToGo["audit"] = 1
    /\ \A s \in Over : ToGo[s] = 0
  BY DEF ToGo, Stages, Over

LEMMA PassesOn ==
    ASSUME TypeInv, NEW q \in Queries, NEW from, NEW to, Passes(q, from, to),
           UNCHANGED <<attempt, got>>, ToGo[to] < ToGo[from]
    PROVE  Advances(q)
  BY DEF Passes, At, Goes, Advances, TypeInv

LEMMA RaisesOn ==
    ASSUME TypeInv, NEW q \in Queries, Raises(q), pc[q] \in Stages \ Over,
           UNCHANGED <<attempt, got>>
    PROVE  Advances(q)
  <1>1. ToGo["failed"] = 0
    BY ToGoIs DEF Over
  <1>2. ToGo[pc[q]] > 0
    BY ToGoIs DEF Stages
  <1>3. pc'[q] = "failed"
    BY DEF Raises, Goes, TypeInv
  <1> QED
    BY <1>1, <1>2, <1>3 DEF Advances

LEMMA MovesAdvance ==
    ASSUME TypeInv, NEW q \in Queries, Step(q), ~Works(q)
    PROVE  Advances(q)
  <1>1. CASE GetCurrentUser(q)
    <2>1. UNCHANGED <<attempt, got>>
      BY <1>1 DEF GetCurrentUser, generation
    <2>2. Passes(q, "new", "start") \/ Passes(q, "new", "search")
      BY <1>1 DEF GetCurrentUser
    <2> QED
      BY <2>1, <2>2, PassesOn, ToGoIs
  <1>2. CASE StreamQuery(q) \/ SearchBegins(q) \/ SearchTimesOut(q)
    <2>1. UNCHANGED <<attempt, got>>
      BY <1>2 DEF StreamQuery, SearchBegins, SearchTimesOut, generation
    <2>2. \/ Passes(q, "start", "search") \/ Passes(q, "search", "searching")
          \/ Passes(q, "search", "enrich")
      BY <1>2 DEF StreamQuery, SearchBegins, SearchTimesOut
    <2> QED
      BY <2>1, <2>2, PassesOn, ToGoIs
  <1>3. CASE SearchFails(q) \/ LogQuery(q)
    <2>1. UNCHANGED <<attempt, got>>
      BY <1>3 DEF SearchFails, LogQuery, generation
    <2>2. Passes(q, "searching", "enrich") \/ Passes(q, "audit", "done")
      BY <1>3 DEF SearchFails, LogQuery
    <2> QED
      BY <2>1, <2>2, PassesOn, ToGoIs DEF Over
  <1>4. CASE AdmissionFails(q) \/ EmbedFails(q) \/ EnrichFails(q) \/ LLMBreaks(q)
             \/ FindExpertFails(q) \/ LogQueryTimesOut(q) \/ LogQueryFails(q)
    <2>1. Raises(q) /\ UNCHANGED <<attempt, got>>
      BY <1>4 DEF AdmissionFails, EmbedFails, EnrichFails, LLMBreaks, FindExpertFails,
                  LogQueryTimesOut, LogQueryFails, generation
    <2>2. pc[q] \in Stages \ Over
      BY <1>4 DEF AdmissionFails, EmbedFails, EnrichFails, LLMBreaks, FindExpertFails,
                  LogQueryTimesOut, LogQueryFails, At, Stages, Over
    <2> QED
      BY <2>1, <2>2, RaisesOn
  <1>5. CASE Disconnect(q)
    <2>1. pc'[q] = "left" /\ UNCHANGED <<attempt, got>>
      BY <1>5 DEF Disconnect, Goes, TypeInv, generation
    <2>2. pc[q] \in Stages \ Over
      BY <1>5 DEF Disconnect, TypeInv
    <2>3. ToGo["left"] = 0 /\ ToGo[pc[q]] > 0
      BY <2>2, ToGoIs DEF Stages, Over
    <2> QED
      BY <2>1, <2>3 DEF Advances
  <1>6. CASE Collect(q)
    BY <1>6 DEF Collect, Advances, TypeInv, generation
  <1> QED
    BY <1>1, <1>2, <1>3, <1>4, <1>5, <1>6
       DEF Step, Advance, Retrieve, Answer, Finish, Works, Fails

LEMMA FewerLeft ==
    ASSUME TypeInv, TypeInv', NEW q \in Queries, Advances(q)
    PROVE  StepsLeft(q)' < StepsLeft(q)
  <1> DEFINE Open == Early \cup {"enrich", "generate"}
             a == ToGo[pc[q]]
             b == ToGo[pc'[q]]
             g == Generation(q)
             k == IF q \in held THEN 1 ELSE 0
             l == IF q \in held' THEN 1 ELSE 0
             x == IF pc[q] \in Open THEN g ELSE 0
             y == IF pc'[q] \in Open THEN g ELSE 0
  <1>1. pc[q] \in Stages /\ pc'[q] \in Stages /\ a \in Nat /\ b \in Nat /\ g \in Nat
    BY ToGoTyped, GenerationTyped DEF TypeInv
  <1>2. Generation(q)' = g
    BY DEF Generation, Advances, Attempts
  <1>3. StepsLeft(q) = 2 * a + k + x /\ StepsLeft(q)' = 2 * b + l + y
    BY <1>2 DEF StepsLeft
  <1>4. b <= a /\ (pc'[q] \in Open => pc[q] \in Open)
    <2>1. \A s \in Stages : s \in Open <=> ToGo[s] >= 3
      BY DEF ToGo, Stages, Over, Early
    <2>2. b <= a
      BY <1>1 DEF Advances
    <2> HIDE DEF Open
    <2> QED
      BY <1>1, <2>1, <2>2
  <1>5. k \in {0, 1} /\ l \in {0, 1} /\ x \in Nat /\ y \in Nat /\ y <= x
    BY <1>1, <1>4
  <1>6. b < a \/ (b = a /\ k = 1 /\ l = 0)
    BY DEF Advances
  <1> HIDE DEF a, b, g, k, l, x, y
  <1>7. 2 * b + l + y < 2 * a + k + x
    BY <1>1, <1>5, <1>6
  <1> QED
    BY <1>3, <1>7

LEMMA StepTakesOne ==
    ASSUME TypeInv, TypeInv', NEW q \in Queries, Step(q)
    PROVE  StepsLeft(q)' < StepsLeft(q)
  <1> DEFINE m == MaxAnswer + 1
             A == Attempts(q)
             k == IF q \in held THEN 1 ELSE 0
  <1>1. /\ m \in Nat /\ MaxAnswer \in Nat /\ A \in Nat /\ k \in {0, 1}
        /\ attempt[q] \in 1..A /\ attempt'[q] \in 1..A
        /\ got[q] \in 0..MaxAnswer /\ got'[q] \in 0..MaxAnswer
    BY AttemptsTyped, QueryOK DEF TypeInv
  <1>2. Generation(q) = (A - attempt[q]) * m + (MaxAnswer - got[q])
    BY DEF Generation
  <1>3. Generation(q)' = (A - attempt'[q]) * m + (MaxAnswer - got'[q])
    BY DEF Generation, Attempts
  <1>4. CASE ~Works(q)
    BY <1>4, MovesAdvance, FewerLeft
  <1>5. CASE SearchReturns(q) \/ Enrich(q) \/ StreamCompletes(q) \/ StreamUnavailable(q)
             \/ FindExpert(q)
    <2>1. UNCHANGED <<attempt, got>>
      BY <1>5 DEF SearchReturns, Enrich, StreamCompletes, StreamUnavailable, FindExpert, generation
    <2>2. \/ Passes(q, "searching", "enrich") \/ Passes(q, "enrich", "generate")
          \/ Passes(q, "generate", "audit") \/ Passes(q, "route", "audit")
      BY <1>5 DEF SearchReturns, Enrich, StreamCompletes, StreamUnavailable, FindExpert
    <2>3. Advances(q)
      BY <2>1, <2>2, PassesOn, ToGoIs
    <2> QED
      BY <2>3, FewerLeft
  <1>6. CASE Generate(q) \/ GenerateUnavailable(q)
    <2>1. pc[q] = "generate" /\ pc'[q] = "route" /\ held' = held
      BY <1>6 DEF Generate, GenerateUnavailable, Passes, At, Goes, TypeInv
    <2>2. StepsLeft(q) = 2 * 3 + k + Generation(q) /\ StepsLeft(q)' = 2 * 2 + k + 0
      BY <2>1 DEF StepsLeft, ToGo, Stages, Over, Early
    <2>3. Generation(q) \in Nat
      BY GenerationTyped
    <2> HIDE DEF k
    <2> QED
      BY <1>1, <2>2, <2>3
  <1>7. ASSUME pc[q] = "generate", pc' = pc, held' = held,
               Generation(q)' < Generation(q)
        PROVE  StepsLeft(q)' < StepsLeft(q)
    <2>1. StepsLeft(q) = 2 * 3 + k + Generation(q) /\ StepsLeft(q)' = 2 * 3 + k + Generation(q)'
      BY <1>7 DEF StepsLeft, ToGo, Stages, Over, Early
    <2>2. Generation(q) \in Nat /\ Generation(q)' \in Nat
      <3>1. ASSUME TypeInv' PROVE Generation(q)' \in Nat
        <4> DEFINE d == A - attempt'[q]
                   e == MaxAnswer - got'[q]
        <4>1. d \in Nat /\ e \in Nat
          BY <1>1
        <4> HIDE DEF d, e, m
        <4>2. d * m \in Nat
          BY <1>1, <4>1, Times
        <4>3. d * m + e \in Nat
          BY <4>1, <4>2
        <4> QED
          BY <1>3, <4>3 DEF d, e
      <3> QED
        BY <3>1, GenerationTyped
    <2> HIDE DEF k
    <2> QED
      BY <1>1, <1>7, <2>1, <2>2
  <1>8. CASE GenerateStream(q)
    <2>1. /\ pc[q] = "generate" /\ pc' = pc /\ held' = held
          /\ attempt' = attempt /\ got'[q] = got[q] + 1
      BY <1>8 DEF GenerateStream, At, TypeInv
    <2>2. Generation(q)' < Generation(q)
      <3> DEFINE z == (A - attempt[q]) * m
      <3>1. z \in Nat
        <4> DEFINE d == A - attempt[q]
        <4>1. d \in Nat
          BY <1>1
        <4> HIDE DEF d, m
        <4>2. d * m \in Nat
          BY <1>1, <4>1, Times
        <4> QED
          BY <4>2 DEF d
      <3>2. Generation(q) = z + (MaxAnswer - got[q])
            /\ Generation(q)' = z + (MaxAnswer - (got[q] + 1))
        BY <1>2, <1>3, <2>1
      <3> HIDE DEF z
      <3> QED
        BY <1>1, <3>1, <3>2
    <2> QED
      BY <1>7, <2>1, <2>2
  <1>9. CASE GenerateTimesOut(q) \/ StreamTimesOut(q)
    <2>1. /\ pc[q] = "generate" /\ pc' = pc /\ held' = held
          /\ attempt'[q] = attempt[q] + 1 /\ got'[q] = 0
      BY <1>9 DEF GenerateTimesOut, StreamTimesOut, TimesOut, At, TypeInv
    <2>2. Generation(q)' < Generation(q)
      <3> DEFINE d == A - attempt'[q]
                 z == d * m
      <3>1. d \in Nat /\ A - attempt[q] = d + 1
        BY <1>1, <2>1
      <3> HIDE DEF d
      <3>2. z \in Nat /\ (A - attempt[q]) * m = z + m
        <4> HIDE DEF m
        <4>1. d * m \in Nat /\ (d + 1) * m = d * m + m
          BY <1>1, <3>1, Times
        <4> QED
          BY <3>1, <4>1
      <3>3. Generation(q)' = z + (MaxAnswer - 0)
        BY <1>3, <2>1 DEF d
      <3>4. Generation(q) = z + m + (MaxAnswer - got[q])
        BY <1>2, <3>2
      <3> HIDE DEF z
      <3> QED
        BY <1>1, <3>2, <3>3, <3>4
    <2> QED
      BY <1>7, <2>1, <2>2
  <1> QED
    BY <1>4, <1>5, <1>6, <1>8, <1>9 DEF Works

\* A request takes a bounded number of steps, whatever the others do: StepsLeft is a
\* number, what a request does takes from it and what another does leaves it.  No
\* retry, time-out or token can therefore make a request go on for ever (query.py,
\* streaming.py, llm_client.py).
THEOREM WorkIsBounded ==
    Spec => /\ [](\A q \in Queries : StepsLeft(q) \in Nat)
            /\ [][\A q \in Queries :
                     /\ StepsLeft(q)' <= StepsLeft(q)
                     /\ Step(q) => StepsLeft(q)' < StepsLeft(q)]_vars
  <1> DEFINE Typed == \A q \in Queries : StepsLeft(q) \in Nat
             Falls == \A q \in Queries :
                     /\ StepsLeft(q)' <= StepsLeft(q)
                     /\ Step(q) => StepsLeft(q)' < StepsLeft(q)
  <1>1. Inv => Typed
    BY StepsLeftTyped DEF Inv
  <1>2. Inv /\ Inv' /\ Typed /\ Typed' /\ [Next]_vars => [Falls]_vars
    <2> SUFFICES ASSUME Inv, Inv', Typed, Typed', Next, NEW q \in Queries
                 PROVE  /\ StepsLeft(q)' <= StepsLeft(q)
                        /\ Step(q) => StepsLeft(q)' < StepsLeft(q)
      BY DEF vars
    <2>1. StepsLeft(q) \in Nat /\ StepsLeft(q)' \in Nat
      OBVIOUS
    <2>2. Step(q) => StepsLeft(q)' < StepsLeft(q)
      BY StepTakesOne DEF Inv
    <2>3. PICK p \in Queries : Step(p)
      BY DEF Next, Step
    <2>4. CASE p = q
      BY <2>1, <2>2, <2>3, <2>4
    <2>5. CASE p # q
      <3>1. Same(q)
        BY <2>3, <2>5, Frame DEF Inv
      <3>2. StepsLeft(q)' = StepsLeft(q)
        BY <3>1 DEF Same, StepsLeft, Generation, Attempts
      <3> QED
        BY <2>1, <2>2, <3>2
    <2> QED
      BY <2>2, <2>4, <2>5
  <1> HIDE DEF Typed, Falls
  <1>3. Spec => []Typed /\ [][Falls]_vars
    BY <1>1, <1>2, InvHolds, PTL DEF Spec
  <1> QED
    BY <1>3 DEF Typed, Falls
=============================================================================
