------------------------------- MODULE Query -------------------------------
(***************************************************************************)
(* The query API: any number of requests, POST /query and GET              *)
(* /query/stream, over one pool of database connections, the graph and the *)
(* LLM.  Each step ends where the code awaits, or where it yields an event *)
(* of a stream.                                                            *)
(*                                                                         *)
(* get_current_user leaves a transaction open: a POST keeps its connection *)
(* until it is over, also while its search and the LLM take their time.  A *)
(* stream has lost the session of its request before it begins; its audit  *)
(* opens a new transaction, which ends when the session is collected.      *)
(***************************************************************************)
EXTENDS Answers

CONSTANTS
    Streamed,      \* requests of GET /query/stream
    Corpora,       \* what document_chunks may hold
    Experts,       \* authors the graph may suggest
    Nobody,        \* no suggestion
    MaxRequests,   \* bound on the requests of a behaviour
    PoolSize,      \* pool_size and max_overflow together (15)
    MaxAnswer,     \* bound on the tokens of an answer (num_predict)
    Preview,       \* what an audit row keeps of an answer (500 characters)
    MaxAttempts,   \* attempts of generate (3)
    StreamAttempts \* attempts of generate_stream (2)

ASSUME QueryOK ==
    /\ Streamed \subseteq Queries
    /\ \A corpus \in Corpora : corpus \subseteq Chunk /\ IsFiniteSet(corpus)
    /\ Nobody \notin Experts
    /\ MaxRequests \in Nat /\ PoolSize \in Nat \ {0}
    /\ MaxAnswer \in Nat /\ Preview \in Nat
    /\ MaxAttempts \in Nat \ {0} /\ StreamAttempts \in Nat \ {0}

VARIABLES
    pc,
    corpus,    \* the rows of document_chunks, by the likeness to the question
    held,      \* requests whose own session holds a connection
    chunks,    \* chunks[q]: what the search returned
    searched,  \* requests whose search was answered by the database
    attempt,   \* attempt[q]: the attempt of the LLM call
    got,       \* got[q]: tokens of the present attempt
    answer,    \* answer[q]: the tokens the request has, in order
    sent,      \* sent[q]: the events of a stream
    unavailable, \* requests the LLM was not available for
    expert,    \* expert[q]
    audit      \* audit[q]: the rows of audit_logs about q

vars == <<pc, corpus, held, chunks, searched, attempt, got, answer, sent,
          unavailable, expert, audit>>
retrieval == <<corpus, chunks, searched>>
generation == <<attempt, got, answer, unavailable>>
outcome == <<sent, expert, audit>>

Event(type, n) == [type |-> type, n |-> n]

Init ==
    /\ corpus \in Corpora
    /\ pc = [q \in Queries |-> "new"]
    /\ held = {} /\ searched = {} /\ unavailable = {}
    /\ chunks = [q \in Queries |-> << >>]
    /\ attempt = [q \in Queries |-> 1]
    /\ got = [q \in Queries |-> 0]
    /\ answer = [q \in Queries |-> << >>]
    /\ sent = [q \in Queries |-> << >>]
    /\ expert = [q \in Queries |-> Nobody]
    /\ audit = [q \in Queries |-> << >>]

InUse == Cardinality(held) + Cardinality({q \in Queries : pc[q] = "searching"})
Spare == InUse < PoolSize

At(q, from) == pc[q] = from
Goes(q, to) == pc' = [pc EXCEPT ![q] = to]
Passes(q, from, to) == At(q, from) /\ Goes(q, to)

Over == {"done", "failed", "left"}
\* The request raises: its session, if it has one, is closed.
Raises(q) ==
    /\ Goes(q, "failed")
    /\ held' = held \ {q}

-----------------------------------------------------------------------------
(* Admission and retrieval *)

MayArrive == Cardinality({q \in Queries : pc[q] # "new"}) < MaxRequests

\* get_current_user; whom it admits, and with which tags, is in AccessControl.
GetCurrentUser(q) ==
    /\ MayArrive /\ Spare
    /\ Passes(q, "new", IF q \in Streamed THEN "start" ELSE "search")
    /\ held' = held \cup {q}
    /\ UNCHANGED <<retrieval, generation, outcome>>

\* No connection within the pool's time-out.
AdmissionFails(q) ==
    /\ At(q, "new") /\ MayArrive /\ ~Spare
    /\ Raises(q)
    /\ UNCHANGED <<retrieval, generation, outcome>>

\* The endpoint returns; the dependencies end before the body is sent.
StreamQuery(q) ==
    /\ Passes(q, "start", "search")
    /\ held' = held \ {q}
    /\ UNCHANGED <<retrieval, generation, outcome>>

\* A question of blanks only, which both endpoints accept.
EmbedFails(q) ==
    /\ At(q, "search")
    /\ Raises(q)
    /\ UNCHANGED <<retrieval, generation, outcome>>

\* The search has a session, and so a connection, of its own.
SearchBegins(q) ==
    /\ Spare
    /\ Passes(q, "search", "searching")
    /\ UNCHANGED <<held, retrieval, generation, outcome>>

SearchReturns(q) ==
    /\ Passes(q, "searching", "enrich")
    /\ \E s \in Results(q, corpus) : chunks' = [chunks EXCEPT ![q] = s]
    /\ searched' = searched \cup {q}
    /\ UNCHANGED <<held, corpus, generation, outcome>>

\* Any exception is an empty result ...
SearchFails(q) ==
    /\ Passes(q, "searching", "enrich")
    /\ UNCHANGED <<held, retrieval, generation, outcome>>

\* A mutant: the pool has no time-out.
SearchWaits(q) == At(q, "search") /\ ~Spare /\ UNCHANGED vars

\* ... and so is that of the pool's time-out.
SearchTimesOut(q) ==
    /\ ~Spare
    /\ Passes(q, "search", "enrich")
    /\ UNCHANGED <<held, retrieval, generation, outcome>>

\* After the graph the prompts are built and a stream says what was found.
Enrich(q) ==
    /\ Passes(q, "enrich", "generate")
    /\ sent' = IF q \in Streamed
               THEN [sent EXCEPT ![q] = <<Event("retrieval_done", Len(chunks[q]))>>]
               ELSE sent
    /\ UNCHANGED <<held, retrieval, generation, expert, audit>>

\* Without a url to look for the graph is not asked.
EnrichFails(q) ==
    /\ At(q, "enrich") /\ UrlsOf(chunks[q]) # {}
    /\ Raises(q)
    /\ UNCHANGED <<retrieval, generation, outcome>>

-----------------------------------------------------------------------------
(* The LLM *)

\* ConnectError or a time-out: the call is made again, from the start.
TimesOut(q, attempts) ==
    /\ At(q, "generate") /\ attempt[q] < attempts
    /\ attempt' = [attempt EXCEPT ![q] = @ + 1]
    /\ got' = [got EXCEPT ![q] = 0]
    /\ UNCHANGED <<pc, held, retrieval, answer, unavailable, outcome>>

Generate(q) ==
    /\ q \notin Streamed /\ Passes(q, "generate", "route")
    /\ \E n \in 0..MaxAnswer : answer' = [answer EXCEPT ![q] = [k \in 1..n |-> k]]
    /\ attempt' = [attempt EXCEPT ![q] = 1]
    /\ UNCHANGED <<held, retrieval, got, unavailable, outcome>>

GenerateTimesOut(q) == q \notin Streamed /\ TimesOut(q, MaxAttempts)

\* The last time-out, an HTTP status or an answer that is no JSON: the text is empty.
GenerateUnavailable(q) ==
    /\ q \notin Streamed /\ Passes(q, "generate", "route")
    /\ unavailable' = unavailable \cup {q}
    /\ attempt' = [attempt EXCEPT ![q] = 1]
    /\ UNCHANGED <<held, retrieval, got, answer, outcome>>

\* What was sent already stays in the answer when the stream starts again.
GenerateStream(q) ==
    /\ q \in Streamed /\ At(q, "generate") /\ got[q] < MaxAnswer
    /\ got' = [got EXCEPT ![q] = @ + 1]
    /\ answer' = [answer EXCEPT ![q] = Append(@, got[q] + 1)]
    /\ sent' = [sent EXCEPT ![q] = Append(@, Event("token", got[q] + 1))]
    /\ UNCHANGED <<pc, held, retrieval, attempt, unavailable, expert, audit>>

\* A mutant: range(1, 4)
StreamTimesOutTwice(q) == q \in Streamed /\ TimesOut(q, StreamAttempts + 1)

StreamTimesOut(q) == q \in Streamed /\ TimesOut(q, StreamAttempts)

StreamCompletes(q) ==
    /\ q \in Streamed /\ Passes(q, "generate", "audit")
    /\ sent' = [sent EXCEPT ![q] = Append(@, Event("complete", 0))]
    /\ UNCHANGED <<held, retrieval, generation, expert, audit>>

\* Two mutants: the error ends the request at once; nothing ends after the error.
StreamUnavailableUnlogged(q) ==
    /\ q \in Streamed /\ Passes(q, "generate", "done")
    /\ unavailable' = unavailable \cup {q}
    /\ sent' = [sent EXCEPT ![q] = Append(@, Event("error", 0))]
    /\ UNCHANGED <<held, retrieval, attempt, got, answer, expert, audit>>
StreamUnavailableGoesOn(q) ==
    /\ q \in Streamed /\ At(q, "generate") /\ q \notin unavailable
    /\ unavailable' = unavailable \cup {q}
    /\ sent' = [sent EXCEPT ![q] = Append(@, Event("error", 0))]
    /\ UNCHANGED <<pc, held, retrieval, attempt, got, answer, expert, audit>>

StreamUnavailable(q) ==
    /\ q \in Streamed /\ Passes(q, "generate", "audit")
    /\ unavailable' = unavailable \cup {q}
    /\ sent' = [sent EXCEPT ![q] = Append(@, Event("error", 0))]
    /\ UNCHANGED <<held, retrieval, attempt, got, answer, expert, audit>>

\* Any other httpx error, a connection broken while it is read among them.
LLMBreaks(q) ==
    /\ At(q, "generate")
    /\ Raises(q)
    /\ UNCHANGED <<retrieval, generation, outcome>>

-----------------------------------------------------------------------------
(* What follows the answer *)

Routes(q) == LowConfidence(chunks[q]) /\ q \notin unavailable

FindExpert(q) ==
    /\ Passes(q, "route", "audit")
    /\ \E e \in Experts \cup {Nobody} :
        /\ e # Nobody => Routes(q)
        /\ expert' = [expert EXCEPT ![q] = e]
    /\ UNCHANGED <<held, retrieval, generation, sent, audit>>

FindExpertFails(q) ==
    /\ At(q, "route") /\ Routes(q)
    /\ Raises(q)
    /\ UNCHANGED <<retrieval, generation, outcome>>

\* answer_preview: the beginning of the answer.
PreviewOf(s) == SubSeq(s, 1, IF Len(s) < Preview THEN Len(s) ELSE Preview)

\* A POST counts its citations, a stream the chunks it was told of.
Row(q) ==
    [preview |-> PreviewOf(answer[q]),
     count |-> IF q \in Streamed THEN sent[q][1].n ELSE Len(Citations(chunks[q])),
     stream |-> q \in Streamed]
Logged(q) == audit' = [audit EXCEPT ![q] = Append(@, Row(q))]

HasSession(q) == q \in held \/ Spare

\* A POST is answered then, and its session closed.
LogQuery(q) ==
    /\ HasSession(q)
    /\ Passes(q, "audit", "done")
    /\ Logged(q)
    /\ held' = IF q \in Streamed THEN held \cup {q} ELSE held \ {q}
    /\ UNCHANGED <<retrieval, generation, sent, expert>>

LogQueryTimesOut(q) ==
    /\ At(q, "audit") /\ ~HasSession(q)
    /\ Raises(q)
    /\ UNCHANGED <<retrieval, generation, outcome>>

\* Before the commit or, on the way to refresh, after it.
LogQueryFails(q) ==
    /\ At(q, "audit") /\ HasSession(q)
    /\ audit' = audit \/ Logged(q)
    /\ Raises(q)
    /\ UNCHANGED <<retrieval, generation, sent, expert>>

\* The client has gone: the task that sends the body is cancelled.
Disconnect(q) ==
    /\ q \in Streamed /\ pc[q] \notin Over \cup {"new", "start"}
    /\ Goes(q, "left")
    /\ audit' = audit \/ (At(q, "audit") /\ HasSession(q) /\ Logged(q))
    /\ UNCHANGED <<held, retrieval, generation, sent, expert>>

\* The garbage collector finds the session of a stream that is over.
Collect(q) ==
    /\ At(q, "done") /\ q \in held
    /\ held' = held \ {q}
    /\ UNCHANGED <<pc, retrieval, generation, outcome>>

-----------------------------------------------------------------------------
(* The specification *)

Retrieve(q) ==
    \/ GetCurrentUser(q) \/ AdmissionFails(q) \/ StreamQuery(q)
    \/ SearchBegins(q) \/ SearchReturns(q) \/ SearchTimesOut(q)
    \/ Enrich(q)

Answer(q) ==
    \/ Generate(q) \/ GenerateTimesOut(q) \/ GenerateUnavailable(q)
    \/ GenerateStream(q) \/ StreamTimesOut(q) \/ StreamCompletes(q) \/ StreamUnavailable(q)

Finish(q) == FindExpert(q) \/ LogQuery(q) \/ LogQueryTimesOut(q)

Advance(q) == Retrieve(q) \/ Answer(q) \/ Finish(q)

Fails(q) ==
    \/ EmbedFails(q) \/ SearchFails(q) \/ EnrichFails(q)
    \/ LLMBreaks(q) \/ FindExpertFails(q) \/ LogQueryFails(q)

Next == \E q \in Queries : Advance(q) \/ Fails(q) \/ Disconnect(q) \/ Collect(q)

\* The pool and the LLM have time-outs, and an answer ends with num_predict.  A
\* statement and a read of the graph have none: they are assumed to answer.
\* Nothing needs a failure to go on, nor the garbage collector.
Fairness == \A q \in Queries : WF_vars(Advance(q))

Spec == Init /\ [][Next]_vars /\ Fairness

-----------------------------------------------------------------------------
(* Properties *)

Stages == {"new", "start", "search", "searching", "enrich", "generate",
           "route", "audit"} \cup Over
Tokens == 1..MaxAnswer
Attempts(q) == IF q \in Streamed THEN StreamAttempts ELSE MaxAttempts

\* Types; no more connections are out than the pool has, and a request holds
\* one only where the code has a session open.
TypeOK ==
    /\ pc \in [Queries -> Stages]
    /\ corpus \in Corpora
    /\ held \subseteq Queries /\ InUse <= PoolSize
    /\ \A q \in held : pc[q] = "done" => q \in Streamed
    /\ chunks \in [Queries -> Seq(Chunk)]
    /\ searched \subseteq Queries /\ unavailable \subseteq Queries
    /\ \A q \in Queries : attempt[q] \in 1..Attempts(q)
    /\ got \in [Queries -> 0..MaxAnswer]
    /\ answer \in [Queries -> Seq(Tokens)]
    /\ expert \in [Queries -> Experts \cup {Nobody}]
    /\ \A q \in Queries : \A row \in ToSet(audit[q]) : row.preview \in Seq(Tokens)

\* What was found is what the caller may read and the best of it; where the
\* search failed it is nothing.
BestPermitted(q) ==
    /\ q \notin searched => chunks[q] = << >> /\ LowConfidence(chunks[q])
    /\ q \in searched =>
         /\ ToSet(chunks[q]) \subseteq Permitted(q, corpus)
         /\ \A c \in Permitted(q, corpus) \ ToSet(chunks[q]) :
                Len(chunks[q]) = TopK /\ \A d \in ToSet(chunks[q]) : c.score <= d.score

\* A question is answered from what its caller may read and from the best of
\* it: the prompt holds the best chunks as far as they fit, every document
\* found is cited once, and nothing at all where the search failed, which is
\* answered with low confidence.
AnsweredFromTheBest ==
    \A q \in Queries : pc[q] \in {"generate", "route", "audit", "done"} =>
        /\ BestPermitted(q)
        /\ PromptFits(q, chunks[q])
        /\ CitesAll(chunks[q])

\* A request that was answered has one audit row, and none has two; a row is
\* of a request that had its whole answer, the error included, and tells the
\* beginning of it as the client got it: all of a short one and no less than the
\* preview of a longer one, token by token, each once unless a time-out made the LLM
\* begin again, with the number of the chunks found or, for a POST, of its citations.
\* A stream whose client leaves after the last event may have none.
AuditTellsTheAnswer ==
    \A q \in Queries :
        /\ pc[q] = "done" => Len(audit[q]) = 1
        /\ Len(audit[q]) <= 1
        /\ \A row \in ToSet(audit[q]) :
            /\ IsPrefix(row.preview, answer[q])
            /\ Len(row.preview) < Preview => row.preview = answer[q]
            /\ attempt[q] = 1 =>
                 \A k \in DOMAIN row.preview : row.preview[k] = k
            /\ row.count = IF q \in Streamed THEN Len(chunks[q])
                           ELSE Len(Citations(chunks[q]))
            /\ q \in Streamed => Last(sent[q]).type \in {"complete", "error"}

\* Every stream is one of AnswerStream: the events come in the promised order.
Stage(q) ==
    IF sent[q] # << >> /\ Last(sent[q]).type \in {"complete", "error"} THEN Last(sent[q]).type
    ELSE IF pc[q] \in {"failed", "left"} THEN "cut"
    ELSE IF sent[q] = << >> THEN "silent" ELSE "open"

Promised == INSTANCE AnswerStream WITH
    Streams <- Streamed, MaxFound <- TopK, MaxRestarts <- StreamAttempts - 1,
    shown <- [q \in Streamed |-> sent[q]],
    stage <- [q \in Streamed |-> Stage(q)],
    last <- [q \in Streamed |-> got[q]],
    restarts <- [q \in Streamed |-> attempt[q] - 1]

StreamsAsPromised == Promised!Spec

\* Every request that is admitted is over some day, though requests that hold a
\* connection wait for another of the same pool.
RequestsEnd == \A q \in Queries : pc[q] # "new" ~> pc[q] \in Over
=============================================================================
