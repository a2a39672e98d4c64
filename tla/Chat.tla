-------------------------------- MODULE Chat --------------------------------
(***************************************************************************)
(* The chat as a whole: the client of ChatStore over the history of        *)
(* Conversations, and what a user may rely on.                             *)
(*                                                                         *)
(* Five history variables say what has happened to a session; no action    *)
(* reads them.                                                             *)
(***************************************************************************)
EXTENDS ChatStore

VARIABLES
    strayed,    \* sessions that got an event while another one was displayed
    wiped,      \* sessions the user has cleared
    loadedFrom, \* the conversation a session was loaded from
    doubled,    \* sessions with two POSTs of a conversation at the same time
    late        \* rows committed after a row that is listed behind them

history == <<strayed, wiped, loadedFrom, doubled, late>>
vars == <<server, client, turn, history>>

Creating(s) ==
    {q \in Questions : stream[q].sid = s /\ turn[q].pc \in {"create", "created"}}

\* The rows of a conversation that this step commits, behind one that was.
Late(c) == {k \in Committed(c)' \ Committed(c) : \E i \in Committed(c) : i > k}

Observe ==
    /\ strayed' = strayed \cup {stream[q].sid : q \in
                    {q \in Open : stream'[q] # stream[q] /\ activeSessionId # stream[q].sid}}
    /\ wiped' = IF ClearChat THEN wiped \cup {activeSessionId} ELSE wiped
    /\ loadedFrom' = [s \in Sids |-> IF s \in used' \ used THEN serverId'[s]
                                     ELSE loadedFrom[s]]
    /\ doubled' = doubled \cup
                    {s \in Sids : \E p, q \in Creating(s)' : p # q}
    /\ late' = late \cup UNION {{c} \X Late(c) : c \in Convs}

-----------------------------------------------------------------------------
(* The specification *)

User ==
    \/ NewChat \/ ClearChat
    \/ \E s \in Sids : SelectSession(s)
    \/ \E q \in Questions : SendFirstQuery(q) \/ SendQuery(q)
    \/ \E l \in Loads : StartLoad(l)

StreamEvent(q) ==
    OnRetrieval(q) \/ OnToken(q) \/ OnComplete(q) \/ OnError(q)

PersistTurn(q) ==
    \/ ConversationCreated(q) \/ ConversationAnswered(q)
    \/ BeginQuestion(q) \/ AppendQuestion(q) \/ BeginAnswer(q) \/ AppendAnswer(q)
    \/ CallFails(q) \/ AnswerLost(q)

LoadConversations(l) ==
    \/ ListAnswered(l) \/ LoadFails(l)
    \/ \E c \in Convs : DetailAnswered(l, c)

Next ==
    /\ \/ User
       \/ \E q \in Questions : StreamEvent(q) \/ PersistTurn(q)
       \/ \E l \in Loads : LoadConversations(l)
    /\ Observe

Start ==
    /\ Init
    /\ strayed = {} /\ wiped = {} /\ doubled = {} /\ late = {}
    /\ loadedFrom = [s \in Sids |-> None]

Spec == Start /\ [][Next]_vars

\* A stream that is open goes on, and ends.  Nothing else is needed: the user
\* owes nothing.
Fairness == \A q \in Questions : WF_vars(StreamEvent(q) /\ Observe)

FairSpec == Spec /\ Fairness

-----------------------------------------------------------------------------
(* Properties *)

ServerOK ==
    /\ recent \in Seq(Convs) /\ IsInjective(recent)
    /\ stored \in [Convs -> Seq(Messages)]

StoreOK ==
    /\ sessions \in Seq(Sids) /\ IsInjective(sessions)
    /\ Listed \subseteq used /\ used \subseteq Sids
    /\ serverId \in [Sids -> Convs \cup {None}]
    /\ sessionMessages \in [Sids -> Seq(Messages)]

ViewOK ==
    /\ activeSessionId \in Listed \cup {None}
    /\ messages \in Seq(Messages)
    /\ isLoading \in BOOLEAN

AsyncOK ==
    /\ stream \in [Questions -> Streams]
    /\ turn \in [Questions -> Turns]
    /\ load \in [Loads -> Fetches]

HistoryOK ==
    /\ strayed \subseteq Sids /\ wiped \subseteq Sids \cup {None} /\ doubled \subseteq Sids
    /\ loadedFrom \in [Sids -> Convs \cup {None}]
    /\ late \subseteq Convs \X (Nat \ {0})

\* The store and the rows hold values of their kinds; no conversation and no
\* session is listed twice; the active session is one of the side bar, whatever
\* newChat cuts off and a load replaces.
TypeOK == ServerOK /\ StoreOK /\ ViewOK /\ AsyncOK /\ HistoryOK

Has(ms, q) == \E m \in ToSet(ms) : IsAnswerTo(m, q)

\* A question and its answer stay in the session they were asked in: the
\* messages of a session can be another's only if one of its events came while
\* the other was displayed (updateAssistant stores what is displayed).
SessionsKeptApart ==
    \A s \in Listed \ strayed : \A q \in Questions :
        Has(sessionMessages[s], q) => stream[q].sid = s

\* The display is a copy of the active session and never drifts from it
\* through switching, loading, clearing and the events of streams, except as
\* above.
DisplayAgrees ==
    activeSessionId # None =>
        \/ messages = sessionMessages[activeSessionId]
        \/ activeSessionId \in strayed

\* Every token received is in the session of its question, once, from the
\* first one on, whatever was sent, selected or completed meanwhile.
NoTokenLost ==
    \A q \in Questions :
        (/\ stream[q].state \in {"streaming", "complete"}
         /\ stream[q].sid \in Listed \ (strayed \cup wiped)) =>
            \E m \in ToSet(sessionMessages[stream[q].sid]) :
                /\ IsAnswerTo(m, q)
                /\ m.text = 1..stream[q].sent
                /\ m.status = IF stream[q].state = "complete" THEN "done" ELSE "streaming"

\* What a session was loaded with are rows of its conversation in their order,
\* before what was asked since, with none left out that was there: one that is
\* listed among them now was committed late, by a POST that overlapped another.
LoadedIsStored ==
    \A s \in Listed \ strayed :
        LET ms == sessionMessages[s]
            c == serverId[s] IN
        \E n \in 0..Len(ms) :
            /\ \A i \in DOMAIN ms : ms[i].saved <=> i <= n
            /\ n > 0 => \E f \in [1..n -> Committed(c)] :
                /\ \A i \in 1..n : ms[i] = stored[c][f[i]]
                /\ \A i, j \in 1..n : i < j => f[i] < f[j]
                /\ \A k \in Committed(c) \ ToSet(f) : k < f[n] => <<c, k>> \in late

\* Where the rows of a turn are, those included that are not yet committed.
Places(q, role) ==
    {p \in UNION {{c} \X DOMAIN stored[c] : c \in Convs} :
        stored[p[1]][p[2]].q = q /\ stored[p[1]][p[2]].role = role}

\* A turn is stored at most once, the answer after its question, which is then
\* committed, and in the same conversation, however turns, loads and failures
\* overlap.
StoredOnce ==
    \A q \in Questions :
        /\ \A p1, p2 \in Places(q, "user") : p1 = p2
        /\ \A p1, p2 \in Places(q, "assistant") : p1 = p2
        /\ \A a \in Places(q, "assistant") :
            \E u \in Places(q, "user") :
                u[1] = a[1] /\ u[2] < a[2] /\ stored[u[1]][u[2]].saved

\* The API refuses an answer only if there was none, or it was too long, or it
\* was wiped or strayed; and an answer that is stored is whole, unless strayed.
AnswersStoredWhole ==
    \A q \in Questions :
        /\ turn[q].pc = "rejected" =>
            \/ stream[q].sid \in strayed \cup wiped
            \/ stream[q].sent \notin 1..MaxContent
        /\ stream[q].sid \notin strayed =>
            \A p \in Places(q, "assistant") :
                stored[p[1]][p[2]].text = 1..stream[q].sent

\* One conversation for each session: a second one is made only while the
\* first is being made, or when the answer to the first POST was lost.
OneConversation ==
    \A p, q \in Questions :
        (p # q /\ turn[p].made /\ turn[q].made /\ stream[p].sid = stream[q].sid) =>
            \/ stream[p].sid \in doubled
            \/ "orphaned" \in {turn[p].pc, turn[q].pc}

\* A turn is stored in a conversation that was made for its own session or
\* that its session was loaded from: an answer of the API that arrives after
\* the user has switched does not mix two threads up.
FiledWithItsSession ==
    \A q \in Questions : \A p \in Places(q, "user") :
        \/ loadedFrom[stream[q].sid] = p[1]
        \/ \E r \in Questions :
            turn[r].made /\ turn[r].conv = p[1] /\ stream[r].sid = stream[q].sid

\* The input is always unblocked again: no way out of queryStream leaves
\* isLoading set, and no stream that ends too early or too late does.
LoadingEnds == isLoading ~> ~isLoading

-----------------------------------------------------------------------------
(* What documents and tests say, and the code does not do *)

\* sendQuery "finalizes on onComplete": once a stream has completed, its
\* answer is in its session.
FinalizedOnComplete ==
    \A q \in Questions :
        stream[q].state = "complete" /\ stream[q].sid \in Listed \ wiped =>
            Has(sessionMessages[stream[q].sid], q)
=============================================================================
