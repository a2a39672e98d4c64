----------------------------- MODULE ChatProofs -----------------------------
(***************************************************************************)
(* Theorems about Chat, for any questions, sessions, conversations, loads, *)
(* clicks and faults, and all lengths of answers:                          *)
(*                                                                         *)
(*    TypeCorrect        TypeOK                                            *)
(*    StoredAtMostOnce   StoredOnce                                        *)
(*    MessagesStayApart  SessionsKeptApart                                 *)
(*    DisplayIsACopy     DisplayAgrees                                     *)
(*    TokensAreKept      NoTokenLost                                       *)
(*    BlockedWhileStreaming  the part of LoadingEnds without fairness      *)
(*                                                                         *)
(* The invariants are TypeInv, with StoredInv for what a turn has stored,  *)
(* and OriginInv and SessionsInv for what sessions and display hold.  For  *)
(* each group of variables one lemma lists the steps that touch it         *)
(* (ServerSteps, ClientSteps, TurnSteps), and one lemma for each operation *)
(* says what it leaves; the invariants are shown from these.               *)
(***************************************************************************)
EXTENDS Chat, SequenceLemmas, FiniteSetTheorems

-----------------------------------------------------------------------------
(* Types *)

\* What a stream and a turn say of each other: a question that was asked has a
\* session, and only a completed stream has begun to be persisted.
StreamsOK ==
    \A q \in Questions :
        /\ stream[q].state # "unasked" => stream[q].sid \in Sids
        /\ stream[q].state = "unasked" => stream[q].sid = None
        /\ stream[q].state # "complete" => turn[q].pc = "none"

TypeInv == TypeOK /\ StreamsOK

Statuses == {"thinking", "streaming", "done", "error"}

\* What sendQuery and persistTurn build are messages.
LEMMA MessageFields ==
    ASSUME NEW q \in Questions, NEW text \in Texts, NEW status \in Statuses
    PROVE  /\ Question(q) \in Messages
           /\ Question(q).q = q /\ Question(q).role = "user" /\ Question(q).saved = FALSE
           /\ Answer(q, text, status) \in Messages
           /\ Answer(q, text, status).q = q
           /\ Answer(q, text, status).role = "assistant"
           /\ Answer(q, text, status).text = text
           /\ Answer(q, text, status).status = status
           /\ Answer(q, text, status).saved = FALSE
<1>1. {} \in Texts
  BY DEF Texts
<1> QED
  BY <1>1 DEF Question, Answer, Messages, Statuses

\* A message that is stored keeps what it says.
LEMMA SavedFields ==
    ASSUME NEW m \in Messages
    PROVE  /\ [m EXCEPT !.saved = TRUE] \in Messages
           /\ [m EXCEPT !.saved = TRUE].saved
           /\ [m EXCEPT !.saved = TRUE].q = m.q
           /\ [m EXCEPT !.saved = TRUE].role = m.role
  BY DEF Messages

LEMMA SavedAgain ==
    ASSUME NEW m \in Messages
    PROVE  /\ [m EXCEPT !.saved = TRUE].text = m.text
           /\ m.saved => [m EXCEPT !.saved = TRUE] = m
  BY DEF Messages

\* A message that updateAssistant rewrites keeps what it is.
LEMMA UpdatedFields ==
    ASSUME NEW m \in Messages, NEW text \in Texts, NEW status \in Statuses, NEW n,
           n = [m EXCEPT !.text = text, !.status = status]
    PROVE  /\ n \in Messages
           /\ n.q = m.q /\ n.role = m.role /\ n.saved = m.saved
           /\ n.text = text /\ n.status = status
  BY DEF Messages, Statuses

\* The elements of a sequence over T are in T.
LEMMA ElementsIn ==
    ASSUME NEW T, NEW s \in Seq(T)
    PROVE  ToSet(s) \subseteq T
  BY LenProperties, ElementOfSeq DEF ToSet

\* The places of a sequence are finitely many.
LEMMA RowsFinite ==
    ASSUME NEW T, NEW s \in Seq(T), NEW P, P \subseteq DOMAIN s
    PROVE  IsFiniteSet(P)
<1>1. DOMAIN s = 1..Len(s) /\ Len(s) \in Nat
  BY LenProperties
<1>2. IsFiniteSet(1..Len(s))
  BY <1>1, FS_Interval
<1> QED
  BY <1>1, <1>2, FS_Subset

\* What is on display of an answer is a text.
LEMMA DisplayedText ==
    ASSUME messages \in Seq(Messages), NEW q \in Questions
    PROVE  Displayed(q) \in Texts
<1>1. ToSet(messages) \subseteq Messages
  BY ElementsIn
<1> QED
  BY <1>1 DEF Displayed, Texts, Messages

\* What updateAssistant does to the display.
LEMMA UpdateAssistantFields ==
    ASSUME TypeOK, NEW q \in Questions, NEW text \in Texts, NEW status \in Statuses,
           UpdateAssistant(q, text, status)
    PROVE  /\ messages' \in Seq(Messages)
           /\ DOMAIN messages' = DOMAIN messages
           /\ \A i \in DOMAIN messages :
                /\ messages[i] \in Messages /\ messages'[i] \in Messages
                /\ ~IsAnswerTo(messages[i], q) => messages'[i] = messages[i]
                /\ IsAnswerTo(messages[i], q) =>
                     /\ messages'[i].q = messages[i].q
                     /\ messages'[i].role = messages[i].role
                     /\ messages'[i].saved = messages[i].saved
                     /\ messages'[i].text = text /\ messages'[i].status = status
           /\ sessionMessages' = [sessionMessages EXCEPT ![stream[q].sid] =
                                    IF stream[q].sid \in Listed THEN messages' ELSE @]
           /\ sessionMessages' \in [Sids -> Seq(Messages)]
           /\ UNCHANGED <<sessions, used, serverId, activeSessionId>>
<1>1. /\ Len(messages) \in Nat /\ DOMAIN messages = 1..Len(messages)
      /\ \A i \in DOMAIN messages : messages[i] \in Messages
  BY LenProperties, ElementOfSeq DEF TypeOK, ViewOK
<1>2. messages' = [i \in DOMAIN messages |->
                     IF IsAnswerTo(messages[i], q)
                       THEN [messages[i] EXCEPT !.text = text, !.status = status]
                       ELSE messages[i]]
  BY DEF UpdateAssistant
<1>3. messages' \in [1..Len(messages) -> Messages]
  BY <1>1, <1>2, UpdatedFields
<1>4. messages' \in Seq(Messages) /\ DOMAIN messages' = DOMAIN messages
  BY <1>1, <1>3, FunIsSeq
<1>5. ASSUME NEW i \in DOMAIN messages
      PROVE  /\ messages[i] \in Messages /\ messages'[i] \in Messages
             /\ ~IsAnswerTo(messages[i], q) => messages'[i] = messages[i]
             /\ IsAnswerTo(messages[i], q) =>
                     /\ messages'[i].q = messages[i].q
                     /\ messages'[i].role = messages[i].role
                     /\ messages'[i].saved = messages[i].saved
                     /\ messages'[i].text = text /\ messages'[i].status = status
  <2>1. CASE IsAnswerTo(messages[i], q)
    <3> DEFINE m == messages[i]
    <3>1. m \in Messages /\ messages'[i] = [m EXCEPT !.text = text, !.status = status]
      BY <2>1, <1>1, <1>2
    <3> HIDE DEF m
    <3>2. /\ messages'[i] \in Messages
          /\ messages'[i].q = m.q /\ messages'[i].role = m.role
          /\ messages'[i].saved = m.saved
          /\ messages'[i].text = text /\ messages'[i].status = status
      BY <3>1 DEF Messages, Statuses
    <3> QED
      BY <2>1, <3>1, <3>2 DEF m
  <2>2. CASE ~IsAnswerTo(messages[i], q)
    BY <2>2, <1>1, <1>2
  <2> QED
    BY <2>1, <2>2
<1>6. sessionMessages' = [sessionMessages EXCEPT ![stream[q].sid] =
                                    IF stream[q].sid \in Listed THEN messages' ELSE @]
  BY DEF UpdateAssistant, SetSessionMessages
<1>7. sessionMessages' \in [Sids -> Seq(Messages)]
  BY <1>4, <1>6 DEF TypeOK, StoreOK
<1> QED
  BY <1>4, <1>5, <1>6, <1>7 DEF UpdateAssistant

\* What replacing all sessions leaves: fresh ids, each with the messages of one
\* of the conversations, and the first of them on display.
LEMMA ReplaceSessionsFields ==
    ASSUME TypeOK, NEW list \in Seq(Convs), NEW detail \in [Convs -> Seq(Messages)],
           ReplaceSessions(list, detail)
    PROVE  /\ StoreOK'
           /\ activeSessionId' \in Listed' \cup {None}
           /\ messages' \in Seq(Messages)
           /\ Listed' \cap used = {} /\ used' = used \cup Listed'
           /\ \A s \in Listed' : \E c \in Convs : sessionMessages'[s] = detail[c]
           /\ \A s \in Listed' :
                serverId'[s] \in Convs /\ sessionMessages'[s] = detail[serverId'[s]]
           /\ \A s \in Sids \ Listed' : sessionMessages'[s] = <<>>
           /\ activeSessionId' # None => messages' = sessionMessages'[activeSessionId']
<1> DEFINE n == Len(list)
           loaded == LoadedMessages(list, detail)
<1>1. n \in Nat /\ DOMAIN list = 1..n /\ \A i \in 1..n : list[i] \in Convs
  BY LenProperties, ElementOfSeq
<1>2. PICK ids \in NewIds(n) :
        LET place == [s \in ToSet(ids) |-> CHOOSE i \in DOMAIN ids : ids[i] = s] IN
        /\ sessions' = ids
        /\ used' = used \cup ToSet(ids)
        /\ serverId' = [s \in Sids |-> IF s \in ToSet(ids) THEN list[place[s]]
                                                            ELSE serverId[s]]
        /\ sessionMessages' = [s \in Sids |-> IF s \in ToSet(ids) THEN loaded[place[s]]
                                                                   ELSE <<>>]
        /\ Display(ids, loaded)
  BY DEF ReplaceSessions
<1> DEFINE place == [s \in ToSet(ids) |-> CHOOSE i \in DOMAIN ids : ids[i] = s]
<1>3. /\ ids \in [1..n -> Sids \ used] /\ IsInjective(ids) /\ ids \in Seq(Sids)
      /\ DOMAIN ids = 1..n
  <2>1. ids \in [1..n -> Sids \ used] /\ IsInjective(ids)
    BY <1>2 DEF NewIds
  <2>2. ids \in [1..n -> Sids]
    BY <2>1
  <2> QED
    BY <2>1, <2>2, <1>1, FunIsSeq
<1>4. ToSet(ids) \subseteq Sids \ used
  BY <1>3 DEF ToSet
<1>5. \A s \in ToSet(ids) : place[s] \in 1..n /\ ids[place[s]] = s
  BY <1>3 DEF ToSet
<1>6. /\ DOMAIN loaded = 1..n
      /\ \A i \in 1..n : loaded[i] = detail[list[i]] /\ loaded[i] \in Seq(Messages)
  BY <1>1 DEF LoadedMessages
<1>7. /\ sessions' = ids
      /\ used' = used \cup ToSet(ids)
      /\ serverId' = [s \in Sids |-> IF s \in ToSet(ids) THEN list[place[s]]
                                                            ELSE serverId[s]]
      /\ sessionMessages' = [s \in Sids |-> IF s \in ToSet(ids) THEN loaded[place[s]]
                                                                   ELSE <<>>]
      /\ activeSessionId' = IF ids = <<>> THEN None ELSE ids[1]
      /\ messages' = IF ids = <<>> THEN <<>> ELSE loaded[1]
  BY <1>2 DEF Display
<1>8. Listed' = ToSet(ids)
  BY <1>7 DEF Listed
<1> HIDE DEF n, loaded, place
<1>9. serverId' \in [Sids -> Convs \cup {None}]
  BY <1>1, <1>5, <1>7 DEF TypeOK, StoreOK
<1>10. <<>> \in Seq(Messages)
  OBVIOUS
<1>11. sessionMessages' \in [Sids -> Seq(Messages)]
  BY <1>5, <1>6, <1>7, <1>10
<1>12. StoreOK'
  BY <1>3, <1>4, <1>7, <1>8, <1>9, <1>11 DEF TypeOK, StoreOK
<1>13. ids # <<>> => 1 \in 1..n /\ ids[1] \in ToSet(ids)
  <2> SUFFICES ASSUME ids # <<>> PROVE 1 \in 1..n /\ ids[1] \in ToSet(ids)
    OBVIOUS
  <2>1. Len(ids) \in Nat \ {0} /\ DOMAIN ids = 1..Len(ids)
    BY <1>3, EmptySeq, LenProperties
  <2>2. 1 \in DOMAIN ids
    BY <2>1
  <2> QED
    BY <2>2, <1>3 DEF ToSet
<1>14. ids # <<>> => place[ids[1]] = 1
  BY <1>3, <1>5, <1>13 DEF IsInjective
<1>15. activeSessionId' \in Listed' \cup {None} /\ messages' \in Seq(Messages)
  BY <1>6, <1>7, <1>8, <1>10, <1>13
<1>16. \A s \in Listed' : serverId'[s] \in Convs /\ sessionMessages'[s] = detail[serverId'[s]]
  BY <1>1, <1>4, <1>5, <1>6, <1>7, <1>8
<1>17. activeSessionId' # None => messages' = sessionMessages'[activeSessionId']
  BY <1>4, <1>7, <1>13, <1>14
<1> QED
  BY <1>4, <1>7, <1>8, <1>12, <1>15, <1>16, <1>17

-----------------------------------------------------------------------------
(* The types are kept.  Each part of TypeOK is disturbed by few actions. *)

\* A POST that begins keeps the types of the rows.
LEMMA BeginMessageType ==
    ASSUME ServerOK, NEW c, NEW m \in Messages, BeginMessage(c, m)
    PROVE  ServerOK'
<1>1. c \in Convs => Append(stored[c], m) \in Seq(Messages)
  BY AppendProperties DEF ServerOK
<1>2. stored' = [stored EXCEPT ![c] = Append(@, m)] /\ UNCHANGED recent
  BY DEF BeginMessage
<1> QED
  BY <1>1, <1>2 DEF ServerOK

\* So does its commit, which changes nothing of a row but that it is saved.
LEMMA CommitMessageFields ==
    ASSUME ServerOK, NEW c, NEW m \in Messages, CommitMessage(c, m)
    PROVE  /\ ServerOK' /\ c \in Convs
           /\ \E i \in DOMAIN stored[c] : stored[c][i] = m /\ stored'[c][i].saved
           /\ \A d \in Convs : DOMAIN stored'[d] = DOMAIN stored[d]
           /\ \A d \in Convs : \A j \in DOMAIN stored[d] :
                /\ stored'[d][j].q = stored[d][j].q
                /\ stored'[d][j].role = stored[d][j].role
                /\ stored'[d][j].text = stored[d][j].text
                /\ stored'[d][j] # stored[d][j] => stored'[d][j].saved
                /\ stored[d][j].saved => stored'[d][j] = stored[d][j]
<1>1. PICK k \in DOMAIN recent : recent[k] = c /\ recent' = Cons(c, RemoveAt(recent, k))
  BY DEF CommitMessage
<1>2. recent \in Seq(Convs) /\ IsInjective(recent) /\ stored \in [Convs -> Seq(Messages)]
  BY DEF ServerOK
<1>3. c \in Convs
  BY <1>1, <1>2, ElementOfSeq, LenProperties
<1>4. recent' \in Seq(Convs) /\ IsInjective(recent')
  BY <1>1, <1>2, MoveToFront
<1>5. PICK i \in DOMAIN stored[c] :
        stored[c][i] = m /\ stored' = [stored EXCEPT ![c][i].saved = TRUE]
  BY DEF CommitMessage
<1> DEFINE saved == [m EXCEPT !.saved = TRUE]
           rows == [stored[c] EXCEPT ![i] = saved]
<1>6. saved \in Messages /\ saved.saved /\ saved.q = m.q /\ saved.role = m.role
      /\ saved.text = m.text /\ (m.saved => saved = m)
  BY SavedFields, SavedAgain
<1>7. stored' = [stored EXCEPT ![c] = rows]
  BY <1>2, <1>3, <1>5
<1>8. stored[c] \in Seq(Messages) /\ DOMAIN stored[c] = 1..Len(stored[c])
      /\ Len(stored[c]) \in Nat
  BY <1>2, <1>3, LenProperties
<1> HIDE DEF saved
<1>9. rows \in Seq(Messages) /\ DOMAIN rows = DOMAIN stored[c]
      /\ rows[i] = saved /\ \A j \in DOMAIN stored[c] \ {i} : rows[j] = stored[c][j]
  <2>1. stored[c] \in [1..Len(stored[c]) -> Messages]
    BY <1>8
  <2>2. rows \in [1..Len(stored[c]) -> Messages]
    BY <2>1, <1>6, <1>8
  <2> QED
    BY <2>2, <1>8, FunIsSeq
<1> HIDE DEF rows
<1>10. stored' \in [Convs -> Seq(Messages)] /\ stored'[c] = rows
       /\ \A d \in Convs \ {c} : stored'[d] = stored[d]
  BY <1>2, <1>3, <1>7, <1>9
<1>11. \A d \in Convs : DOMAIN stored'[d] = DOMAIN stored[d]
  BY <1>9, <1>10
<1>12. ASSUME NEW d \in Convs, NEW j \in DOMAIN stored[d]
       PROVE  /\ stored'[d][j].q = stored[d][j].q
              /\ stored'[d][j].role = stored[d][j].role
              /\ stored'[d][j].text = stored[d][j].text
              /\ stored'[d][j] # stored[d][j] => stored'[d][j].saved
              /\ stored[d][j].saved => stored'[d][j] = stored[d][j]
  <2>1. CASE d = c /\ j = i
    BY <2>1, <1>5, <1>6, <1>9, <1>10
  <2>2. CASE ~(d = c /\ j = i)
    <3>1. stored'[d][j] = stored[d][j]
      BY <2>2, <1>9, <1>10, <1>12
    <3> QED
      BY <3>1
  <2> QED
    BY <2>1, <2>2
<1>13. stored[c][i] = m /\ stored'[c][i].saved
  BY <1>5, <1>6, <1>9, <1>10
<1> QED
  BY <1>3, <1>4, <1>10, <1>11, <1>12, <1>13 DEF ServerOK

\* The steps that write to the backend.
ServerStep ==
    \E q \in Questions :
        \/ ConversationCreated(q) \/ BeginQuestion(q) \/ AppendQuestion(q)
        \/ BeginAnswer(q) \/ AppendAnswer(q) \/ AnswerLost(q)

\* No other step changes the rows.
LEMMA ServerSteps ==
    ASSUME Next, ~ServerStep
    PROVE  UNCHANGED server
<1> USE DEF server
<1>1. CASE User
  BY <1>1 DEF User, NewChat, ClearChat, SelectSession, SendFirstQuery, SendQuery, StartLoad
<1>2. CASE \E q \in Questions : StreamEvent(q)
  BY <1>2 DEF StreamEvent, OnRetrieval, OnToken, OnComplete, OnError
<1>3. CASE \E q \in Questions : PersistTurn(q)
  BY <1>3 DEF PersistTurn, ServerStep, ConversationAnswered, CallFails
<1>4. CASE \E l \in Loads : LoadConversations(l)
  BY <1>4 DEF LoadConversations, ListAnswered, LoadFails, DetailAnswered
<1> QED
  BY <1>1, <1>2, <1>3, <1>4 DEF Next

\* What a turn carries, and the messages made of it, have their types.
LEMMA TurnFields ==
    ASSUME TypeOK, NEW q \in Questions
    PROVE  /\ turn[q] \in Turns /\ turn[q].text \in Texts
           /\ stream[q] \in Streams
           /\ Question(q) \in Messages
           /\ Answer(q, turn[q].text, "done") \in Messages
<1>1. turn[q] \in Turns /\ stream[q] \in Streams
  BY DEF TypeOK, AsyncOK
<1>2. turn[q].text \in Texts
  BY <1>1 DEF Turns
<1>3. "done" \in Statuses
  BY DEF Statuses
<1> QED
  BY <1>1, <1>2, <1>3, MessageFields

\* Every step keeps the types of the rows.
LEMMA ServerTyped ==
    ASSUME TypeInv, Next
    PROVE  ServerOK'
<1> USE DEF TypeInv
<1>1. CASE UNCHANGED server
  BY <1>1 DEF TypeOK, ServerOK, server
<1>2. ASSUME NEW q \in Questions, ConversationCreated(q)
      PROVE  ServerOK'
  <2>1. PICK c \in Convs : CreateConversation(c)
    BY <1>2 DEF ConversationCreated
  <2> QED
    BY <2>1, ConsNew DEF CreateConversation, TypeOK, ServerOK
<1>3. ASSUME NEW q \in Questions,
             \/ BeginQuestion(q) \/ AppendQuestion(q)
             \/ BeginAnswer(q) \/ AppendAnswer(q) \/ AnswerLost(q)
      PROVE  ServerOK'
  <2>1. \/ UNCHANGED server
        \/ BeginMessage(turn[q].conv, Question(q))
        \/ BeginMessage(turn[q].conv, Answer(q, turn[q].text, "done"))
        \/ CommitMessage(turn[q].conv, Question(q))
        \/ CommitMessage(turn[q].conv, Answer(q, turn[q].text, "done"))
    BY <1>3 DEF BeginQuestion, AppendQuestion, BeginAnswer, AppendAnswer, AnswerLost
  <2>2. ServerOK
    BY DEF TypeOK
  <2>3. Question(q) \in Messages /\ Answer(q, turn[q].text, "done") \in Messages
    BY TurnFields
  <2> QED
    BY <1>1, <2>1, <2>2, <2>3, BeginMessageType, CommitMessageFields
<1> QED
  BY <1>1, <1>2, <1>3, ServerSteps DEF ServerStep

AllSaved(ms) == \A m \in ToSet(ms) : m.saved

\* An empty session has nothing that is not saved.
LEMMA EmptySaved == AllSaved(<<>>) /\ ToSet(<<>>) = {}
  BY DEF AllSaved, ToSet

\* What a GET of a conversation returns are messages that carry server ids.
LEMMA AnsweredRows ==
    ASSUME ServerOK, NEW c \in Convs, NEW rows \in Answered(c)
    PROVE  rows \in Seq(Messages) /\ AllSaved(rows)
<1>1. CASE rows = <<>>
  BY <1>1, EmptySaved
<1>2. ASSUME NEW f \in InOrder(c), rows = [i \in DOMAIN f |-> stored[c][f[i]]]
      PROVE  rows \in Seq(Messages) /\ AllSaved(rows)
  <2>1. Committed(c) \subseteq DOMAIN stored[c] /\ stored[c] \in Seq(Messages)
    BY DEF Committed, ServerOK
  <2>2. f \in [1..Cardinality(Committed(c)) -> Committed(c)] /\ ToSet(f) = Committed(c)
    BY DEF InOrder
  <2>3. IsFiniteSet(Committed(c))
    BY <2>1, RowsFinite
  <2>4. Cardinality(Committed(c)) \in Nat
    BY <2>3, FS_CardinalityType
  <2> DEFINE n == Cardinality(Committed(c))
  <2>5. DOMAIN f = 1..n /\ DOMAIN rows = 1..n /\ n \in Nat
    BY <1>2, <2>2, <2>4
  <2>6. \A i \in 1..n : /\ rows[i] = stored[c][f[i]] /\ f[i] \in Committed(c)
                          /\ rows[i] \in Messages /\ rows[i].saved
    <3>1. \A i \in 1..n : rows[i] = stored[c][f[i]] /\ f[i] \in Committed(c)
      BY <1>2, <2>2, <2>5
    <3>2. \A k \in Committed(c) : stored[c][k] \in Messages /\ stored[c][k].saved
      BY <2>1, ElementOfSeq, LenProperties DEF Committed
    <3> QED
      BY <3>1, <3>2
  <2>7. rows \in [1..n -> Messages]
    BY <1>2, <2>5, <2>6
  <2> HIDE DEF n
  <2>8. rows \in Seq(Messages)
    BY <2>5, <2>7, FunIsSeq
  <2>9. AllSaved(rows)
    BY <2>5, <2>6 DEF AllSaved, ToSet
  <2> QED
    BY <2>8, <2>9
<1>3. rows = <<>> \/ \E f \in InOrder(c) : rows = [i \in DOMAIN f |-> stored[c][f[i]]]
  BY DEF Answered
<1> QED
  BY <1>1, <1>2, <1>3

\* What a load may come to hold of a conversation.
Read(c) == Answered(c) \cup {<<>>}

LEMMA ReadRows ==
    ASSUME ServerOK, NEW c \in Convs, NEW rows \in Read(c)
    PROVE  rows \in Seq(Messages) /\ AllSaved(rows)
<1>1. <<>> \in Seq(Messages)
  OBVIOUS
<1>2. CASE rows = <<>>
  BY <1>1, <1>2, EmptySaved
<1>3. CASE rows \in Answered(c)
  BY <1>3, AnsweredRows
<1> QED
  BY <1>2, <1>3 DEF Read

\* The last answer of a load.
LoadEnds(l) ==
    /\ UNCHANGED <<isLoading, stream>>
    /\ \/ ReplaceSessions(<<>>, load[l].detail)
       \/ \E c \in load[l].missing : \E rows \in Read(c) :
            ReplaceSessions(load[l].list, [load[l].detail EXCEPT ![c] = rows])

\* The kinds of steps that touch the store and the display.
LEMMA ClientSteps ==
    ASSUME Next
    PROVE  \/ UNCHANGED <<store, view, isLoading, stream>>
           \/ NewChat \/ ClearChat
           \/ \E s \in Sids : SelectSession(s)
           \/ \E q \in Questions : SendFirstQuery(q) \/ SendQuery(q)
           \/ \E q \in Questions : StreamEvent(q)
           \/ \E q \in Questions : ConversationAnswered(q)
           \/ \E l \in Loads : LoadEnds(l)
<1>1. CASE User
  BY <1>1 DEF User, StartLoad
<1>2. ASSUME NEW q \in Questions, PersistTurn(q), ~ConversationAnswered(q)
      PROVE  UNCHANGED <<store, view, isLoading, stream>>
  BY <1>2 DEF PersistTurn, ConversationCreated, BeginQuestion, AppendQuestion, BeginAnswer,
              AppendAnswer, CallFails, AnswerLost, client
<1>3. ASSUME NEW l \in Loads, LoadConversations(l)
      PROVE  UNCHANGED <<store, view, isLoading, stream>> \/ LoadEnds(l)
  <2>1. CASE ListAnswered(l)
    BY <2>1 DEF ListAnswered, LoadEnds
  <2>2. CASE LoadFails(l)
    BY <2>2 DEF LoadFails
  <2>3. ASSUME NEW c \in Convs, DetailAnswered(l, c)
        PROVE  UNCHANGED <<store, view, isLoading, stream>> \/ LoadEnds(l)
    <3>1. PICK rows \in Answered(c) :
            \/ UNCHANGED <<store, view>>
            \/ ReplaceSessions(load[l].list, [load[l].detail EXCEPT ![c] = rows])
      BY <2>3 DEF DetailAnswered
    <3>2. rows \in Read(c) /\ c \in load[l].missing /\ UNCHANGED <<isLoading, stream>>
      BY <2>3, <3>1 DEF DetailAnswered, Read
    <3> QED
      BY <3>1, <3>2 DEF LoadEnds
  <2> QED
    BY <1>3, <2>1, <2>2, <2>3 DEF LoadConversations
<1> QED
  BY <1>1, <1>2, <1>3 DEF Next

\* A fresh id in front of the side bar.
LEMMA NewSession ==
    ASSUME StoreOK, NEW s \in Sids \ used
    PROVE  /\ s \notin Listed
           /\ Cons(s, sessions) \in Seq(Sids) /\ IsInjective(Cons(s, sessions))
           /\ ToSet(Cons(s, sessions)) = {s} \cup Listed
           /\ Len(Cons(s, sessions)) = Len(sessions) + 1
           /\ Cons(s, sessions)[1] = s
<1>1. s \notin ToSet(sessions)
  BY DEF StoreOK, Listed
<1> QED
  BY <1>1, ConsNew, ConsSeq DEF StoreOK, Listed

\* What newChat leaves: the new session, empty and on display.
LEMMA NewChatFields ==
    ASSUME TypeOK, NewChat
    PROVE  /\ StoreOK' /\ ViewOK'
           /\ activeSessionId' \in Sids \ used /\ used' = used \cup {activeSessionId'}
           /\ activeSessionId' \in Listed' /\ Listed' \subseteq Listed \cup {activeSessionId'}
           /\ messages' = <<>>
           /\ UNCHANGED <<serverId, sessionMessages>>
<1>1. PICK s \in Sids \ used :
        /\ sessions' = SubSeq(Cons(s, sessions), 1, IF Len(sessions) < MaxSessions
                                                     THEN Len(sessions) + 1
                                                     ELSE MaxSessions)
        /\ used' = used \cup {s}
        /\ activeSessionId' = s
        /\ messages' = <<>>
        /\ UNCHANGED <<serverId, sessionMessages, isLoading>>
  BY DEF NewChat
<1> DEFINE t == Cons(s, sessions)
           n == IF Len(sessions) < MaxSessions THEN Len(sessions) + 1 ELSE MaxSessions
<1>2. /\ t \in Seq(Sids) /\ IsInjective(t) /\ t[1] = s /\ Len(t) = Len(sessions) + 1
      /\ ToSet(t) = {s} \cup Listed
  BY NewSession DEF TypeOK
<1>3. Len(sessions) \in Nat
  BY LenProperties DEF TypeOK, StoreOK
<1>4. n \in 1..Len(t)
  BY <1>2, <1>3, MaxSessionsAssumption
<1>5. sessions' = SubSeq(t, 1, n)
  BY <1>1
<1> HIDE DEF t, n
<1>6. /\ sessions' \in Seq(Sids) /\ IsInjective(sessions')
      /\ Listed' \subseteq {s} \cup Listed /\ s \in Listed'
  BY <1>2, <1>4, <1>5, FrontSeq DEF Listed
<1>7. <<>> \in Seq(Messages)
  OBVIOUS
<1> QED
  BY <1>1, <1>6, <1>7 DEF TypeOK, StoreOK, ViewOK

\* What sendQuery puts into the session, and on display.
LEMMA SentMessages ==
    ASSUME NEW q \in Questions, NEW ms \in Seq(Messages), NEW all,
           all = ms \o <<Question(q), Answer(q, {}, "thinking")>>
    PROVE  /\ all \in Seq(Messages)
           /\ \A m \in ToSet(all) : m \in ToSet(ms) \/ m = Question(q)
                                                   \/ m = Answer(q, {}, "thinking")
           /\ ToSet(ms) \subseteq ToSet(all) /\ Answer(q, {}, "thinking") \in ToSet(all)
<1> DEFINE two == <<Question(q), Answer(q, {}, "thinking")>>
<1>1. Question(q) \in Messages /\ Answer(q, {}, "thinking") \in Messages
  <2>1. {} \in Texts /\ "thinking" \in Statuses
    BY DEF Texts, Statuses
  <2> QED
    BY <2>1, MessageFields
<1>2. /\ two \in Seq(Messages) /\ Len(two) = 2
      /\ two[1] = Question(q) /\ two[2] = Answer(q, {}, "thinking")
  BY <1>1
<1> HIDE DEF two
<1>3. /\ all \in Seq(Messages) /\ Len(all) = Len(ms) + 2
      /\ \A i \in 1..(Len(ms) + 2) :
            all[i] = IF i <= Len(ms) THEN ms[i] ELSE two[i - Len(ms)]
  BY <1>2, ConcatProperties DEF two
<1>4. /\ Len(ms) \in Nat /\ DOMAIN ms = 1..Len(ms) /\ DOMAIN all = 1..(Len(ms) + 2)
  BY <1>3, LenProperties
<1>5. /\ \A i \in DOMAIN ms : i \in DOMAIN all /\ all[i] = ms[i]
      /\ \A i \in DOMAIN all : i \in DOMAIN ms \/ i = Len(ms) + 1 \/ i = Len(ms) + 2
      /\ Len(ms) + 1 \in DOMAIN all /\ Len(ms) + 2 \in DOMAIN all
      /\ all[Len(ms) + 1] = Question(q)
      /\ all[Len(ms) + 2] = Answer(q, {}, "thinking")
  BY <1>2, <1>3, <1>4
<1>6. \A m \in ToSet(all) : m \in ToSet(ms) \/ m = Question(q)
                                           \/ m = Answer(q, {}, "thinking")
  BY <1>5 DEF ToSet
<1>7. ToSet(ms) \subseteq ToSet(all) /\ Answer(q, {}, "thinking") \in ToSet(all)
  BY <1>5 DEF ToSet
<1> QED
  BY <1>3, <1>6, <1>7

\* What sendQuery leaves when no session was active: a new one.
LEMMA SendFirstQueryFields ==
    ASSUME TypeOK, NEW q \in Questions, SendFirstQuery(q)
    PROVE  /\ StoreOK' /\ ViewOK'
           /\ activeSessionId' \in Sids \ used /\ used' = used \cup {activeSessionId'}
           /\ Listed' = Listed \cup {activeSessionId'}
           /\ messages' = <<Question(q), Answer(q, {}, "thinking")>>
           /\ sessionMessages' = [sessionMessages EXCEPT ![activeSessionId'] = messages']
           /\ stream' = [stream EXCEPT ![q] = [@ EXCEPT !.state = "asked",
                                                       !.sid = activeSessionId']]
<1>1. PICK s \in Sids \ used :
        /\ sessions' = Cons(s, sessions)
        /\ used' = used \cup {s}
        /\ activeSessionId' = s
        /\ messages' = <<Question(q), Answer(q, {}, "thinking")>>
        /\ sessionMessages' = [sessionMessages EXCEPT ![s] = messages']
        /\ stream' = [stream EXCEPT ![q] = [@ EXCEPT !.state = "asked", !.sid = s]]
        /\ isLoading' = TRUE /\ UNCHANGED serverId
  BY DEF SendFirstQuery
<1>2. /\ sessions' \in Seq(Sids) /\ IsInjective(sessions')
      /\ Listed' = Listed \cup {s}
  BY <1>1, NewSession DEF TypeOK, Listed
<1>3. messages' \in Seq(Messages)
  <2>1. <<>> \in Seq(Messages)
        /\ <<>> \o <<Question(q), Answer(q, {}, "thinking")>> = messages'
    BY <1>1
  <2> QED
    BY <2>1, SentMessages
<1> QED
  BY <1>1, <1>2, <1>3 DEF TypeOK, StoreOK, ViewOK

\* What sendQuery leaves in the active session.
LEMMA SendQueryFields ==
    ASSUME TypeOK, NEW q \in Questions, SendQuery(q)
    PROVE  /\ StoreOK' /\ ViewOK'
           /\ activeSessionId \in Listed /\ activeSessionId \in Sids
           /\ UNCHANGED <<sessions, used, serverId, activeSessionId>>
           /\ messages' = messages \o <<Question(q), Answer(q, {}, "thinking")>>
           /\ sessionMessages' = [sessionMessages EXCEPT ![activeSessionId] = messages']
           /\ stream' = [stream EXCEPT ![q] = [@ EXCEPT !.state = "asked",
                                                       !.sid = activeSessionId]]
<1>1. /\ messages' = messages \o <<Question(q), Answer(q, {}, "thinking")>>
      /\ SetSessionMessages(activeSessionId, messages')
      /\ activeSessionId # None /\ isLoading' = TRUE
      /\ UNCHANGED <<sessions, used, serverId, activeSessionId>>
  BY DEF SendQuery
<1>2. messages \in Seq(Messages) /\ activeSessionId \in Listed /\ Listed \subseteq Sids
  BY <1>1 DEF TypeOK, ViewOK, StoreOK
<1>3. messages' \in Seq(Messages)
  BY <1>1, <1>2, SentMessages
<1>4. sessionMessages' = [sessionMessages EXCEPT ![activeSessionId] = messages']
  BY <1>1, <1>2 DEF SetSessionMessages
<1> QED
  BY <1>1, <1>2, <1>3, <1>4 DEF TypeOK, StoreOK, ViewOK, Listed, SendQuery

\* What an event of a stream does: the answer it makes of the display, and
\* where the stream goes.
LEMMA StreamEventFields ==
    ASSUME TypeOK, NEW q \in Questions, StreamEvent(q)
    PROVE  /\ stream[q].state \in {"asked", "streaming"}
           /\ isLoading' \in BOOLEAN /\ UNCHANGED <<server, load>>
           /\ \/ /\ stream[q].state = "asked"
                 /\ UpdateAssistant(q, Displayed(q), "streaming")
                 /\ stream' = [stream EXCEPT ![q].state = "streaming"]
                 /\ UNCHANGED turn
              \/ /\ stream[q].state = "streaming"
                 /\ stream[q].sent \in 0..(MaxTokens - 1)
                 /\ UpdateAssistant(q, Displayed(q) \cup {stream[q].sent + 1}, "streaming")
                 /\ stream' = [stream EXCEPT ![q].sent = @ + 1]
                 /\ UNCHANGED turn
              \/ /\ stream[q].state = "streaming"
                 /\ UpdateAssistant(q, Displayed(q), "done")
                 /\ stream' = [stream EXCEPT ![q].state = "complete"]
                 /\ BeginTurn(q)
              \/ /\ UpdateAssistant(q, {}, "error")
                 /\ stream' = [stream EXCEPT ![q].state = "error"]
                 /\ UNCHANGED turn
<1>1. stream[q] \in Streams /\ stream \in [Questions -> Streams] /\ isLoading \in BOOLEAN
  BY DEF TypeOK, AsyncOK, ViewOK
<1>2. CASE OnRetrieval(q)
  BY <1>1, <1>2 DEF OnRetrieval
<1>3. CASE OnToken(q)
  <2>1. stream[q].sent \in 0..(MaxTokens - 1)
    BY <1>1, <1>3, MaxTokensAssumption DEF OnToken, Streams
  <2>2. stream' = [stream EXCEPT ![q].sent = @ + 1]
    BY <1>3 DEF OnToken
  <2>3. stream'[q].sent = stream[q].sent + 1
    BY <1>1, <2>2 DEF Streams
  <2> QED
    BY <1>1, <1>3, <2>1, <2>2, <2>3 DEF OnToken
<1>4. CASE OnComplete(q)
  BY <1>1, <1>4 DEF OnComplete
<1>5. CASE OnError(q)
  BY <1>1, <1>5 DEF OnError
<1> QED
  BY <1>2, <1>3, <1>4, <1>5 DEF StreamEvent

\* All of them update the answer, with some text and status.
LEMMA StreamEventUpdates ==
    ASSUME TypeOK, NEW q \in Questions, StreamEvent(q)
    PROVE  /\ \E text \in Texts, status \in Statuses : UpdateAssistant(q, text, status)
           /\ StoreOK' /\ ViewOK'
<1>1. /\ Displayed(q) \in Texts /\ {} \in Texts
      /\ {"streaming", "done", "error"} \subseteq Statuses
  BY DisplayedText DEF TypeOK, ViewOK, Texts, Statuses
<1>2. stream[q].sent \in 0..(MaxTokens - 1) =>
        Displayed(q) \cup {stream[q].sent + 1} \in Texts
  BY <1>1, MaxTokensAssumption DEF Texts
<1>3. \E text \in Texts, status \in Statuses : UpdateAssistant(q, text, status)
  BY <1>1, <1>2, StreamEventFields
<1>4. PICK text \in Texts, status \in Statuses : UpdateAssistant(q, text, status)
  BY <1>3
<1>5. /\ messages' \in Seq(Messages) /\ sessionMessages' \in [Sids -> Seq(Messages)]
      /\ UNCHANGED <<sessions, used, serverId, activeSessionId>>
  BY <1>4, UpdateAssistantFields
<1>6. isLoading' \in BOOLEAN
  BY StreamEventFields
<1> QED
  BY <1>3, <1>5, <1>6 DEF TypeOK, StoreOK, ViewOK, Listed

\* The end of a load replaces the sessions by what it has read, or finds nothing.
LEMMA LoadEndsFields ==
    ASSUME TypeOK, NEW l \in Loads, LoadEnds(l)
    PROVE  \E list \in Seq(Convs), detail \in [Convs -> Seq(Messages)] :
             /\ ReplaceSessions(list, detail)
             /\ \A c \in Convs : detail[c] = load[l].detail[c] \/ detail[c] \in Read(c)
<1>1. /\ load[l].list \in Seq(Convs) /\ load[l].detail \in [Convs -> Seq(Messages)]
      /\ load[l].missing \subseteq Convs /\ ServerOK
  BY DEF TypeOK, AsyncOK, Fetches
<1>2. <<>> \in Seq(Convs) /\ <<>> \in Seq(Messages)
  OBVIOUS
<1>3. CASE ReplaceSessions(<<>>, load[l].detail)
  BY <1>1, <1>2, <1>3
<1>4. ASSUME NEW c \in load[l].missing, NEW rows \in Read(c),
             ReplaceSessions(load[l].list, [load[l].detail EXCEPT ![c] = rows])
      PROVE  \E list \in Seq(Convs), detail \in [Convs -> Seq(Messages)] :
             /\ ReplaceSessions(list, detail)
             /\ \A d \in Convs : detail[d] = load[l].detail[d] \/ detail[d] \in Read(d)
  <2> DEFINE detail == [load[l].detail EXCEPT ![c] = rows]
  <2>1. rows \in Seq(Messages)
    BY <1>1, ReadRows
  <2>2. /\ detail \in [Convs -> Seq(Messages)]
        /\ \A d \in Convs : detail[d] = load[l].detail[d] \/ detail[d] \in Read(d)
    BY <1>1, <2>1
  <2>3. ReplaceSessions(load[l].list, detail)
    BY <1>4
  <2> HIDE DEF detail
  <2> QED
    BY <1>1, <2>2, <2>3
<1> QED
  BY <1>3, <1>4 DEF LoadEnds

\* Every step keeps the types of the store and the display.
LEMMA ClientTyped ==
    ASSUME TypeInv, Next
    PROVE  StoreOK' /\ ViewOK'
<1> USE DEF TypeInv
<1>1. CASE UNCHANGED <<store, view, isLoading, stream>>
  BY <1>1 DEF store, view, TypeOK, StoreOK, ViewOK, Listed
<1>2. CASE NewChat
  BY <1>2, NewChatFields
<1>3. CASE ClearChat
  <2>1. <<>> \in Seq(Messages)
    OBVIOUS
  <2> QED
    BY <1>3, <2>1 DEF ClearChat, SetSessionMessages, TypeOK, StoreOK, ViewOK, Listed
<1>4. ASSUME NEW s \in Sids, SelectSession(s) PROVE StoreOK' /\ ViewOK'
  BY <1>4 DEF SelectSession, store, TypeOK, StoreOK, ViewOK, Listed
<1>5. ASSUME NEW q \in Questions, SendFirstQuery(q) \/ SendQuery(q)
      PROVE  StoreOK' /\ ViewOK'
  BY <1>5, SendFirstQueryFields, SendQueryFields
<1>6. ASSUME NEW q \in Questions, StreamEvent(q) PROVE StoreOK' /\ ViewOK'
  BY <1>6, StreamEventUpdates
<1>7. ASSUME NEW q \in Questions, ConversationAnswered(q) PROVE StoreOK' /\ ViewOK'
  <2>1. turn[q].conv \in Convs \cup {None}
    BY TurnFields DEF Turns
  <2> QED
    BY <1>7, <2>1 DEF ConversationAnswered, view, TypeOK, StoreOK, ViewOK, Listed
<1>8. ASSUME NEW l \in Loads, LoadEnds(l) PROVE StoreOK' /\ ViewOK'
  <2>1. UNCHANGED isLoading
    BY <1>8 DEF LoadEnds
  <2> QED
    BY <1>8, <2>1, LoadEndsFields, ReplaceSessionsFields DEF TypeOK, ViewOK
<1> QED
  BY <1>1, <1>2, <1>3, <1>4, <1>5, <1>6, <1>7, <1>8, ClientSteps

\* Streams move in sendQuery and their events only.
LEMMA StreamTyped ==
    ASSUME TypeInv, Next
    PROVE  /\ stream' \in [Questions -> Streams]
           /\ \A q \in Questions :
                /\ stream'[q].state # "unasked" => stream'[q].sid \in Sids
                /\ stream'[q].state = "unasked" => stream'[q].sid = None
                /\ stream[q].state = "complete" => stream'[q] = stream[q]
<1> USE DEF TypeInv
<1>1. stream \in [Questions -> Streams]
  BY DEF TypeOK, AsyncOK
<1>2. CASE UNCHANGED stream
  BY <1>1, <1>2 DEF StreamsOK
<1>3. ASSUME NEW q \in Questions, NEW s \in Sids, stream[q].state = "unasked",
             stream' = [stream EXCEPT ![q] = [@ EXCEPT !.state = "asked", !.sid = s]]
      PROVE  /\ stream' \in [Questions -> Streams]
             /\ \A p \in Questions :
                  /\ stream'[p].state # "unasked" => stream'[p].sid \in Sids
                  /\ stream'[p].state = "unasked" => stream'[p].sid = None
                  /\ stream[p].state = "complete" => stream'[p] = stream[p]
  BY <1>1, <1>3 DEF Streams, StreamsOK
<1>4. ASSUME NEW q \in Questions, SendFirstQuery(q)
      PROVE  \E s \in Sids : /\ stream[q].state = "unasked"
                             /\ stream' = [stream EXCEPT ![q] =
                                            [@ EXCEPT !.state = "asked", !.sid = s]]
  BY <1>4, SendFirstQueryFields DEF SendFirstQuery
<1>5. ASSUME NEW q \in Questions, SendQuery(q)
      PROVE  \E s \in Sids : /\ stream[q].state = "unasked"
                             /\ stream' = [stream EXCEPT ![q] =
                                            [@ EXCEPT !.state = "asked", !.sid = s]]
  BY <1>5, SendQueryFields DEF SendQuery
<1>6. ASSUME NEW q \in Questions, StreamEvent(q)
      PROVE  /\ stream' \in [Questions -> Streams]
             /\ \A p \in Questions :
                  /\ stream'[p].state # "unasked" => stream'[p].sid \in Sids
                  /\ stream'[p].state = "unasked" => stream'[p].sid = None
                  /\ stream[p].state = "complete" => stream'[p] = stream[p]
  <2>1. stream[q].state \in {"asked", "streaming"} /\ stream[q] \in Streams
    BY <1>1, <1>6, StreamEventFields
  <2>2. \/ \E x \in {"streaming", "complete", "error"} : stream' = [stream EXCEPT ![q].state = x]
        \/ /\ stream[q].sent \in 0..(MaxTokens - 1)
           /\ stream' = [stream EXCEPT ![q].sent = @ + 1]
    BY <1>6, StreamEventFields
  <2>3. ASSUME NEW x \in {"streaming", "complete", "error"},
               stream' = [stream EXCEPT ![q].state = x]
        PROVE  /\ stream' \in [Questions -> Streams]
               /\ stream'[q].state # "unasked" /\ stream'[q].sid = stream[q].sid
               /\ \A p \in Questions \ {q} : stream'[p] = stream[p]
    BY <1>1, <2>1, <2>3 DEF Streams
  <2>4. ASSUME stream[q].sent \in 0..(MaxTokens - 1),
               stream' = [stream EXCEPT ![q].sent = @ + 1]
        PROVE  /\ stream' \in [Questions -> Streams]
               /\ stream'[q].state # "unasked" /\ stream'[q].sid = stream[q].sid
               /\ \A p \in Questions \ {q} : stream'[p] = stream[p]
    BY <1>1, <2>1, <2>4, MaxTokensAssumption DEF Streams
  <2>5. /\ stream' \in [Questions -> Streams]
        /\ stream'[q].state # "unasked" /\ stream'[q].sid = stream[q].sid
        /\ \A p \in Questions \ {q} : stream'[p] = stream[p]
    BY <2>2, <2>3, <2>4
  <2>6. stream[q].sid \in Sids
    BY <2>1 DEF StreamsOK
  <2> QED
    BY <2>1, <2>5, <2>6 DEF StreamsOK
<1>7. CASE \E q \in Questions : PersistTurn(q)
  <2>1. UNCHANGED stream
    BY <1>7 DEF PersistTurn, ConversationCreated, ConversationAnswered, BeginQuestion,
                AppendQuestion, BeginAnswer, AppendAnswer, CallFails, AnswerLost, client
  <2> QED
    BY <2>1, <1>2
<1>8. CASE \E l \in Loads : LoadConversations(l)
  <2>1. UNCHANGED stream
    BY <1>8 DEF LoadConversations, ListAnswered, LoadFails, DetailAnswered
  <2> QED
    BY <2>1, <1>2
<1>9. CASE User
  <2>1. \/ UNCHANGED stream
        \/ \E q \in Questions : SendFirstQuery(q) \/ SendQuery(q)
    BY <1>9 DEF User, NewChat, ClearChat, SelectSession, StartLoad
  <2> QED
    BY <2>1, <1>2, <1>3, <1>4, <1>5
<1> QED
  BY <1>6, <1>7, <1>8, <1>9 DEF Next

\* What onComplete hands to persistTurn.
LEMMA BeginTurnFields ==
    ASSUME TypeInv, NEW q \in Questions, stream[q].state = "streaming", BeginTurn(q)
    PROVE  /\ turn' = [turn EXCEPT ![q] = turn'[q]]
           /\ turn'[q] \in Turns
           /\ turn'[q].pc \in {"create", "user", "dropped"}
           /\ turn'[q].made = turn[q].made
           /\ turn'[q].text = Displayed(q)
           /\ turn'[q].conv = serverId[stream[q].sid]
           /\ turn'[q].pc = "user" => turn'[q].conv \in Convs
<1>1. turn \in [Questions -> Turns] /\ turn[q] \in Turns
  BY DEF TypeInv, TypeOK, AsyncOK
<1>2. stream[q].sid \in Sids
  BY DEF TypeInv, StreamsOK
<1>3. serverId[stream[q].sid] \in Convs \cup {None}
  BY <1>2 DEF TypeInv, TypeOK, StoreOK
<1>4. Displayed(q) \in Texts
  BY DisplayedText DEF TypeInv, TypeOK, ViewOK
<1> DEFINE s == stream[q].sid
           pc == CASE s \notin Listed -> "dropped"
                   [] s \in Listed /\ serverId[s] = None -> "create"
                   [] OTHER -> "user"
<1>5. turn' = [turn EXCEPT ![q] = [@ EXCEPT !.pc = pc, !.conv = serverId[s],
                                           !.text = Displayed(q)]]
  BY DEF BeginTurn
<1>6. pc \in {"create", "user", "dropped"} /\ (pc = "user" => serverId[s] # None)
  OBVIOUS
<1> HIDE DEF pc, s
<1>7. turn'[q] = [turn[q] EXCEPT !.pc = pc, !.conv = serverId[s], !.text = Displayed(q)]
  BY <1>1, <1>5
<1>8. /\ turn'[q].pc = pc /\ turn'[q].conv = serverId[s] /\ turn'[q].text = Displayed(q)
      /\ turn'[q].made = turn[q].made /\ turn'[q] \in Turns
  BY <1>1, <1>3, <1>4, <1>6, <1>7 DEF Turns, Ends, s
<1> QED
  BY <1>1, <1>3, <1>5, <1>6, <1>7, <1>8 DEF s

\* The kinds of steps that touch the rows and the turns.
LEMMA TurnSteps ==
    ASSUME TypeInv, Next
    PROVE  \/ UNCHANGED <<server, turn>>
           \/ \E q \in Questions :
                /\ stream[q].state = "streaming" /\ BeginTurn(q)
                /\ stream' = [stream EXCEPT ![q].state = "complete"]
                /\ UNCHANGED server
           \/ \E q \in Questions : PersistTurn(q)
<1> USE DEF TypeInv
<1>1. CASE User
  <2>1. UNCHANGED <<server, turn>>
    BY <1>1 DEF User, NewChat, ClearChat, SelectSession, SendFirstQuery, SendQuery, StartLoad
  <2> QED
    BY <2>1
<1>2. ASSUME NEW q \in Questions, StreamEvent(q)
      PROVE  \/ UNCHANGED <<server, turn>>
             \/ /\ stream[q].state = "streaming" /\ BeginTurn(q)
                /\ stream' = [stream EXCEPT ![q].state = "complete"]
                /\ UNCHANGED server
  BY <1>2, StreamEventFields
<1>3. CASE \E l \in Loads : LoadConversations(l)
  <2>1. UNCHANGED <<server, turn>>
    BY <1>3 DEF LoadConversations, ListAnswered, LoadFails, DetailAnswered
  <2> QED
    BY <2>1
<1> QED
  BY <1>1, <1>2, <1>3 DEF Next

\* How persistTurn goes on, and what it has written.
LEMMA PersistTurnFields ==
    ASSUME TypeInv, NEW q \in Questions, PersistTurn(q)
    PROVE  /\ stream[q].state = "complete" /\ UNCHANGED stream
           /\ turn' = [turn EXCEPT ![q] = turn'[q]] /\ turn'[q] \in Turns
           /\ \/ /\ UNCHANGED stored
                 /\ \/ /\ turn[q].pc = "create" /\ turn'[q].pc = "created"
                       /\ turn'[q].conv \in Convs
                    \/ /\ turn[q].pc = "created" /\ turn'[q].pc \in {"user", "orphaned"}
                       /\ turn'[q].conv = turn[q].conv
                    \/ turn[q].pc \in {"create", "user"} /\ turn'[q].pc = "failed"
                    \/ turn[q].pc = "assistant" /\ turn'[q].pc \in {"rejected", "failed"}
              \/ /\ turn[q].pc = "user" /\ turn'[q].pc = "userSent"
                 /\ BeginMessage(turn[q].conv, Question(q))
                 /\ turn'[q].conv = turn[q].conv
              \/ /\ turn[q].pc = "userSent" /\ turn'[q].pc \in {"assistant", "failed"}
                 /\ CommitMessage(turn[q].conv, Question(q))
                 /\ turn'[q].conv = turn[q].conv
              \/ /\ turn[q].pc = "assistant" /\ turn'[q].pc = "assistantSent"
                 /\ BeginMessage(turn[q].conv, Answer(q, turn[q].text, "done"))
                 /\ turn'[q].conv = turn[q].conv
              \/ /\ turn[q].pc = "assistantSent" /\ turn'[q].pc = "stored"
                 /\ CommitMessage(turn[q].conv, Answer(q, turn[q].text, "done"))
<1>1. turn \in [Questions -> Turns] /\ turn[q] \in Turns
  BY DEF TypeInv, TypeOK, AsyncOK
<1>2. ASSUME NEW pc \in {"user", "userSent", "assistant", "assistantSent"} \cup Ends,
             StepTurn(q, pc)
      PROVE  /\ turn' = [turn EXCEPT ![q] = turn'[q]] /\ turn'[q] \in Turns
             /\ turn'[q].pc = pc /\ turn'[q].conv = turn[q].conv
  BY <1>1, <1>2 DEF StepTurn, Turns
<1>3. turn[q].pc # "none" /\ UNCHANGED stream
  BY DEF PersistTurn, ConversationCreated, ConversationAnswered, BeginQuestion, AppendQuestion,
         BeginAnswer, AppendAnswer, CallFails, AnswerLost, client
<1>4. stream[q].state = "complete"
  BY <1>3 DEF TypeInv, StreamsOK
<1>5. CASE ConversationCreated(q)
  <2>1. PICK c \in Convs :
          /\ CreateConversation(c)
          /\ turn' = [turn EXCEPT ![q] = [@ EXCEPT !.pc = "created", !.conv = c, !.made = TRUE]]
    BY <1>5 DEF ConversationCreated
  <2>2. /\ turn' = [turn EXCEPT ![q] = turn'[q]] /\ turn'[q] \in Turns
        /\ turn'[q].pc = "created" /\ turn'[q].conv \in Convs
    BY <1>1, <2>1 DEF Turns
  <2>3. turn[q].pc = "create" /\ UNCHANGED stored
    BY <1>5, <2>1 DEF ConversationCreated, CreateConversation
  <2> QED
    BY <1>3, <1>4, <2>2, <2>3
<1>6. CASE ConversationAnswered(q)
  <2>1. turn[q].pc = "created" /\ StepTurn(q, "user") /\ UNCHANGED stored
    BY <1>6 DEF ConversationAnswered, server
  <2> QED
    BY <1>2, <1>3, <1>4, <2>1
<1>7. CASE BeginQuestion(q)
  <2>1. /\ turn[q].pc = "user" /\ StepTurn(q, "userSent")
        /\ BeginMessage(turn[q].conv, Question(q))
    BY <1>7 DEF BeginQuestion
  <2> QED
    BY <1>2, <1>3, <1>4, <2>1
<1>8. CASE AppendQuestion(q)
  <2>1. /\ turn[q].pc = "userSent" /\ StepTurn(q, "assistant")
        /\ CommitMessage(turn[q].conv, Question(q))
    BY <1>8 DEF AppendQuestion
  <2> QED
    BY <1>2, <1>3, <1>4, <2>1
<1>9. CASE BeginAnswer(q)
  <2>1. /\ turn[q].pc = "assistant"
        /\ \/ /\ BeginMessage(turn[q].conv, Answer(q, turn[q].text, "done"))
              /\ StepTurn(q, "assistantSent")
           \/ StepTurn(q, "rejected") /\ UNCHANGED stored
    BY <1>9 DEF BeginAnswer, server
  <2>2. "rejected" \in Ends
    BY DEF Ends
  <2> QED
    BY <1>2, <1>3, <1>4, <2>1, <2>2
<1>10. CASE AppendAnswer(q)
  <2>1. /\ turn[q].pc = "assistantSent" /\ StepTurn(q, "stored")
        /\ CommitMessage(turn[q].conv, Answer(q, turn[q].text, "done"))
    BY <1>10 DEF AppendAnswer
  <2>2. "stored" \in Ends
    BY DEF Ends
  <2> QED
    BY <1>2, <1>3, <1>4, <2>1, <2>2
<1>11. CASE CallFails(q)
  <2>1. /\ UNCHANGED stored
        /\ \/ turn[q].pc \in {"create", "user", "assistant"} /\ StepTurn(q, "failed")
           \/ turn[q].pc = "created" /\ StepTurn(q, "orphaned")
    BY <1>11 DEF CallFails, server
  <2>2. {"failed", "orphaned"} \subseteq Ends
    BY DEF Ends
  <2> QED
    BY <1>2, <1>3, <1>4, <2>1, <2>2
<1>12. CASE AnswerLost(q)
  <2>1. /\ turn[q].pc = "userSent" /\ StepTurn(q, "failed")
        /\ CommitMessage(turn[q].conv, Question(q))
    BY <1>12 DEF AnswerLost
  <2>2. "failed" \in Ends
    BY DEF Ends
  <2> QED
    BY <1>2, <1>3, <1>4, <2>1, <2>2
<1> QED
  BY <1>5, <1>6, <1>7, <1>8, <1>9, <1>10, <1>11, <1>12 DEF PersistTurn

\* Every step keeps the types of the turns.
LEMMA TurnTyped ==
    ASSUME TypeInv, Next
    PROVE  /\ turn' \in [Questions -> Turns]
           /\ \A q \in Questions : stream'[q].state # "complete" => turn'[q].pc = "none"
<1>1. turn \in [Questions -> Turns] /\ stream \in [Questions -> Streams]
  BY DEF TypeInv, TypeOK, AsyncOK
<1>2. \A q \in Questions :
        /\ stream[q].state # "complete" => turn[q].pc = "none"
        /\ stream[q].state = "complete" => stream'[q] = stream[q]
  BY StreamTyped DEF TypeInv, StreamsOK
<1>3. CASE UNCHANGED <<server, turn>>
  BY <1>1, <1>2, <1>3
<1>4. ASSUME NEW q \in Questions, stream[q].state = "streaming", BeginTurn(q),
             stream' = [stream EXCEPT ![q].state = "complete"]
      PROVE  /\ turn' \in [Questions -> Turns]
             /\ \A p \in Questions : stream'[p].state # "complete" => turn'[p].pc = "none"
  <2>1. turn' = [turn EXCEPT ![q] = turn'[q]] /\ turn'[q] \in Turns
    BY <1>4, BeginTurnFields
  <2>2. turn' \in [Questions -> Turns] /\ \A p \in Questions \ {q} : turn'[p] = turn[p]
    BY <1>1, <2>1
  <2>3. stream'[q].state = "complete"
    BY <1>1, <1>4 DEF Streams
  <2> QED
    BY <1>2, <2>2, <2>3
<1>5. ASSUME NEW q \in Questions, PersistTurn(q)
      PROVE  /\ turn' \in [Questions -> Turns]
             /\ \A p \in Questions : stream'[p].state # "complete" => turn'[p].pc = "none"
  <2>1. /\ turn' = [turn EXCEPT ![q] = turn'[q]] /\ turn'[q] \in Turns
        /\ stream[q].state = "complete" /\ UNCHANGED stream
    BY <1>5, PersistTurnFields
  <2>2. turn' \in [Questions -> Turns] /\ \A p \in Questions \ {q} : turn'[p] = turn[p]
    BY <1>1, <2>1
  <2> QED
    BY <1>2, <2>1, <2>2
<1> QED
  BY <1>3, <1>4, <1>5, TurnSteps

\* The listing names conversations.
LEMMA ListingTyped ==
    ASSUME ServerOK
    PROVE  Listing \in Seq(Convs)
<1> DEFINE n == IF Len(recent) <= ListLimit THEN Len(recent) ELSE ListLimit
<1>1. recent \in Seq(Convs) /\ Len(recent) \in Nat
  BY LenProperties DEF ServerOK
<1>2. n \in Nat /\ n <= Len(recent)
  BY <1>1, ListLimitAssumption
<1> HIDE DEF n
<1>3. SubSeq(recent, 1, n) \in Seq(Convs)
  BY <1>1, <1>2
<1> QED
  BY <1>3 DEF Listing, n

\* A load keeps what it has, reads what is stored, or finds nothing.
LEMMA LoadFields ==
    ASSUME TypeInv, Next
    PROVE  /\ load' \in [Loads -> Fetches]
           /\ \A l \in Loads, c \in Convs :
                load'[l].detail[c] = load[l].detail[c] \/ load'[l].detail[c] \in Read(c)
<1> DEFINE Goal == /\ load' \in [Loads -> Fetches]
                   /\ \A l \in Loads, c \in Convs :
                        load'[l].detail[c] = load[l].detail[c] \/ load'[l].detail[c] \in Read(c)
<1>1. load \in [Loads -> Fetches]
  BY DEF TypeInv, TypeOK, AsyncOK
<1>2. CASE UNCHANGED load
  BY <1>1, <1>2
<1>3. /\ <<>> \in Seq(Convs) /\ <<>> \in Seq(Messages) /\ ServerOK
      /\ \A c \in Convs : <<>> \in Read(c)
  BY DEF TypeInv, TypeOK, Read
<1>4. ASSUME NEW l \in Loads, NEW f \in Fetches, load' = [load EXCEPT ![l] = f],
             \A c \in Convs : f.detail[c] = load[l].detail[c] \/ f.detail[c] \in Read(c)
      PROVE  Goal
  BY <1>1, <1>4
<1> HIDE DEF Goal
<1>5. ASSUME NEW l \in Loads, EndLoad(l) PROVE Goal
  <2> DEFINE f == [pc |-> "idle", list |-> <<>>, missing |-> {}, detail |-> [c \in Convs |-> <<>>]]
  <2>1. f \in Fetches /\ \A c \in Convs : f.detail[c] = <<>>
    BY <1>3 DEF Fetches
  <2>2. load' = [load EXCEPT ![l] = f]
    BY <1>5 DEF EndLoad
  <2> HIDE DEF f
  <2> QED
    <3>1. \A c \in Convs : f.detail[c] = load[l].detail[c] \/ f.detail[c] \in Read(c)
      BY <1>3, <2>1
    <3> QED
      BY <1>4, <2>1, <2>2, <3>1
<1>6. ASSUME NEW l \in Loads, StartLoad(l) PROVE Goal
  <2> DEFINE f == [load[l] EXCEPT !.pc = "list"]
  <2>1. load[l] \in Fetches
    BY <1>1
  <2>2. f \in Fetches /\ f.detail = load[l].detail
    BY <2>1 DEF Fetches
  <2>3. load' = [load EXCEPT ![l] = f]
    BY <1>6 DEF StartLoad
  <2> HIDE DEF f
  <2> QED
    BY <1>4, <2>2, <2>3
<1>7. ASSUME NEW l \in Loads, ListAnswered(l) PROVE Goal
  <2> DEFINE f == [load[l] EXCEPT !.pc = "details", !.list = Listing, !.missing = ToSet(Listing)]
  <2>1. EndLoad(l) \/ load' = [load EXCEPT ![l] = f]
    BY <1>7 DEF ListAnswered
  <2>2. Listing \in Seq(Convs) /\ ToSet(Listing) \subseteq Convs /\ load[l] \in Fetches
    BY <1>1, <1>3, ListingTyped, ElementsIn
  <2>3. f \in Fetches /\ f.detail = load[l].detail
    BY <2>2 DEF Fetches
  <2> HIDE DEF f
  <2> QED
    BY <1>4, <1>5, <2>1, <2>3
<1>8. ASSUME NEW l \in Loads, NEW c \in Convs, DetailAnswered(l, c) PROVE Goal
  <2>1. PICK rows \in Answered(c) :
          \/ EndLoad(l)
          \/ load' = [load EXCEPT ![l] = [load[l] EXCEPT !.missing = load[l].missing \ {c},
                                            !.detail = [load[l].detail EXCEPT ![c] = rows]]]
    BY <1>8 DEF DetailAnswered
  <2> DEFINE detail == [load[l].detail EXCEPT ![c] = rows]
             f == [load[l] EXCEPT !.missing = load[l].missing \ {c}, !.detail = detail]
  <2>2. rows \in Seq(Messages) /\ rows \in Read(c) /\ load[l] \in Fetches
    BY <1>1, <1>3, AnsweredRows DEF Read
  <2>3. /\ detail \in [Convs -> Seq(Messages)]
        /\ \A d \in Convs : detail[d] = load[l].detail[d] \/ detail[d] \in Read(d)
    BY <2>2 DEF Fetches
  <2>4. EndLoad(l) \/ load' = [load EXCEPT ![l] = f]
    BY <2>1
  <2> HIDE DEF detail
  <2>5. f \in Fetches /\ f.detail = detail
    BY <2>2, <2>3 DEF Fetches
  <2> HIDE DEF f
  <2> QED
    BY <1>4, <1>5, <2>3, <2>4, <2>5
<1>9. CASE User
  <2>1. UNCHANGED load \/ \E l \in Loads : StartLoad(l)
    BY <1>9 DEF User, NewChat, ClearChat, SelectSession, SendFirstQuery, SendQuery
  <2> QED
    BY <2>1, <1>2, <1>6 DEF Goal
<1>10. ASSUME NEW q \in Questions, StreamEvent(q) PROVE UNCHANGED load
  BY <1>10 DEF StreamEvent, OnRetrieval, OnToken, OnComplete, OnError
<1>11. ASSUME NEW q \in Questions, PersistTurn(q) PROVE UNCHANGED load
  BY <1>11 DEF PersistTurn, ConversationCreated, ConversationAnswered, BeginQuestion,
               AppendQuestion, BeginAnswer, AppendAnswer, CallFails, AnswerLost, client
<1>12. ASSUME NEW l \in Loads, LoadFails(l) PROVE Goal
  BY <1>5, <1>12 DEF LoadFails
<1>13. Goal
  BY <1>2, <1>7, <1>8, <1>9, <1>10, <1>11, <1>12 DEF Next, LoadConversations, Goal
<1> QED
  BY <1>13 DEF Goal

\* Every step keeps the types of the history.
LEMMA HistoryTyped ==
    ASSUME TypeInv, Observe, StoreOK', ServerOK'
    PROVE  HistoryOK'
<1>1. \A q \in Open : stream[q].sid \in Sids
  BY DEF TypeInv, StreamsOK, Open
<1>2. strayed' \subseteq Sids
  BY <1>1 DEF Observe, TypeInv, TypeOK, HistoryOK
<1>3. activeSessionId \in Sids \cup {None}
  BY DEF TypeInv, TypeOK, ViewOK, StoreOK
<1>4. wiped' \subseteq Sids \cup {None}
  BY <1>3 DEF Observe, TypeInv, TypeOK, HistoryOK
<1>5. doubled' \subseteq Sids
  BY DEF Observe, TypeInv, TypeOK, HistoryOK
<1>6. loadedFrom' \in [Sids -> Convs \cup {None}]
  BY DEF Observe, TypeInv, TypeOK, HistoryOK, StoreOK
<1>7. ASSUME NEW c \in Convs PROVE Late(c) \subseteq Nat \ {0}
  <2>1. Late(c) \subseteq DOMAIN stored'[c] /\ stored'[c] \in Seq(Messages)
    BY DEF Late, Committed, ServerOK
  <2>2. DOMAIN stored'[c] = 1..Len(stored'[c]) /\ Len(stored'[c]) \in Nat
    BY <2>1, LenProperties
  <2> QED
    BY <2>1, <2>2
<1>8. late' = late \cup UNION {{c} \X Late(c) : c \in Convs}
      /\ late \subseteq Convs \X (Nat \ {0})
  BY DEF Observe, TypeInv, TypeOK, HistoryOK
<1>9. \A p \in UNION {{c} \X Late(c) : c \in Convs} : p \in Convs \X (Nat \ {0})
  BY <1>7
<1>10. late' \subseteq Convs \X (Nat \ {0})
  BY <1>8, <1>9
<1> QED
  BY <1>2, <1>4, <1>5, <1>6, <1>10 DEF HistoryOK

\* The initial state has the types.
LEMMA StartTyped ==
    ASSUME Start
    PROVE  TypeInv
<1> USE DEF Start, Init, InitServer
<1>1. <<>> \in Seq(Messages) /\ <<>> \in Seq(Convs) /\ <<>> \in Seq(Sids)
      /\ DOMAIN <<>> = {} /\ ToSet(<<>>) = {}
  BY DEF ToSet
<1>2. ServerOK
  BY <1>1 DEF ServerOK, IsInjective
<1>3. StoreOK
  BY <1>1 DEF StoreOK, IsInjective, Listed
<1>4. ViewOK
  BY <1>1 DEF ViewOK
<1>5. AsyncOK /\ StreamsOK
  <2>1. {} \in Texts /\ 0 \in 0..MaxTokens
    BY MaxTokensAssumption DEF Texts
  <2> QED
    BY <1>1, <2>1 DEF AsyncOK, StreamsOK, Streams, Turns, Fetches
<1>6. HistoryOK
  BY DEF HistoryOK
<1> QED
  BY <1>2, <1>3, <1>4, <1>5, <1>6 DEF TypeInv, TypeOK

\* Every step keeps the types.
LEMMA NextTyped ==
    ASSUME TypeInv, [Next]_vars
    PROVE  TypeInv'
<1>1. CASE Next
  <2>1. ServerOK' /\ StoreOK' /\ ViewOK'
    BY <1>1, ServerTyped, ClientTyped
  <2>2. AsyncOK' /\ StreamsOK'
    BY <1>1, StreamTyped, TurnTyped, LoadFields DEF AsyncOK, StreamsOK
  <2>3. HistoryOK'
    BY <1>1, <2>1, HistoryTyped DEF Next
  <2> QED
    BY <2>1, <2>2, <2>3 DEF TypeInv, TypeOK
<1>2. CASE UNCHANGED vars
  BY <1>2 DEF vars, server, client, store, view, history, TypeInv, TypeOK, ServerOK, StoreOK,
              ViewOK, AsyncOK, HistoryOK, StreamsOK, Listed
<1> QED
  BY <1>1, <1>2

\* The store and the rows hold values of their kinds, and the active session is
\* one of the side bar, for any questions, sessions, conversations and loads.
THEOREM TypeCorrect == Spec => []TypeOK
<1>1. Start => TypeInv
  BY StartTyped
<1>2. TypeInv /\ [Next]_vars => TypeInv'
  BY NextTyped
<1>3. TypeInv => TypeOK
  BY DEF TypeInv
<1> QED
  BY <1>1, <1>2, <1>3, PTL DEF Spec

-----------------------------------------------------------------------------
(* What a turn has stored *)

\* The row at a place is committed.
SavedAt(p) == stored[p[1]][p[2]].saved

\* No row that was committed is taken back.
SavedStays == \A d \in Convs : \A j \in DOMAIN stored[d] :
                stored[d][j].saved => stored'[d][j].saved

\* Before the question is sent nothing is stored, and no answer before it is sent;
\* the answer follows into the conversation the question was committed to.
StoredInv ==
    \A q \in Questions :
        /\ turn[q].pc \notin {"assistantSent", "stored"} => Places(q, "assistant") = {}
        /\ turn[q].pc \in {"none", "create", "created", "user", "dropped", "orphaned"} =>
             Places(q, "user") = {}
        /\ turn[q].pc \in {"created", "user", "userSent", "assistant", "assistantSent"} =>
             turn[q].conv \in Convs
        /\ turn[q].pc = "assistant" =>
             \E u \in Places(q, "user") : u[1] = turn[q].conv /\ SavedAt(u)

\* Places, spelled out for one place.
LEMMA PlaceIs ==
    ASSUME NEW q, NEW role, NEW p
    PROVE  p \in Places(q, role) <=>
             \E c \in Convs : \E i \in DOMAIN stored[c] :
                /\ p = <<c, i>>
                /\ stored[c][i].q = q /\ stored[c][i].role = role
  BY DEF Places

\* The same of the next state.
LEMMA PlaceIsNext ==
    ASSUME NEW q, NEW role, NEW p
    PROVE  p \in Places(q, role)' <=>
             \E c \in Convs : \E i \in DOMAIN stored'[c] :
                /\ p = <<c, i>>
                /\ stored'[c][i].q = q /\ stored'[c][i].role = role
  BY DEF Places

\* A POST that begins adds one place, after all others of its conversation.
LEMMA BeginPlaces ==
    ASSUME TypeOK, NEW c \in Convs, NEW m \in Messages, BeginMessage(c, m)
    PROVE  SavedStays /\ \E new :
           /\ new[1] = c
           /\ \A q, role :
                /\ m.q = q /\ m.role = role => Places(q, role)' = Places(q, role) \cup {new}
                /\ ~(m.q = q /\ m.role = role) => Places(q, role)' = Places(q, role)
                /\ \A p \in Places(q, role) : p[1] = c => p[2] < new[2]
<1> DEFINE k == Len(stored[c]) + 1
<1>1. stored \in [Convs -> Seq(Messages)]
  BY DEF TypeOK, ServerOK
<1>2. m.q \in Questions
  BY DEF Messages
<1>3. stored' = [stored EXCEPT ![c] = Append(stored[c], m)]
  BY DEF BeginMessage
<1>4. /\ \A d \in Convs \ {c} : stored'[d] = stored[d]
      /\ stored'[c] = Append(stored[c], m)
  BY <1>1, <1>3
<1>5. /\ Len(stored[c]) \in Nat /\ DOMAIN stored[c] = 1..Len(stored[c])
      /\ stored'[c] \in Seq(Messages) /\ Len(stored'[c]) = k
      /\ \A i \in 1..Len(stored[c]) : stored'[c][i] = stored[c][i]
      /\ stored'[c][k] = m
  BY <1>1, <1>2, <1>4, LenProperties, AppendProperties
<1>6. /\ k \in Nat /\ DOMAIN stored'[c] = 1..k /\ 1..k = (DOMAIN stored[c]) \cup {k}
      /\ \A i \in DOMAIN stored[c] : i < k
  BY <1>5, LenProperties
<1> DEFINE new == <<c, k>>
<1>8. new[1] = c /\ new[2] = k
  OBVIOUS
<1> HIDE DEF k, new
<1>7. ASSUME NEW q, NEW role
      PROVE  /\ Places(q, role)' = Places(q, role) \cup
                    IF m.q = q /\ m.role = role THEN {new} ELSE {}
             /\ \A p \in Places(q, role) : p[1] = c => p[2] < k
  <2> USE DEF new
  <2>1. ASSUME NEW p \in Places(q, role)
        PROVE  p \in Places(q, role)' /\ (p[1] = c => p[2] < k)
    <3>1. PICK d \in Convs : \E i \in DOMAIN stored[d] :
            p = <<d, i>> /\ stored[d][i].q = q /\ stored[d][i].role = role
      BY PlaceIs
    <3>0. PICK i \in DOMAIN stored[d] :
            p = <<d, i>> /\ stored[d][i].q = q /\ stored[d][i].role = role
      BY <3>1
    <3>2. i \in DOMAIN stored'[d] /\ stored'[d][i] = stored[d][i]
      BY <1>4, <1>5, <1>6
    <3>3. p \in Places(q, role)'
      BY <3>0, <3>2, PlaceIsNext
    <3> QED
      BY <1>6, <3>0, <3>3
  <2>2. ASSUME NEW p \in Places(q, role)', p \notin Places(q, role)
        PROVE  p = <<c, k>> /\ m.q = q /\ m.role = role
    <3>1. PICK d \in Convs : \E i \in DOMAIN stored'[d] :
            p = <<d, i>> /\ stored'[d][i].q = q /\ stored'[d][i].role = role
      BY PlaceIsNext
    <3>0. PICK i \in DOMAIN stored'[d] :
            p = <<d, i>> /\ stored'[d][i].q = q /\ stored'[d][i].role = role
      BY <3>1
    <3>2. ~(i \in DOMAIN stored[d] /\ stored[d][i].q = q /\ stored[d][i].role = role)
      BY <2>2, <3>0, PlaceIs
    <3>3. d = c /\ i = k
      BY <1>4, <1>5, <1>6, <3>0, <3>2
    <3> QED
      BY <1>2, <1>5, <3>0, <3>3
  <2>3. ASSUME m.q = q, m.role = role PROVE <<c, k>> \in Places(q, role)'
    <3>1. k \in DOMAIN stored'[c] /\ stored'[c][k].q = q /\ stored'[c][k].role = role
      BY <1>2, <1>5, <1>6, <2>3
    <3> QED
      BY <1>1, <3>1, PlaceIsNext
  <2> QED
    BY <2>1, <2>2, <2>3
<1>9. ASSUME NEW q, NEW role
      PROVE  /\ m.q = q /\ m.role = role => Places(q, role)' = Places(q, role) \cup {new}
             /\ ~(m.q = q /\ m.role = role) => Places(q, role)' = Places(q, role)
             /\ \A p \in Places(q, role) : p[1] = c => p[2] < new[2]
  <2>1. \A p \in Places(q, role) : p[1] = c => p[2] < new[2]
    BY <1>7, <1>8
  <2>2. CASE m.q = q /\ m.role = role
    BY <1>7, <2>1, <2>2
  <2>3. CASE ~(m.q = q /\ m.role = role)
    <3>1. Places(q, role)' = Places(q, role) \cup {}
      BY <1>7, <2>3
    <3>2. Places(q, role)' = Places(q, role)
      BY <3>1
    <3> QED
      BY <2>1, <2>3, <3>2
  <2> QED
    BY <2>2, <2>3
<1>10. SavedStays
  BY <1>4, <1>5 DEF SavedStays
<1> QED
  BY <1>8, <1>9, <1>10

\* A commit leaves all places and is one of them.
LEMMA CommitPlaces ==
    ASSUME TypeOK, NEW c, NEW m \in Messages, CommitMessage(c, m)
    PROVE  /\ SavedStays
           /\ \A q, role : Places(q, role)' = Places(q, role)
           /\ \E u \in Places(m.q, m.role) : u[1] = c /\ SavedAt(u)'
<1>1. /\ c \in Convs
      /\ \A d \in Convs : DOMAIN stored'[d] = DOMAIN stored[d]
      /\ \A d \in Convs : \A j \in DOMAIN stored[d] :
                /\ stored'[d][j].q = stored[d][j].q
                /\ stored'[d][j].role = stored[d][j].role
                /\ stored[d][j].saved => stored'[d][j] = stored[d][j]
  BY CommitMessageFields DEF TypeOK
<1>2. PICK i \in DOMAIN stored[c] : stored[c][i] = m /\ stored'[c][i].saved
  BY CommitMessageFields DEF TypeOK
<1>3. SavedStays
  BY <1>1 DEF SavedStays
<1>4. ASSUME NEW q, NEW role PROVE Places(q, role)' = Places(q, role)
  <2>1. \A p : p \in Places(q, role)' <=> p \in Places(q, role)
    BY <1>1, PlaceIs, PlaceIsNext
  <2> QED
    BY <2>1
<1>5. <<c, i>> \in Places(m.q, m.role)
  BY <1>1, <1>2, PlaceIs
<1>6. \E u \in Places(m.q, m.role) : u[1] = c /\ SavedAt(u)'
  BY <1>2, <1>5 DEF SavedAt
<1> QED
  BY <1>3, <1>4, <1>6

\* Where the places are.
LEMMA PlaceStays ==
    ASSUME SavedStays, NEW q, NEW role, NEW u \in Places(q, role), SavedAt(u)
    PROVE  SavedAt(u)'
  BY PlaceIs DEF SavedStays, SavedAt

\* StoredOnce where no place is added.
LEMMA OnceStays ==
    ASSUME StoredOnce, SavedStays,
           \A q \in Questions, role \in {"user", "assistant"} :
               Places(q, role)' = Places(q, role)
    PROVE  StoredOnce'
<1>1. \A q \in Questions : \A u \in Places(q, "user") : SavedAt(u) => SavedAt(u)'
  BY PlaceStays
<1> QED
  BY <1>1 DEF StoredOnce, SavedAt

LEMMA SavedStaysSame == ASSUME UNCHANGED stored PROVE SavedStays
  BY DEF SavedStays

\* The messages of other questions stay where they are.
LEMMA PlacesKept ==
    ASSUME NEW q, NEW role, UNCHANGED stored
    PROVE  Places(q, role)' = Places(q, role)
  BY DEF Places

\* Every step keeps what is known of the stored turns: only persistTurn stores
\* anything, and each of its steps goes on to the next.
LEMMA StoredKept ==
    ASSUME TypeInv, StoredInv, StoredOnce, Next
    PROVE  StoredInv' /\ StoredOnce'
<1>1. turn \in [Questions -> Turns]
  BY DEF TypeInv, TypeOK, AsyncOK
<1> DEFINE Same == \A p \in Questions, role \in {"user", "assistant"} :
                      Places(p, role)' = Places(p, role)
           SameOthers(q) == \A p \in Questions \ {q}, role \in {"user", "assistant"} :
                      Places(p, role)' = Places(p, role)
           \* What StoredInv says of a question.
           For(q) ==
             /\ turn[q].pc \notin {"assistantSent", "stored"} => Places(q, "assistant") = {}
             /\ turn[q].pc \in {"none", "create", "created", "user", "dropped", "orphaned"} =>
                  Places(q, "user") = {}
             /\ turn[q].pc \in {"created", "user", "userSent", "assistant", "assistantSent"} =>
                  turn[q].conv \in Convs
             /\ turn[q].pc = "assistant" =>
                  \E u \in Places(q, "user") : u[1] = turn[q].conv /\ SavedAt(u)
<1>2. \A q \in Questions : For(q)
  BY DEF StoredInv
<1>3. ASSUME NEW q \in Questions, turn'[q] = turn[q], SavedStays,
             \A role \in {"user", "assistant"} : Places(q, role)' = Places(q, role)
      PROVE  For(q)'
  <2>1. \A u \in Places(q, "user") : SavedAt(u) => SavedAt(u)'
    BY <1>3, PlaceStays
  <2>2. For(q)
    BY <1>2
  <2> QED
    BY <1>3, <2>1, <2>2
<1>4. (\A q \in Questions : For(q)') => StoredInv'
  BY DEF StoredInv
<1> HIDE DEF For
<1>5. CASE UNCHANGED <<server, turn>>
  <2>1. UNCHANGED stored /\ SavedStays /\ Same
    BY <1>5, PlacesKept, SavedStaysSame DEF server
  <2>2. \A q \in Questions : For(q)'
    BY <1>3, <1>5, <2>1
  <2> QED
    BY <1>4, <2>1, <2>2, OnceStays
<1>6. ASSUME NEW q \in Questions, stream[q].state = "streaming", BeginTurn(q),
             UNCHANGED server
      PROVE  StoredInv' /\ StoredOnce'
  <2>1. /\ turn' = [turn EXCEPT ![q] = turn'[q]]
        /\ turn'[q].pc \in {"create", "user", "dropped"}
        /\ turn'[q].pc = "user" => turn'[q].conv \in Convs
    BY <1>6, BeginTurnFields
  <2>2. turn[q].pc = "none"
    BY <1>6 DEF TypeInv, StreamsOK
  <2>3. \A p \in Questions \ {q} : turn'[p] = turn[p]
    BY <1>1, <2>1
  <2>4. UNCHANGED stored /\ SavedStays /\ Same
    BY <1>6, PlacesKept, SavedStaysSame DEF server
  <2>5. Places(q, "user") = {} /\ Places(q, "assistant") = {}
    BY <1>2, <2>2 DEF For
  <2>6. For(q)'
    BY <2>1, <2>4, <2>5 DEF For
  <2>7. \A p \in Questions : For(p)'
    BY <1>3, <2>3, <2>4, <2>6
  <2> QED
    BY <1>4, <2>4, <2>7, OnceStays
<1>7. ASSUME NEW q \in Questions, PersistTurn(q)
      PROVE  StoredInv' /\ StoredOnce'
  <2>1. turn' = [turn EXCEPT ![q] = turn'[q]] /\ turn'[q] \in Turns
    BY <1>7, PersistTurnFields
  <2>2. \A p \in Questions \ {q} : turn'[p] = turn[p]
    BY <1>1, <2>1
  <2>3. For(q)
    BY <1>2
  <2>4. ASSUME SavedStays, SameOthers(q), For(q)' PROVE StoredInv'
    <3>1. \A p \in Questions : For(p)'
      BY <1>3, <2>2, <2>4
    <3> QED
      BY <1>4, <3>1
  <2>5. CASE /\ UNCHANGED stored
             /\ \/ /\ turn[q].pc = "create" /\ turn'[q].pc = "created"
                   /\ turn'[q].conv \in Convs
                \/ /\ turn[q].pc = "created" /\ turn'[q].pc \in {"user", "orphaned"}
                   /\ turn'[q].conv = turn[q].conv
                \/ turn[q].pc \in {"create", "user"} /\ turn'[q].pc = "failed"
                \/ turn[q].pc = "assistant" /\ turn'[q].pc \in {"rejected", "failed"}
    <3>1. SavedStays /\ Same
      BY <2>5, PlacesKept, SavedStaysSame
    <3>2. For(q)'
      BY <2>3, <2>5, <3>1 DEF For
    <3> QED
      BY <2>4, <3>1, <3>2, OnceStays
  <2>6. CASE /\ turn[q].pc = "user" /\ turn'[q].pc = "userSent"
             /\ BeginMessage(turn[q].conv, Question(q))
             /\ turn'[q].conv = turn[q].conv
    <3>1. Question(q) \in Messages /\ Question(q).q = q /\ Question(q).role = "user"
      BY TurnFields DEF TypeInv, Question
    <3>2. /\ turn[q].conv \in Convs
          /\ Places(q, "user") = {} /\ Places(q, "assistant") = {}
      BY <2>3, <2>6 DEF For
    <3>c. TypeOK /\ BeginMessage(turn[q].conv, Question(q))
      BY <2>6 DEF TypeInv
    <3>a. SavedStays /\ \E new :
            /\ new[1] = turn[q].conv
            /\ \A p, role :
                /\ p = q /\ role = "user" => Places(p, role)' = Places(p, role) \cup {new}
                /\ ~(p = q /\ role = "user") => Places(p, role)' = Places(p, role)
      BY <3>1, <3>2, <3>c, BeginPlaces
    <3>b. PICK new :
            \A p, role :
                /\ p = q /\ role = "user" => Places(p, role)' = Places(p, role) \cup {new}
                /\ ~(p = q /\ role = "user") => Places(p, role)' = Places(p, role)
      BY <3>a
    <3>3. /\ Places(q, "user")' = {new} /\ Places(q, "assistant")' = {}
          /\ SameOthers(q)
      BY <3>b, <3>2
    <3>4. \A p \in Questions : \A u \in Places(p, "user") : SavedAt(u) => SavedAt(u)'
      BY <3>a, PlaceStays
    <3>5. StoredOnce'
      BY <3>3, <3>4 DEF StoredOnce, SavedAt
    <3>6. For(q)'
      BY <2>6, <3>2, <3>3 DEF For
    <3> QED
      BY <2>4, <3>a, <3>3, <3>5, <3>6
  <2>7. CASE /\ turn[q].pc = "userSent" /\ turn'[q].pc \in {"assistant", "failed"}
             /\ CommitMessage(turn[q].conv, Question(q))
             /\ turn'[q].conv = turn[q].conv
    <3>1. Question(q) \in Messages /\ Question(q).q = q /\ Question(q).role = "user"
      BY TurnFields DEF TypeInv, Question
    <3>2. /\ SavedStays /\ \A p, role : Places(p, role)' = Places(p, role)
          /\ \E u \in Places(q, "user") : u[1] = turn[q].conv /\ SavedAt(u)'
      BY <2>7, <3>1, CommitPlaces DEF TypeInv
    <3>3. Same
      BY <3>2
    <3>4. turn[q].conv \in Convs /\ Places(q, "assistant") = {}
      BY <2>3, <2>7 DEF For
    <3>5. For(q)'
      BY <2>7, <3>2, <3>4 DEF For
    <3> QED
      BY <2>4, <3>2, <3>3, <3>5, OnceStays
  <2>8. CASE /\ turn[q].pc = "assistant" /\ turn'[q].pc = "assistantSent"
             /\ BeginMessage(turn[q].conv, Answer(q, turn[q].text, "done"))
             /\ turn'[q].conv = turn[q].conv
    <3> DEFINE m == Answer(q, turn[q].text, "done")
    <3>1. m \in Messages /\ m.q = q /\ m.role = "assistant"
      BY TurnFields DEF TypeInv, Answer, Question
    <3>2. BeginMessage(turn[q].conv, m)
      BY <2>8
    <3> HIDE DEF m
    <3>3. /\ turn[q].conv \in Convs /\ Places(q, "assistant") = {}
          /\ \E u \in Places(q, "user") : u[1] = turn[q].conv /\ SavedAt(u)
      BY <2>3, <2>8 DEF For
    <3>a. SavedStays /\ \E new :
            /\ new[1] = turn[q].conv
            /\ \A p, role :
                /\ p = q /\ role = "assistant" => Places(p, role)' = Places(p, role) \cup {new}
                /\ ~(p = q /\ role = "assistant") => Places(p, role)' = Places(p, role)
                /\ \A u \in Places(p, role) : u[1] = turn[q].conv => u[2] < new[2]
      BY <3>1, <3>2, <3>3, BeginPlaces DEF TypeInv
    <3>b. PICK new :
            /\ new[1] = turn[q].conv
            /\ \A p, role :
                /\ p = q /\ role = "assistant" => Places(p, role)' = Places(p, role) \cup {new}
                /\ ~(p = q /\ role = "assistant") => Places(p, role)' = Places(p, role)
                /\ \A u \in Places(p, role) : u[1] = turn[q].conv => u[2] < new[2]
      BY <3>a
    <3>4. /\ Places(q, "assistant")' = {new}
          /\ Places(q, "user")' = Places(q, "user")
          /\ SameOthers(q)
          /\ \A u \in Places(q, "user") : u[1] = new[1] => u[2] < new[2]
      BY <3>b, <3>3
    <3>5. \A p \in Questions : \A u \in Places(p, "user") : SavedAt(u) => SavedAt(u)'
      BY <3>a, PlaceStays
    <3>6. \E u \in Places(q, "user") : u[1] = new[1] /\ u[2] < new[2] /\ SavedAt(u)'
      BY <3>b, <3>3, <3>4, <3>5
    <3>7. StoredOnce'
      BY <3>4, <3>5, <3>6 DEF StoredOnce, SavedAt
    <3>8. For(q)'
      BY <2>8, <3>3 DEF For
    <3> QED
      BY <2>4, <3>a, <3>4, <3>7, <3>8
  <2>9. CASE /\ turn[q].pc = "assistantSent" /\ turn'[q].pc = "stored"
             /\ CommitMessage(turn[q].conv, Answer(q, turn[q].text, "done"))
    <3>1. Answer(q, turn[q].text, "done") \in Messages
      BY TurnFields DEF TypeInv
    <3>2. SavedStays /\ \A p, role : Places(p, role)' = Places(p, role)
      BY <2>9, <3>1, CommitPlaces DEF TypeInv
    <3>3. Same
      BY <3>2
    <3>4. For(q)'
      BY <2>9 DEF For
    <3> QED
      BY <2>4, <3>2, <3>3, <3>4, OnceStays
  <2> QED
    BY <1>7, <2>5, <2>6, <2>7, <2>8, <2>9, PersistTurnFields
<1> QED
  BY <1>5, <1>6, <1>7, TurnSteps

\* The invariant the next theorem follows from.
LEMMA StoredInvariant == Spec => [](TypeInv /\ StoredInv /\ StoredOnce)
<1>1. Start => TypeInv /\ StoredInv /\ StoredOnce
  <2> SUFFICES ASSUME Start PROVE TypeInv /\ StoredInv /\ StoredOnce
    OBVIOUS
  <2>1. \A c \in Convs : DOMAIN stored[c] = {}
    BY DEF Start, Init, InitServer
  <2>2. \A q, role : Places(q, role) = {}
    BY <2>1, PlaceIs
  <2>3. \A q \in Questions : turn[q].pc = "none"
    BY DEF Start, Init
  <2> QED
    BY <2>2, <2>3, StartTyped DEF StoredInv, StoredOnce
<1>2. TypeInv /\ StoredInv /\ StoredOnce /\ [Next]_vars => (TypeInv /\ StoredInv /\ StoredOnce)'
  <2>1. ASSUME UNCHANGED vars, StoredInv, StoredOnce PROVE StoredInv' /\ StoredOnce'
    BY <2>1, PlacesKept DEF vars, server, StoredInv, StoredOnce, SavedAt
  <2> QED
    BY <2>1, NextTyped, StoredKept
<1> QED
  BY <1>1, <1>2, PTL DEF Spec

\* A turn is stored at most once, the answer after its question and in the
\* same conversation, whatever turns, loads and failures do.
THEOREM StoredAtMostOnce == Spec => []StoredOnce
  BY StoredInvariant, PTL

-----------------------------------------------------------------------------
(* What the sessions and the display hold *)

\* What a load has read of the rows carries server ids; an id that is not used
\* yet has no message and no question.
OriginInv ==
    /\ \A l \in Loads, c \in Convs : AllSaved(load[l].detail[c])
    /\ \A s \in Sids \ used : sessionMessages[s] = <<>>
    /\ \A q \in Questions : stream[q].sid \in used \cup {None}

\* Any answer to q in ms is what its stream has sent ...
Current(q, ms) ==
    \A m \in ToSet(ms) : IsAnswerTo(m, q) =>
        /\ m.text = 1..stream[q].sent
        /\ m.status = IF stream[q].state = "asked" THEN "thinking"
                      ELSE IF stream[q].state = "complete" THEN "done" ELSE "streaming"

\* ... and there is one.
UpToDate(q, ms) == Has(ms, q) /\ Current(q, ms)

\* If ms answers q, then q was asked in s, and if q was asked in s, then ms
\* has an answer, unless s was cleared, and misses nothing of it.
SoundFor(q, s, ms) ==
    /\ Has(ms, q) => stream[q].sid = s
    /\ stream[q].sid = s /\ stream[q].state \in {"asked", "streaming", "complete"} =>
        /\ Current(q, ms)
        /\ s \notin wiped => Has(ms, q)

\* ms are messages of session s.
Sound(s, ms) == \A q \in Questions : SoundFor(q, s, ms)

NothingSent ==
    \A q \in Questions : stream[q].state \in {"unasked", "asked"} => stream[q].sent = 0

SessionsInv ==
    /\ \A s \in Listed \ strayed : Sound(s, sessionMessages[s])
    /\ DisplayAgrees
    /\ NothingSent

\* Sending a question touches the stream of that question only.
LEMMA AskedStream ==
    ASSUME TypeOK, NEW q \in Questions, NEW s,
           stream' = [stream EXCEPT ![q] = [@ EXCEPT !.state = "asked", !.sid = s]]
    PROVE  /\ stream'[q].state = "asked" /\ stream'[q].sid = s
           /\ stream'[q].sent = stream[q].sent
           /\ \A p \in Questions \ {q} : stream'[p] = stream[p]
<1>1. stream \in [Questions -> Streams] /\ stream[q] \in Streams
  BY DEF TypeOK, AsyncOK
<1>2. stream'[q] = [stream[q] EXCEPT !.state = "asked", !.sid = s]
  BY <1>1
<1>3. \A p \in Questions \ {q} : stream'[p] = stream[p]
  BY <1>1
<1>4. stream'[q].state = "asked" /\ stream'[q].sid = s /\ stream'[q].sent = stream[q].sent
  BY <1>1, <1>2 DEF Streams
<1> QED
  BY <1>3, <1>4

\* So does an event, which leaves the session it belongs to.
LEMMA EventStream ==
    ASSUME TypeOK, NEW q \in Questions, StreamEvent(q)
    PROVE  /\ stream'[q].sid = stream[q].sid /\ stream'[q] # stream[q]
           /\ stream[q].state \in {"asked", "streaming"}
           /\ \A p \in Questions \ {q} : stream'[p] = stream[p]
<1>1. stream \in [Questions -> Streams] /\ stream[q] \in Streams
  BY DEF TypeOK, AsyncOK
<1>2. /\ stream[q].state \in {"asked", "streaming"}
      /\ \/ stream' = [stream EXCEPT ![q].state = "error"]
         \/ stream[q].state = "asked" /\ stream' = [stream EXCEPT ![q].state = "streaming"]
         \/ stream' = [stream EXCEPT ![q].state = "complete"]
         \/ stream' = [stream EXCEPT ![q].sent = @ + 1]
  BY StreamEventFields
<1>3. ASSUME NEW x \in {"streaming", "complete", "error"}, x # stream[q].state,
             stream' = [stream EXCEPT ![q].state = x]
      PROVE  stream'[q].sid = stream[q].sid /\ stream'[q] # stream[q]
  BY <1>1, <1>3 DEF Streams
<1>4. ASSUME stream' = [stream EXCEPT ![q].sent = @ + 1]
      PROVE  stream'[q].sid = stream[q].sid /\ stream'[q] # stream[q]
  <2>1. stream'[q].sent = stream[q].sent + 1 /\ stream[q].sent \in Int
    BY <1>1, <1>4, MaxTokensAssumption DEF Streams
  <2>2. stream'[q].sid = stream[q].sid
    BY <1>1, <1>4 DEF Streams
  <2>3. stream'[q].sent # stream[q].sent
    BY <2>1
  <2> QED
    BY <2>2, <2>3
<1>5. stream'[q].sid = stream[q].sid /\ stream'[q] # stream[q]
  BY <1>2, <1>3, <1>4
<1>6. \A p \in Questions \ {q} : stream'[p] = stream[p]
  BY <1>1, <1>2
<1> QED
  BY <1>2, <1>5, <1>6

\* Every step keeps OriginInv.
LEMMA OriginKept ==
    ASSUME TypeInv, OriginInv, Next
    PROVE  OriginInv'
<1>1. ServerOK
  BY DEF TypeInv, TypeOK
<1>2. ASSUME NEW l \in Loads, NEW c \in Convs PROVE AllSaved(load'[l].detail[c])
  BY <1>1, LoadFields, ReadRows DEF OriginInv
<1>3. /\ \A s \in Sids \ used' : sessionMessages'[s] = <<>>
      /\ \A q \in Questions : stream'[q].sid \in used' \cup {None}
  <2>1. stream \in [Questions -> Streams] /\ sessionMessages \in [Sids -> Seq(Messages)]
    BY DEF TypeInv, TypeOK, AsyncOK, StoreOK
  <2>2. Listed \subseteq used
    BY DEF TypeInv, TypeOK, StoreOK
  <2>3. CASE UNCHANGED <<store, view, isLoading, stream>>
    BY <2>3 DEF store, OriginInv
  <2>4. CASE NewChat
    <3>1. UNCHANGED stream
      BY <2>4 DEF NewChat
    <3> QED
      BY <2>4, <3>1, NewChatFields DEF OriginInv, TypeInv
  <2>5. CASE ClearChat
    BY <2>1, <2>2, <2>5 DEF ClearChat, SetSessionMessages, OriginInv
  <2>6. ASSUME NEW s \in Sids, SelectSession(s)
        PROVE  UNCHANGED <<used, sessionMessages, stream>>
    BY <2>6 DEF SelectSession, store
  <2>7. ASSUME NEW q \in Questions, SendFirstQuery(q)
        PROVE  /\ \A s \in Sids \ used' : sessionMessages'[s] = <<>>
               /\ \A p \in Questions : stream'[p].sid \in used' \cup {None}
    <3>1. /\ activeSessionId' \in Sids \ used /\ used' = used \cup {activeSessionId'}
          /\ sessionMessages' = [sessionMessages EXCEPT ![activeSessionId'] = messages']
      BY <2>7, SendFirstQueryFields DEF TypeInv
    <3>2. /\ stream'[q].sid = activeSessionId'
          /\ \A p \in Questions \ {q} : stream'[p] = stream[p]
      BY <2>7, SendFirstQueryFields, AskedStream DEF TypeInv
    <3>3. \A p \in Questions : stream'[p].sid \in used' \cup {None}
      BY <3>1, <3>2 DEF OriginInv
    <3>4. \A s \in Sids \ used' : sessionMessages'[s] = <<>>
      BY <2>1, <3>1 DEF OriginInv
    <3> QED
      BY <3>3, <3>4
  <2>8. ASSUME NEW q \in Questions, SendQuery(q)
        PROVE  /\ \A s \in Sids \ used' : sessionMessages'[s] = <<>>
               /\ \A p \in Questions : stream'[p].sid \in used' \cup {None}
    BY <2>1, <2>2, <2>8, SendQueryFields DEF OriginInv, TypeInv, Streams
  <2>9. ASSUME NEW q \in Questions, StreamEvent(q)
        PROVE  /\ \A s \in Sids \ used' : sessionMessages'[s] = <<>>
               /\ \A p \in Questions : stream'[p].sid \in used' \cup {None}
    <3>1. PICK text \in Texts, status \in Statuses : UpdateAssistant(q, text, status)
      BY <2>9, StreamEventUpdates DEF TypeInv
    <3>2. /\ sessionMessages' = [sessionMessages EXCEPT ![stream[q].sid] =
                                    IF stream[q].sid \in Listed THEN messages' ELSE @]
          /\ used' = used
      BY <3>1, UpdateAssistantFields DEF TypeInv
    <3>3. \A s \in Sids \ used' : sessionMessages'[s] = <<>>
      BY <2>1, <2>2, <3>2 DEF OriginInv
    <3>5. \A p \in Questions : stream'[p].sid = stream[p].sid
      BY <2>9, EventStream DEF TypeInv
    <3> QED
      BY <3>2, <3>3, <3>5 DEF OriginInv
  <2>10. ASSUME NEW q \in Questions, ConversationAnswered(q)
         PROVE  UNCHANGED <<used, sessionMessages, stream>>
    BY <2>10 DEF ConversationAnswered
  <2>11. ASSUME NEW l \in Loads, LoadEnds(l)
         PROVE  /\ \A s \in Sids \ used' : sessionMessages'[s] = <<>>
                /\ \A p \in Questions : stream'[p].sid \in used' \cup {None}
    <3>1. /\ used' = used \cup Listed'
          /\ \A s \in Sids \ Listed' : sessionMessages'[s] = <<>>
      BY <2>11, LoadEndsFields, ReplaceSessionsFields DEF TypeInv
    <3>2. UNCHANGED stream
      BY <2>11 DEF LoadEnds
    <3> QED
      BY <3>1, <3>2 DEF OriginInv
  <2> QED
    BY <2>3, <2>4, <2>5, <2>6, <2>7, <2>8, <2>9, <2>10, <2>11, ClientSteps DEF OriginInv
<1> QED
  BY <1>1, <1>2, <1>3 DEF OriginInv

\* The history only grows, and tells of the events that strayed.
LEMMA HistoryGrows ==
    ASSUME Next
    PROVE  /\ strayed \subseteq strayed' /\ wiped \subseteq wiped'
           /\ ClearChat => activeSessionId \in wiped'
           /\ \A q \in Questions :
                stream[q].state \in {"asked", "streaming"} /\ stream'[q] # stream[q]
                /\ activeSessionId # stream[q].sid => stream[q].sid \in strayed'
  BY DEF Next, Observe, Open

\* A session that keeps its messages while no stream of its own moves.
LEMMA SoundKept ==
    ASSUME NEW s, Sound(s, sessionMessages[s]), sessionMessages'[s] = sessionMessages[s],
           wiped \subseteq wiped',
           \A q \in Questions :
               stream'[q] = stream[q] \/ (stream[q].sid # s /\ stream'[q].sid # s)
    PROVE  Sound(s, sessionMessages[s])'
  BY DEF Sound, SoundFor, Current, UpToDate, Has, IsAnswerTo

\* A session under a fresh id: no question was asked in it.
LEMMA SoundFresh ==
    ASSUME OriginInv, NEW s \in Sids \ used, UNCHANGED stream, AllSaved(sessionMessages'[s])
    PROVE  Sound(s, sessionMessages[s])'
<1>1. \A q \in Questions : stream'[q].sid # s
  BY NoneIsNoId DEF OriginInv
<1>2. \A q \in Questions : ~Has(sessionMessages'[s], q)
  BY DEF AllSaved, Has, IsAnswerTo
<1> QED
  BY <1>1, <1>2 DEF Sound, SoundFor, Current, UpToDate, Has, IsAnswerTo

\* A question whose answers and stream are left alone.
LEMMA SoundForKept ==
    ASSUME NEW p, NEW s, NEW ms, SoundFor(p, s, ms), stream'[p] = stream[p],
           wiped \subseteq wiped', ToSet(ms) \subseteq ToSet(sessionMessages'[s]),
           \A m \in ToSet(sessionMessages'[s]) : IsAnswerTo(m, p) => m \in ToSet(ms)
    PROVE  SoundFor(p, s, sessionMessages[s])'
  BY DEF SoundFor, Current, UpToDate, Has, IsAnswerTo

\* The session a question is sent in.
LEMMA SoundAsked ==
    ASSUME TypeInv, SessionsInv, NEW q \in Questions, NEW s, NEW ms \in Seq(Messages),
           Sound(s, ms), stream[q].state = "unasked", s \in Sids,
           stream' = [stream EXCEPT ![q] = [@ EXCEPT !.state = "asked", !.sid = s]],
           sessionMessages'[s] = ms \o <<Question(q), Answer(q, {}, "thinking")>>,
           wiped \subseteq wiped'
    PROVE  Sound(s, sessionMessages[s])'
<1> DEFINE all == sessionMessages'[s]
<1>1. /\ \A m \in ToSet(all) : m \in ToSet(ms) \/ m = Question(q)
                                               \/ m = Answer(q, {}, "thinking")
      /\ ToSet(ms) \subseteq ToSet(all) /\ Answer(q, {}, "thinking") \in ToSet(all)
  BY SentMessages
<1>2. /\ Question(q).role = "user" /\ Answer(q, {}, "thinking").q = q
      /\ Answer(q, {}, "thinking").role = "assistant" /\ ~Answer(q, {}, "thinking").saved
      /\ Answer(q, {}, "thinking").text = {} /\ Answer(q, {}, "thinking").status = "thinking"
  BY DEF Question, Answer
<1>3. /\ stream'[q].state = "asked" /\ stream'[q].sid = s /\ stream'[q].sent = 0
      /\ \A p \in Questions \ {q} : stream'[p] = stream[p]
  BY AskedStream DEF TypeInv, SessionsInv, NothingSent
<1>4. stream[q].sid # s
  BY NoneIsNoId DEF TypeInv, StreamsOK
<1>5. \A p \in Questions \ {q}, m \in ToSet(all) : IsAnswerTo(m, p) => m \in ToSet(ms)
  BY <1>1, <1>2 DEF IsAnswerTo
<1>6. \A m \in ToSet(all) : IsAnswerTo(m, q) => m = Answer(q, {}, "thinking")
  BY <1>1, <1>2, <1>4 DEF IsAnswerTo, Sound, SoundFor, Has
<1>7. IsAnswerTo(Answer(q, {}, "thinking"), q)
  BY <1>2 DEF IsAnswerTo
<1>8. 1..0 = {}
  OBVIOUS
<1> HIDE DEF all
<1>9. ASSUME NEW p \in Questions \ {q}
      PROVE  SoundFor(p, s, sessionMessages[s])'
  <2>1. SoundFor(p, s, ms) /\ stream'[p] = stream[p]
    BY <1>3 DEF Sound
  <2>2. /\ ToSet(ms) \subseteq ToSet(sessionMessages'[s])
        /\ \A m \in ToSet(sessionMessages'[s]) : IsAnswerTo(m, p) => m \in ToSet(ms)
    BY <1>1, <1>5 DEF all
  <2> QED
    BY <2>1, <2>2, SoundForKept
<1>10. /\ Has(all, q)
       /\ \A m \in ToSet(all) : IsAnswerTo(m, q) => m.text = 1..0 /\ m.status = "thinking"
  BY <1>1, <1>2, <1>6, <1>7, <1>8 DEF Has
<1>11. SoundFor(q, s, sessionMessages[s])'
  BY <1>3, <1>10 DEF SoundFor, Current, UpToDate, Has, IsAnswerTo, all
<1> QED
  BY <1>9, <1>11 DEF Sound

\* What is on display of an answer that is up to date.
LEMMA DisplayedUpToDate ==
    ASSUME NEW q, UpToDate(q, messages)
    PROVE  Displayed(q) = 1..stream[q].sent
<1>1. PICK m \in ToSet(messages) : IsAnswerTo(m, q)
  BY DEF UpToDate, Has
<1>2. \A n \in ToSet(messages) : IsAnswerTo(n, q) => n.text = 1..stream[q].sent
  BY DEF UpToDate, Current
<1> QED
  BY <1>1, <1>2 DEF Displayed

\* The session of a stream, if an event finds it on display.
LEMMA SoundEvent ==
    ASSUME TypeInv, SessionsInv, NEW q \in Questions, StreamEvent(q),
           NEW s, stream[q].sid = s, Sound(s, messages), wiped \subseteq wiped',
           sessionMessages'[s] = messages'
    PROVE  Sound(s, sessionMessages[s])'
<1>1. /\ stream'[q].sid = s /\ \A p \in Questions \ {q} : stream'[p] = stream[p]
      /\ stream[q].state \in {"asked", "streaming"}
  BY EventStream DEF TypeInv
<1>2. stream \in [Questions -> Streams] /\ stream[q] \in Streams
  BY DEF TypeInv, TypeOK, AsyncOK
<1>3. stream[q].sent \in Nat
  BY <1>2, MaxTokensAssumption DEF Streams
<1>4. Has(messages, q) => Displayed(q) = 1..stream[q].sent
  BY <1>1, DisplayedUpToDate DEF Sound, SoundFor, UpToDate
<1>5. \A n \in Nat : (1..n) \cup {n + 1} = 1..(n + 1)
  OBVIOUS
<1>6. PICK text \in Texts, status \in Statuses :
        /\ UpdateAssistant(q, text, status)
        /\ (Has(messages, q) /\ stream'[q].state \in {"asked", "streaming", "complete"}) =>
             /\ text = 1..stream'[q].sent
             /\ status = IF stream'[q].state = "complete" THEN "done" ELSE "streaming"
             /\ stream'[q].state # "asked"
  <2>1. /\ Displayed(q) \in Texts /\ {} \in Texts
        /\ "streaming" \in Statuses /\ "done" \in Statuses /\ "error" \in Statuses
    BY DisplayedText DEF TypeInv, TypeOK, ViewOK, Texts, Statuses
  <2>2. CASE /\ UpdateAssistant(q, Displayed(q), "streaming")
             /\ stream' = [stream EXCEPT ![q].state = "streaming"]
    <3>1. stream'[q].state = "streaming" /\ stream'[q].sent = stream[q].sent
      BY <1>2, <2>2 DEF Streams
    <3> QED
      BY <1>4, <2>1, <2>2, <3>1
  <2>3. CASE /\ stream[q].state = "streaming"
             /\ stream[q].sent \in 0..(MaxTokens - 1)
             /\ UpdateAssistant(q, Displayed(q) \cup {stream[q].sent + 1}, "streaming")
             /\ stream' = [stream EXCEPT ![q].sent = @ + 1]
    <3>1. stream'[q].state = "streaming" /\ stream'[q].sent = stream[q].sent + 1
      BY <1>2, <2>3 DEF Streams
    <3>2. Displayed(q) \cup {stream[q].sent + 1} \in Texts
      BY <2>1, <2>3, MaxTokensAssumption DEF Texts
    <3>3. Has(messages, q) => Displayed(q) \cup {stream[q].sent + 1} = 1..stream'[q].sent
      BY <1>3, <1>4, <1>5, <3>1
    <3> QED
      BY <2>1, <2>3, <3>1, <3>2, <3>3
  <2>4. CASE /\ UpdateAssistant(q, Displayed(q), "done")
             /\ stream' = [stream EXCEPT ![q].state = "complete"]
    <3>1. stream'[q].state = "complete" /\ stream'[q].sent = stream[q].sent
      BY <1>2, <2>4 DEF Streams
    <3> QED
      BY <1>4, <2>1, <2>4, <3>1
  <2>5. CASE /\ UpdateAssistant(q, {}, "error")
             /\ stream' = [stream EXCEPT ![q].state = "error"]
    <3>1. stream'[q].state = "error"
      BY <1>2, <2>5 DEF Streams
    <3> QED
      BY <2>1, <2>5, <3>1
  <2> QED
    BY <2>2, <2>3, <2>4, <2>5, StreamEventFields DEF TypeInv
<1>7. /\ DOMAIN messages' = DOMAIN messages
      /\ \A i \in DOMAIN messages :
                /\ ~IsAnswerTo(messages[i], q) => messages'[i] = messages[i]
                /\ IsAnswerTo(messages[i], q) =>
                     /\ messages'[i].q = messages[i].q
                     /\ messages'[i].role = messages[i].role
                     /\ messages'[i].saved = messages[i].saved
                     /\ messages'[i].text = text /\ messages'[i].status = status
  BY <1>6, UpdateAssistantFields DEF TypeInv
<1>8. \A p \in Questions, i \in DOMAIN messages :
        IsAnswerTo(messages'[i], p) <=> IsAnswerTo(messages[i], p)
  BY <1>7 DEF IsAnswerTo
<1>9. \A p \in Questions : Has(messages', p) <=> Has(messages, p)
  BY <1>7, <1>8 DEF Has, ToSet
<1>10. \A m \in ToSet(messages') : IsAnswerTo(m, q) => m.text = text /\ m.status = status
  BY <1>7, <1>8 DEF ToSet
<1>11. \A p \in Questions \ {q}, m \in ToSet(messages') :
        IsAnswerTo(m, p) => m \in ToSet(messages)
  <2> SUFFICES ASSUME NEW p \in Questions \ {q}, NEW i \in DOMAIN messages,
                      IsAnswerTo(messages'[i], p)
               PROVE  messages'[i] \in ToSet(messages)
    BY <1>7 DEF ToSet
  <2>1. ~IsAnswerTo(messages[i], q)
    BY <1>8 DEF IsAnswerTo
  <2> QED
    BY <1>7, <2>1 DEF ToSet
<1>12. ASSUME NEW p \in Questions \ {q}
       PROVE  SoundFor(p, s, sessionMessages[s])'
  BY <1>1, <1>9, <1>11 DEF Sound, SoundFor, Current, UpToDate, Has, IsAnswerTo
<1>13. Has(messages, q) \/ s \in wiped
  BY <1>1 DEF Sound, SoundFor, UpToDate
<1>14. SoundFor(q, s, sessionMessages[s])'
  BY <1>1, <1>6, <1>9, <1>10, <1>13 DEF SoundFor, Current, UpToDate, Has, IsAnswerTo
<1> QED
  BY <1>12, <1>14 DEF Sound

\* Every step keeps NothingSent.
LEMMA NothingSentKept ==
    ASSUME TypeInv, NothingSent, Next
    PROVE  NothingSent'
<1>1. stream \in [Questions -> Streams]
  BY DEF TypeInv, TypeOK, AsyncOK
<1>2. CASE UNCHANGED stream
  BY <1>2 DEF NothingSent
<1>3. ASSUME NEW q \in Questions, NEW s, stream[q].state = "unasked",
             stream' = [stream EXCEPT ![q] = [@ EXCEPT !.state = "asked", !.sid = s]]
      PROVE  NothingSent'
  <2>1. /\ stream'[q].sent = stream[q].sent
        /\ \A p \in Questions \ {q} : stream'[p] = stream[p]
    BY <1>3, AskedStream DEF TypeInv
  <2>2. stream[q].sent = 0
    BY <1>3 DEF NothingSent
  <2> QED
    BY <2>1, <2>2 DEF NothingSent
<1>4. ASSUME NEW q \in Questions, SendFirstQuery(q) \/ SendQuery(q) PROVE NothingSent'
  <2>1. \E s : stream' = [stream EXCEPT ![q] = [@ EXCEPT !.state = "asked", !.sid = s]]
    BY <1>4, SendFirstQueryFields, SendQueryFields DEF TypeInv
  <2>2. stream[q].state = "unasked"
    BY <1>4 DEF SendFirstQuery, SendQuery
  <2> QED
    BY <1>3, <2>1, <2>2
<1>5. ASSUME NEW q \in Questions, StreamEvent(q) PROVE NothingSent'
  <2>1. \A p \in Questions \ {q} : stream'[p] = stream[p]
    BY <1>5, EventStream DEF TypeInv
  <2>2. stream'[q].state \notin {"unasked", "asked"}
    <3>1. \/ \E x \in {"streaming", "complete", "error"} : stream' = [stream EXCEPT ![q].state = x]
          \/ /\ stream[q].state = "streaming"
             /\ stream' = [stream EXCEPT ![q].sent = @ + 1]
      BY <1>5, StreamEventFields DEF TypeInv
    <3> QED
      BY <1>1, <3>1 DEF Streams
  <2> QED
    BY <2>1, <2>2 DEF NothingSent
<1>6. ASSUME \/ NewChat \/ ClearChat
             \/ \E s \in Sids : SelectSession(s)
             \/ \E q \in Questions : ConversationAnswered(q)
             \/ \E l \in Loads : LoadEnds(l)
      PROVE  UNCHANGED stream
  BY <1>6 DEF NewChat, ClearChat, SelectSession, ConversationAnswered, LoadEnds
<1> QED
  BY <1>2, <1>4, <1>5, <1>6, ClientSteps

\* Every step keeps SessionsInv.
LEMMA SessionsKept ==
    ASSUME TypeInv, OriginInv, SessionsInv, Next
    PROVE  SessionsInv'
<1> DEFINE Apart == \A s \in Listed' \ strayed' : Sound(s, sessionMessages[s])'
<1>1. strayed \subseteq strayed' /\ wiped \subseteq wiped'
  BY HistoryGrows
<1>2. /\ \A s \in Listed \ strayed : Sound(s, sessionMessages[s])
      /\ activeSessionId # None =>
            messages = sessionMessages[activeSessionId] \/ activeSessionId \in strayed
      /\ activeSessionId \in Listed \cup {None} /\ Listed \subseteq used /\ used \subseteq Sids
      /\ sessionMessages \in [Sids -> Seq(Messages)] /\ messages \in Seq(Messages)
  BY DEF SessionsInv, DisplayAgrees, TypeInv, TypeOK, ViewOK, StoreOK
<1>3. ASSUME UNCHANGED <<sessions, sessionMessages, stream>> PROVE Apart
  BY <1>1, <1>2, <1>3, SoundKept DEF Listed
<1>4. CASE UNCHANGED <<store, view, isLoading, stream>>
  <2>1. DisplayAgrees'
    BY <1>1, <1>2, <1>4 DEF DisplayAgrees, store, view
  <2> QED
    BY <1>3, <1>4, <2>1, NothingSentKept DEF SessionsInv, store
<1>5. CASE NewChat
  <2>1. /\ activeSessionId' \in Sids \ used /\ messages' = <<>>
        /\ Listed' \subseteq Listed \cup {activeSessionId'}
        /\ UNCHANGED <<sessionMessages, stream>>
    BY <1>5, NewChatFields DEF TypeInv, NewChat
  <2>2. sessionMessages'[activeSessionId'] = <<>>
    BY <2>1 DEF OriginInv
  <2>3. \A s \in Sids \ used : sessionMessages'[s] = <<>> => Sound(s, sessionMessages[s])'
    BY <2>1, EmptySaved, SoundFresh
  <2>4. Apart
    BY <1>1, <1>2, <2>1, <2>2, <2>3, SoundKept
  <2>5. DisplayAgrees'
    BY <2>1, <2>2 DEF DisplayAgrees
  <2> QED
    BY <2>4, <2>5, NothingSentKept DEF SessionsInv
<1>6. CASE ClearChat
  <2>1. /\ messages' = <<>> /\ UNCHANGED <<sessions, activeSessionId, stream>>
        /\ sessionMessages' = IF activeSessionId = None THEN sessionMessages
                              ELSE [sessionMessages EXCEPT ![activeSessionId] = <<>>]
    BY <1>2, <1>6 DEF ClearChat, SetSessionMessages
  <2>2. activeSessionId \in wiped'
    BY <1>6, HistoryGrows
  <2>3. ASSUME NEW s \in Listed \ strayed, s # activeSessionId
        PROVE  Sound(s, sessionMessages[s])'
    BY <1>1, <1>2, <2>1, <2>3, SoundKept
  <2>4. ASSUME activeSessionId # None
        PROVE  Sound(activeSessionId, sessionMessages[activeSessionId])'
    <3>1. sessionMessages'[activeSessionId'] = <<>> /\ activeSessionId' = activeSessionId
      BY <1>2, <2>1, <2>4
    <3>2. \A q \in Questions : ~Has(sessionMessages[activeSessionId], q)'
      BY <3>1, EmptySaved DEF Has
    <3> QED
      BY <2>2, <3>1, <3>2 DEF Sound, SoundFor, Current, Has
  <2>5. Apart
    BY <1>1, <1>2, <2>1, <2>3, <2>4, NoneIsNoId DEF Listed
  <2>6. DisplayAgrees'
    BY <1>2, <2>1 DEF DisplayAgrees
  <2> QED
    BY <2>5, <2>6, NothingSentKept DEF SessionsInv
<1>7. ASSUME NEW s \in Sids, SelectSession(s) PROVE SessionsInv'
  <2>1. /\ activeSessionId' = s /\ messages' = sessionMessages[s]
        /\ UNCHANGED <<sessions, sessionMessages, stream>>
    BY <1>7 DEF SelectSession, store
  <2>2. DisplayAgrees'
    BY <2>1 DEF DisplayAgrees
  <2> QED
    BY <1>3, <2>1, <2>2, NothingSentKept DEF SessionsInv
<1>8. ASSUME NEW q \in Questions, SendFirstQuery(q) PROVE SessionsInv'
  <2>0. PICK s \in Sids : s = activeSessionId'
    BY <1>8, SendFirstQueryFields DEF TypeInv
  <2>1. /\ s \in Sids \ used
        /\ Listed' = Listed \cup {s}
        /\ messages' = <<Question(q), Answer(q, {}, "thinking")>>
        /\ sessionMessages' = [sessionMessages EXCEPT ![s] = messages']
        /\ stream' = [stream EXCEPT ![q] = [@ EXCEPT !.state = "asked", !.sid = s]]
        /\ stream[q].state = "unasked"
    BY <1>8, <2>0, SendFirstQueryFields DEF TypeInv, SendFirstQuery
  <2>2. stream'[q].sid = s /\ \A p \in Questions \ {q} : stream'[p] = stream[p]
    BY <2>1, AskedStream DEF TypeInv
  <2>3. ASSUME NEW r \in Listed \ strayed PROVE Sound(r, sessionMessages[r])'
    <3>1. sessionMessages'[r] = sessionMessages[r] /\ r # s /\ r # None /\ Sound(r, sessionMessages[r])
      BY <1>2, <2>1, NoneIsNoId
    <3>2. stream[q].sid # r /\ stream'[q].sid # r
      BY <2>1, <2>2, <3>1 DEF TypeInv, StreamsOK
    <3> QED
      BY <1>1, <2>2, <3>1, <3>2, SoundKept
  <2>4. Sound(s, sessionMessages[s])'
    <3>1. <<>> \in Seq(Messages) /\ Sound(s, <<>>)
      <4>1. \A p \in Questions : stream[p].sid # s /\ ~Has(<<>>, p)
        BY <2>1, EmptySaved, NoneIsNoId DEF OriginInv, Has
      <4> QED
        BY <4>1 DEF Sound, SoundFor
    <3>2. sessionMessages'[s] = <<>> \o <<Question(q), Answer(q, {}, "thinking")>>
      BY <1>2, <2>1
    <3> QED
      BY <1>1, <2>1, <3>1, <3>2, SoundAsked
  <2>5. Apart
    BY <1>1, <2>1, <2>3, <2>4
  <2>6. DisplayAgrees'
    BY <1>2, <2>0, <2>1 DEF DisplayAgrees
  <2> QED
    BY <2>5, <2>6, NothingSentKept DEF SessionsInv
<1>9. ASSUME NEW q \in Questions, SendQuery(q) PROVE SessionsInv'
  <2>0. PICK s \in Sids : s = activeSessionId
    BY <1>9, SendQueryFields DEF TypeInv
  <2>1. /\ s \in Listed /\ s \in Sids /\ UNCHANGED <<sessions, activeSessionId>>
        /\ messages' = messages \o <<Question(q), Answer(q, {}, "thinking")>>
        /\ sessionMessages' = [sessionMessages EXCEPT ![s] = messages']
        /\ stream' = [stream EXCEPT ![q] = [@ EXCEPT !.state = "asked", !.sid = s]]
        /\ stream[q].state = "unasked"
    BY <1>9, <2>0, SendQueryFields DEF TypeInv, SendQuery
  <2>2. stream'[q].sid = s /\ \A p \in Questions \ {q} : stream'[p] = stream[p]
    BY <2>1, AskedStream DEF TypeInv
  <2>7. DisplayAgrees'
    BY <1>2, <2>0, <2>1 DEF DisplayAgrees
  <2>8. s \notin strayed => messages = sessionMessages[s]
    BY <1>2, <2>0, <2>1, NoneIsNoId
  <2>3. ASSUME NEW r \in Listed \ strayed, r # s PROVE Sound(r, sessionMessages[r])'
    <3>1. sessionMessages'[r] = sessionMessages[r] /\ r # None /\ Sound(r, sessionMessages[r])
      BY <1>2, <2>1, <2>3, NoneIsNoId
    <3>2. stream[q].sid # r /\ stream'[q].sid # r
      BY <2>1, <2>2, <2>3, <3>1 DEF TypeInv, StreamsOK
    <3> QED
      BY <1>1, <2>2, <3>1, <3>2, SoundKept
  <2>4. ASSUME s \notin strayed PROVE Sound(s, sessionMessages[s])'
    <3>1. Sound(s, messages)
      BY <1>2, <2>1, <2>4, <2>8
    <3>2. sessionMessages'[s] = messages \o <<Question(q), Answer(q, {}, "thinking")>>
      BY <1>2, <2>1
    <3> QED
      BY <1>1, <1>2, <2>1, <3>1, <3>2, SoundAsked
  <2>5. Apart
    BY <1>1, <2>1, <2>3, <2>4 DEF Listed
  <2> QED
    BY <2>5, <2>7, NothingSentKept DEF SessionsInv
<1>10. ASSUME NEW q \in Questions, StreamEvent(q) PROVE SessionsInv'
  <2>0. PICK s \in Sids : s = stream[q].sid
    BY <1>10, EventStream DEF TypeInv, StreamsOK
  <2>1. /\ stream'[q].sid = s /\ \A p \in Questions \ {q} : stream'[p] = stream[p]
        /\ activeSessionId # s => s \in strayed'
        /\ s \in Sids
    BY <1>10, <2>0, EventStream, HistoryGrows DEF TypeInv, StreamsOK
  <2>2. PICK text \in Texts, status \in Statuses : UpdateAssistant(q, text, status)
    BY <1>10, StreamEventUpdates DEF TypeInv
  <2>3. /\ sessionMessages' = [sessionMessages EXCEPT ![s] = IF s \in Listed THEN messages' ELSE @]
        /\ UNCHANGED <<sessions, activeSessionId>>
        /\ messages' \in Seq(Messages) /\ DOMAIN messages' = DOMAIN messages
        /\ \A i \in DOMAIN messages :
                ~IsAnswerTo(messages[i], q) => messages'[i] = messages[i]
    BY <2>0, <2>2, UpdateAssistantFields DEF TypeInv
  <2>4. ASSUME NEW r \in Listed \ strayed, r # s PROVE Sound(r, sessionMessages[r])'
    <3>1. sessionMessages'[r] = sessionMessages[r] /\ Sound(r, sessionMessages[r])
      BY <1>2, <2>1, <2>3, <2>4
    <3>2. stream[q].sid # r /\ stream'[q].sid # r
      BY <2>0, <2>1, <2>4
    <3> QED
      BY <1>1, <2>1, <3>1, <3>2, SoundKept
  <2>5. ASSUME s \in Listed \ strayed' PROVE Sound(s, sessionMessages[s])'
    <3>1. activeSessionId = s /\ s \notin strayed /\ s # None
      BY <1>1, <2>1, <2>5, NoneIsNoId
    <3>2. Sound(s, messages) /\ sessionMessages'[s] = messages'
      BY <1>2, <2>1, <2>3, <2>5, <3>1
    <3> QED
      BY <1>1, <1>10, <2>0, <3>2, SoundEvent
  <2>6. Apart
    BY <1>1, <2>3, <2>4, <2>5 DEF Listed
  <2>7. ASSUME activeSessionId # None, activeSessionId \notin strayed'
        PROVE  messages' = sessionMessages'[activeSessionId]
    <3>1. /\ activeSessionId \in Listed \ strayed /\ activeSessionId \in Sids
          /\ messages = sessionMessages[activeSessionId]
      BY <1>1, <1>2, <2>7
    <3>2. CASE activeSessionId = s
      BY <1>2, <2>3, <3>1, <3>2
    <3>3. CASE activeSessionId # s
      <4>1. ~Has(messages, q)
        BY <1>2, <2>0, <3>1, <3>3 DEF Sound, SoundFor
      <4>2. \A i \in DOMAIN messages : messages'[i] = messages[i]
        BY <2>3, <4>1 DEF Has, ToSet
      <4>3. messages' = messages
        <5>1. /\ Len(messages) = Len(messages') /\ DOMAIN messages = 1..Len(messages)
          BY <1>2, <2>3, LenProperties
        <5> QED
          BY <1>2, <2>3, <4>2, <5>1, SeqEqual
      <4>4. sessionMessages'[activeSessionId] = sessionMessages[activeSessionId]
        BY <1>2, <2>3, <3>1, <3>3
      <4> QED
        BY <3>1, <4>3, <4>4
    <3> QED
      BY <3>2, <3>3
  <2>8. DisplayAgrees'
    BY <2>3, <2>7 DEF DisplayAgrees
  <2> QED
    BY <2>6, <2>8, NothingSentKept DEF SessionsInv
<1>11. ASSUME NEW q \in Questions, ConversationAnswered(q) PROVE SessionsInv'
  <2>1. UNCHANGED <<sessions, sessionMessages, stream, activeSessionId, messages>>
    BY <1>11 DEF ConversationAnswered, view
  <2>2. DisplayAgrees'
    BY <1>1, <1>2, <2>1 DEF DisplayAgrees
  <2> QED
    BY <1>3, <2>1, <2>2, NothingSentKept DEF SessionsInv
<1>12. ASSUME NEW l \in Loads, LoadEnds(l) PROVE SessionsInv'
  <2>1. PICK list \in Seq(Convs), detail \in [Convs -> Seq(Messages)] :
             /\ ReplaceSessions(list, detail)
             /\ \A c \in Convs : detail[c] = load[l].detail[c] \/ detail[c] \in Read(c)
    BY <1>12, LoadEndsFields DEF TypeInv
  <2>2. /\ Listed' \subseteq Sids \ used
        /\ \A s \in Listed' : \E c \in Convs : sessionMessages'[s] = detail[c]
        /\ activeSessionId' # None => messages' = sessionMessages'[activeSessionId']
    BY <2>1, ReplaceSessionsFields DEF TypeInv, StoreOK
  <2>3. \A c \in Convs : AllSaved(detail[c])
    BY <2>1, ReadRows DEF OriginInv, TypeInv, TypeOK
  <2>4. UNCHANGED stream
    BY <1>12 DEF LoadEnds
  <2>5. Apart
    BY <2>2, <2>3, <2>4, SoundFresh
  <2>6. DisplayAgrees'
    BY <2>2 DEF DisplayAgrees
  <2> QED
    BY <2>5, <2>6, NothingSentKept DEF SessionsInv
<1> QED
  BY <1>4, <1>5, <1>6, <1>7, <1>8, <1>9, <1>10, <1>11, <1>12, ClientSteps

ChatInv == TypeInv /\ OriginInv /\ SessionsInv

\* The invariant the last three theorems follow from.
LEMMA ChatInvariant == Spec => []ChatInv
<1>1. Start => ChatInv
  <2> SUFFICES ASSUME Start PROVE ChatInv
    OBVIOUS
  <2>1. OriginInv
    BY EmptySaved DEF Start, Init, InitServer, OriginInv
  <2>2. Listed = {}
    BY EmptySaved DEF Start, Init, Listed
  <2>3. SessionsInv
    BY <2>2 DEF Start, Init, SessionsInv, DisplayAgrees, NothingSent
  <2> QED
    BY <2>1, <2>3, StartTyped DEF ChatInv
<1>2. ChatInv /\ [Next]_vars => ChatInv'
  <2>1. ASSUME UNCHANGED vars, OriginInv PROVE OriginInv'
    BY <2>1 DEF vars, server, client, store, OriginInv
  <2>2. ASSUME UNCHANGED vars, SessionsInv PROVE SessionsInv'
    <3>1. UNCHANGED <<sessions, sessionMessages, stream, wiped, strayed, activeSessionId, messages>>
      BY <2>2 DEF vars, client, store, view, history
    <3>2. \A s \in Listed \ strayed : Sound(s, sessionMessages[s])'
      BY <2>2, <3>1, SoundKept DEF SessionsInv
    <3>3. DisplayAgrees' /\ NothingSent'
      BY <2>2, <3>1 DEF SessionsInv, DisplayAgrees, NothingSent
    <3> QED
      BY <3>1, <3>2, <3>3 DEF SessionsInv, Listed
  <2> QED
    BY <2>1, <2>2, NextTyped, OriginKept, SessionsKept DEF ChatInv
<1> QED
  BY <1>1, <1>2, PTL DEF Spec

\* Every message stays in the session its question was asked in, unless an
\* event found another session on display.
THEOREM MessagesStayApart == Spec => []SessionsKeptApart
<1>1. ChatInv => SessionsKeptApart
  BY DEF ChatInv, SessionsInv, Sound, SoundFor, SessionsKeptApart
<1> QED
  BY <1>1, ChatInvariant, PTL

\* The display is a copy of the active session, with the same exception.
THEOREM DisplayIsACopy == Spec => []DisplayAgrees
<1>1. ChatInv => DisplayAgrees
  BY DEF ChatInv, SessionsInv
<1> QED
  BY <1>1, ChatInvariant, PTL

\* The session of a question holds every token it has received, once, for
\* answers of any length, with the same exception and unless it was cleared.
THEOREM TokensAreKept == Spec => []NoTokenLost
<1>1. ASSUME ChatInv, NEW q \in Questions,
             stream[q].state \in {"streaming", "complete"},
             stream[q].sid \in Listed \ (strayed \cup wiped)
      PROVE  \E m \in ToSet(sessionMessages[stream[q].sid]) :
                /\ IsAnswerTo(m, q)
                /\ m.text = 1..stream[q].sent
                /\ m.status = IF stream[q].state = "complete" THEN "done" ELSE "streaming"
  <2>1. UpToDate(q, sessionMessages[stream[q].sid])
    BY <1>1 DEF ChatInv, SessionsInv, Sound, SoundFor, UpToDate
  <2> QED
    BY <1>1, <2>1 DEF UpToDate, Current, Has
<1>2. ChatInv => NoTokenLost
  BY <1>1 DEF NoTokenLost
<1> QED
  BY <1>2, ChatInvariant, PTL

-----------------------------------------------------------------------------
(* The input is blocked by an open stream only, and no stream goes on for ever *)

BlockedByStream == isLoading => Open # {}

\* How many events of its stream a question has before it, its being asked included.
EventsLeft(q) ==
    CASE stream[q].state = "unasked"   -> MaxTokens + 3
      [] stream[q].state = "asked"     -> MaxTokens + 2
      [] stream[q].state = "streaming" -> MaxTokens + 1 - stream[q].sent
      [] OTHER                         -> 0

\* A question that is asked has a stream to wait for.
LEMMA AskingLeaves ==
    ASSUME TypeInv, NEW q \in Questions, SendFirstQuery(q) \/ SendQuery(q)
    PROVE  /\ q \in Open' /\ stream[q].state = "unasked" /\ stream'[q].state = "asked"
           /\ \A p \in Questions \ {q} : stream'[p] = stream[p]
<1>1. PICK s : stream' = [stream EXCEPT ![q] = [@ EXCEPT !.state = "asked", !.sid = s]]
  BY DEF SendFirstQuery, SendQuery
<1>2. /\ stream'[q].state = "asked" /\ \A p \in Questions \ {q} : stream'[p] = stream[p]
  BY <1>1, AskedStream DEF TypeInv
<1> QED
  BY <1>2 DEF Open, SendFirstQuery, SendQuery

\* An event of a stream ends it and unblocks the input, or is one of those it has left.
LEMMA EventLeaves ==
    ASSUME TypeInv, NEW q \in Questions, StreamEvent(q)
    PROVE  /\ \A p \in Questions \ {q} : stream'[p] = stream[p]
           /\ stream[q] \in Streams /\ stream'[q] \in Streams
           /\ \/ stream[q].state = "asked" /\ stream'[q].state = "streaming"
              \/ /\ stream[q].state = "streaming" /\ stream'[q].state = "streaming"
                 /\ stream'[q].sent = stream[q].sent + 1
              \/ /\ stream[q].state \in {"asked", "streaming"}
                 /\ stream'[q].state \in {"complete", "error"} /\ isLoading' = FALSE
           /\ isLoading' \in {isLoading, FALSE}
<1>1. stream \in [Questions -> Streams] /\ stream[q] \in Streams
  BY DEF TypeInv, TypeOK, AsyncOK
<1>2. \A p \in Questions \ {q} : stream'[p] = stream[p]
  BY EventStream DEF TypeInv
<1>3. CASE OnRetrieval(q)
  <2>1. stream' = [stream EXCEPT ![q].state = "streaming"] /\ stream[q].state = "asked"
    BY <1>3 DEF OnRetrieval
  <2>2. stream'[q] \in Streams /\ stream'[q].state = "streaming"
    BY <1>1, <2>1 DEF Streams
  <2> QED
    BY <1>1, <1>2, <1>3, <2>1, <2>2 DEF OnRetrieval
<1>4. CASE OnToken(q)
  <2>1. /\ stream' = [stream EXCEPT ![q].sent = @ + 1] /\ stream[q].state = "streaming"
        /\ stream[q].sent < MaxTokens
    BY <1>4 DEF OnToken
  <2>2. /\ stream'[q] \in Streams /\ stream'[q].state = "streaming"
        /\ stream'[q].sent = stream[q].sent + 1
    BY <1>1, <2>1, MaxTokensAssumption DEF Streams
  <2> QED
    BY <1>1, <1>2, <1>4, <2>1, <2>2 DEF OnToken
<1>5. CASE OnComplete(q)
  <2>1. stream' = [stream EXCEPT ![q].state = "complete"] /\ stream[q].state = "streaming"
    BY <1>5 DEF OnComplete
  <2>2. stream'[q] \in Streams /\ stream'[q].state = "complete"
    BY <1>1, <2>1 DEF Streams
  <2> QED
    BY <1>1, <1>2, <1>5, <2>1, <2>2 DEF OnComplete
<1>6. CASE OnError(q)
  <2>1. stream' = [stream EXCEPT ![q].state = "error"] /\ stream[q].state \in {"asked", "streaming"}
    BY <1>6 DEF OnError
  <2>2. stream'[q] \in Streams /\ stream'[q].state = "error"
    BY <1>1, <2>1 DEF Streams
  <2> QED
    BY <1>1, <1>2, <1>6, <2>1, <2>2 DEF OnError
<1> QED
  BY <1>3, <1>4, <1>5, <1>6 DEF StreamEvent

\* Nothing else touches a stream, nor blocks the input.
LEMMA StreamSteps ==
    ASSUME Next
    PROVE  \/ UNCHANGED <<stream, isLoading>>
           \/ \E q \in Questions : SendFirstQuery(q) \/ SendQuery(q)
           \/ \E q \in Questions : StreamEvent(q)
<1>1. CASE User
  BY <1>1 DEF User, NewChat, ClearChat, SelectSession, StartLoad
<1>2. ASSUME NEW q \in Questions, PersistTurn(q) PROVE UNCHANGED <<stream, isLoading>>
  BY <1>2 DEF PersistTurn, ConversationCreated, ConversationAnswered, BeginQuestion,
              AppendQuestion, BeginAnswer, AppendAnswer, CallFails, AnswerLost, client
<1>3. ASSUME NEW l \in Loads, LoadConversations(l) PROVE UNCHANGED <<stream, isLoading>>
  BY <1>3 DEF LoadConversations, ListAnswered, LoadFails, DetailAnswered, EndLoad
<1> QED
  BY <1>1, <1>2, <1>3 DEF Next

LEMMA EventsLeftTyped == ASSUME TypeInv, NEW q \in Questions PROVE EventsLeft(q) \in Nat
<1>1. stream[q] \in Streams
  BY DEF TypeInv, TypeOK, AsyncOK
<1>2. stream[q].sent \in 0..MaxTokens
  BY <1>1 DEF Streams
<1> QED
  BY <1>2, MaxTokensAssumption DEF EventsLeft

\* The input is blocked only while a stream is open, and every stream has a
\* bounded number of events: each takes one from what is left, and nothing the user,
\* the network or another stream does adds to it.  So it is unblocked as soon as
\* the streams have told what they have (sendQuery and its callbacks in
\* chat-store.ts, queryStream in api-client.ts).
THEOREM BlockedWhileStreaming ==
    Spec => /\ []BlockedByStream
            /\ [](\A q \in Questions : EventsLeft(q) \in Nat)
            /\ [][\A q \in Questions :
                     /\ EventsLeft(q)' <= EventsLeft(q)
                     /\ StreamEvent(q) => EventsLeft(q)' < EventsLeft(q)]_vars
<1> DEFINE Typed == \A q \in Questions : EventsLeft(q) \in Nat
           Falls == \A q \in Questions :
                     /\ EventsLeft(q)' <= EventsLeft(q)
                     /\ StreamEvent(q) => EventsLeft(q)' < EventsLeft(q)
<1>1. Start => TypeInv /\ BlockedByStream
  BY StartTyped DEF Start, Init, BlockedByStream
<1>2. TypeInv => Typed
  BY EventsLeftTyped
<1>3. TypeInv /\ BlockedByStream /\ [Next]_vars => BlockedByStream'
  <2>1. ASSUME TypeInv, BlockedByStream, NEW q \in Questions, SendFirstQuery(q) \/ SendQuery(q)
        PROVE  BlockedByStream'
    BY <2>1, AskingLeaves DEF BlockedByStream
  <2>2. ASSUME TypeInv, BlockedByStream, NEW q \in Questions, StreamEvent(q)
        PROVE  BlockedByStream'
    <3>1. CASE isLoading' = FALSE
      BY <3>1 DEF BlockedByStream
    <3>2. CASE isLoading' # FALSE
      <4>1. q \in Open'
        BY <2>2, <3>2, EventLeaves DEF Open
      <4> QED
        BY <4>1 DEF BlockedByStream
    <3> QED
      BY <3>1, <3>2
  <2>3. ASSUME BlockedByStream, UNCHANGED <<stream, isLoading>> PROVE BlockedByStream'
    BY <2>3 DEF BlockedByStream, Open
  <2>4. UNCHANGED vars => UNCHANGED <<stream, isLoading>>
    BY DEF vars, client
  <2> QED
    BY <2>1, <2>2, <2>3, <2>4, StreamSteps
<1>4. TypeInv /\ TypeInv' /\ Typed /\ Typed' /\ [Next]_vars => [Falls]_vars
  <2> SUFFICES ASSUME TypeInv, TypeInv', Typed, Typed', Next, NEW q \in Questions
               PROVE  /\ EventsLeft(q)' <= EventsLeft(q)
                      /\ StreamEvent(q) => EventsLeft(q)' < EventsLeft(q)
    BY DEF vars
  <2>1. EventsLeft(q) \in Nat /\ EventsLeft(q)' \in Nat
    OBVIOUS
  <2>2. stream[q] \in Streams /\ stream'[q] \in Streams
    BY DEF TypeInv, TypeOK, AsyncOK
  <2>3. stream[q].sent \in 0..MaxTokens /\ stream'[q].sent \in 0..MaxTokens
    BY <2>2 DEF Streams
  <2>4. StreamEvent(q) => EventsLeft(q)' < EventsLeft(q)
    <3> SUFFICES ASSUME StreamEvent(q) PROVE EventsLeft(q)' < EventsLeft(q)
      OBVIOUS
    <3>1. CASE stream[q].state = "asked" /\ stream'[q].state = "streaming"
      BY <2>3, <3>1, MaxTokensAssumption DEF EventsLeft
    <3>2. CASE /\ stream[q].state = "streaming" /\ stream'[q].state = "streaming"
               /\ stream'[q].sent = stream[q].sent + 1
      BY <2>3, <3>2, MaxTokensAssumption DEF EventsLeft
    <3>3. CASE /\ stream[q].state \in {"asked", "streaming"}
               /\ stream'[q].state \in {"complete", "error"}
      BY <2>3, <3>3, MaxTokensAssumption DEF EventsLeft
    <3> QED
      BY <3>1, <3>2, <3>3, EventLeaves
  <2>5. stream'[q] = stream[q] => EventsLeft(q)' = EventsLeft(q)
    BY DEF EventsLeft
  <2>6. CASE StreamEvent(q)
    BY <2>1, <2>4, <2>6
  <2>7. CASE stream'[q] = stream[q]
    BY <2>1, <2>4, <2>5, <2>7
  <2>8. CASE SendFirstQuery(q) \/ SendQuery(q)
    <3>1. stream[q].state = "unasked" /\ stream'[q].state = "asked"
      BY <2>8, AskingLeaves
    <3> QED
      BY <2>4, <3>1, MaxTokensAssumption DEF EventsLeft
  <2> QED
    BY <2>6, <2>7, <2>8, StreamSteps, AskingLeaves, EventLeaves
<1> HIDE DEF Typed, Falls
<1>5. Spec => []BlockedByStream /\ []Typed /\ [][Falls]_vars
  BY <1>1, <1>2, <1>3, <1>4, NextTyped, PTL DEF Spec
<1> QED
  BY <1>5 DEF Typed, Falls
=============================================================================
