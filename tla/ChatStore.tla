----------------------------- MODULE ChatStore ------------------------------
(***************************************************************************)
(* The chat client: store/chat-store.ts with queryStream of                *)
(* lib/api-client.ts, driven by components/chat/ChatContainer.tsx, against *)
(* the conversations API.                                                  *)
(*                                                                         *)
(* The browser runs one callback at a time, to its end: an action is a     *)
(* click, an event of a stream or an answer of the API, with everything    *)
(* the code does before it awaits again.                                   *)
(***************************************************************************)
EXTENDS Conversations

CONSTANTS
    Sids,           \* local session ids, from crypto.randomUUID
    Loads,          \* calls of loadConversations that can be under way
    MaxSessions,    \* how many sessions newChat keeps (30)
    Clicks,         \* which of AllClicks the user of this instance makes
    Faults,         \* which of AllFaults can happen in this instance
    None            \* null and undefined

AllClicks == {"select", "new", "clear"}

\* A stream breaks, a POST fails or its answer is lost, a GET fails.
AllFaults == {"stream", "post", "get"}

ASSUME NoneIsNoId == None \notin Sids \cup Convs
ASSUME MaxSessionsAssumption == MaxSessions \in Nat \ {0}
ASSUME ClicksAssumption == Clicks \subseteq AllClicks
ASSUME FaultsAssumption == Faults \subseteq AllFaults

VARIABLES
    sessions,           \* the ids in the side bar, in order
    used,               \* the ids made so far
    serverId,           \* serverId of a session
    sessionMessages,    \* messages of a session
    activeSessionId,
    messages,           \* the messages on display: a copy
    isLoading,
    stream,             \* queryStream, for each question
    turn,               \* persistTurn, for each question
    load                \* loadConversations, for each call of it

store == <<sessions, used, serverId, sessionMessages>>
view == <<activeSessionId, messages>>

Listed == ToSet(sessions)

Streams == [state: {"unasked", "asked", "streaming", "complete", "error"},
            sid: Sids \cup {None}, sent: 0..MaxTokens]

Open == {q \in Questions : stream[q].state \in {"asked", "streaming"}}

\* How persistTurn can end: stored; the API refused a message, or a call
\* failed; the answer to the POST of the conversation was lost; or the
\* session was no longer in the store.
Ends == {"stored", "rejected", "failed", "orphaned", "dropped"}

Turns == [pc: {"none", "create", "created", "user", "userSent",
               "assistant", "assistantSent"} \cup Ends,
          conv: Convs \cup {None}, made: BOOLEAN, text: Texts]

Fetches == [pc: {"idle", "list", "details"}, list: Seq(Convs),
            missing: SUBSET Convs, detail: [Convs -> Seq(Messages)]]

Init ==
    /\ InitServer
    /\ sessions = <<>> /\ used = {}
    /\ serverId = [s \in Sids |-> None]
    /\ sessionMessages = [s \in Sids |-> <<>>]
    /\ activeSessionId = None /\ messages = <<>> /\ isLoading = FALSE
    /\ stream = [q \in Questions |-> [state |-> "unasked", sid |-> None, sent |-> 0]]
    /\ turn = [q \in Questions |-> [pc |-> "none", conv |-> None, made |-> FALSE,
                                    text |-> {}]]
    /\ load = [l \in Loads |-> [pc |-> "idle", list |-> <<>>, missing |-> {},
                                detail |-> [c \in Convs |-> <<>>]]]

\* withUpdatedSession: nothing happens to a session that is not in the store.
SetSessionMessages(s, ms) ==
    sessionMessages' = [sessionMessages EXCEPT ![s] = IF s \in Listed THEN ms ELSE @]

-----------------------------------------------------------------------------
(* What the user does *)

\* A click on a session in the side bar.
SelectSession(s) ==
    /\ "select" \in Clicks
    /\ s \in Listed
    /\ activeSessionId' = s
    /\ messages' = sessionMessages[s]
    /\ UNCHANGED <<server, store, isLoading, stream, turn, load>>

\* Mutant of NewChat: the display keeps the messages of the session left.
NewChatKeepsMessages ==
    /\ "new" \in Clicks
    /\ \E s \in Sids \ used :
        /\ sessions' = SubSeq(Cons(s, sessions), 1, IF Len(sessions) < MaxSessions
                                                     THEN Len(sessions) + 1
                                                     ELSE MaxSessions)
        /\ used' = used \cup {s}
        /\ activeSessionId' = s
        /\ UNCHANGED <<server, serverId, sessionMessages, messages, isLoading, stream,
                       turn, load>>

\* Mutant of NewChat: the new session is added at the end and cut off.
NewChatAtEnd ==
    /\ "new" \in Clicks
    /\ \E s \in Sids \ used :
        /\ sessions' = IF Len(sessions) < MaxSessions THEN Append(sessions, s) ELSE sessions
        /\ used' = used \cup {s}
        /\ activeSessionId' = s
        /\ messages' = <<>>
        /\ UNCHANGED <<server, serverId, sessionMessages, isLoading, stream, turn, load>>

\* "New Dialogue".  The oldest sessions go, whatever is under way in them.
NewChat ==
    /\ "new" \in Clicks
    /\ \E s \in Sids \ used :
        /\ sessions' = SubSeq(Cons(s, sessions), 1, IF Len(sessions) < MaxSessions
                                                     THEN Len(sessions) + 1
                                                     ELSE MaxSessions)
        /\ used' = used \cup {s}
        /\ activeSessionId' = s
        /\ messages' = <<>>
        /\ UNCHANGED <<server, serverId, sessionMessages, isLoading, stream, turn, load>>

\* Mutant of ClearChat: only the display is cleared.
ClearDisplay ==
    /\ "clear" \in Clicks
    /\ messages' = <<>>
    /\ UNCHANGED <<server, store, activeSessionId, isLoading, stream, turn, load>>

\* "Clear Chat History" of the command palette: the server keeps its copy.
ClearChat ==
    /\ "clear" \in Clicks
    /\ messages' = <<>>
    /\ IF activeSessionId = None THEN UNCHANGED sessionMessages
       ELSE SetSessionMessages(activeSessionId, <<>>)
    /\ UNCHANGED <<server, sessions, used, serverId, activeSessionId, isLoading,
                   stream, turn, load>>

\* The input is disabled while isLoading; the suggestions, shown as long as
\* there is no message, are not.
MaySend == ~isLoading \/ messages = <<>>

\* sendQuery in a session of its own when none is active.
SendFirstQuery(q) ==
    /\ stream[q].state = "unasked" /\ MaySend
    /\ activeSessionId = None
    /\ \E s \in Sids \ used :
        /\ sessions' = Cons(s, sessions)
        /\ used' = used \cup {s}
        /\ activeSessionId' = s
        /\ messages' = <<Question(q), Answer(q, {}, "thinking")>>
        /\ sessionMessages' = [sessionMessages EXCEPT ![s] = messages']
        /\ stream' = [stream EXCEPT ![q] = [@ EXCEPT !.state = "asked", !.sid = s]]
    /\ isLoading' = TRUE
    /\ UNCHANGED <<server, serverId, turn, load>>

\* sendQuery in the active session: its messages become those on display.
SendQuery(q) ==
    /\ stream[q].state = "unasked" /\ MaySend
    /\ activeSessionId # None
    /\ messages' = messages \o <<Question(q), Answer(q, {}, "thinking")>>
    /\ SetSessionMessages(activeSessionId, messages')
    /\ stream' = [stream EXCEPT ![q] = [@ EXCEPT !.state = "asked",
                                                 !.sid = activeSessionId]]
    /\ isLoading' = TRUE
    /\ UNCHANGED <<server, sessions, used, serverId, activeSessionId, turn, load>>

-----------------------------------------------------------------------------
(* The events of a stream.  At most one of onComplete and onError comes,   *)
(* and nothing after it.                                                   *)

\* The placeholder of sendQuery; a message loaded from the server has an id
\* of its own.
IsAnswerTo(m, q) == m.q = q /\ m.role = "assistant" /\ ~m.saved

\* get().messages.find(...)?.content ?? ""
Displayed(q) == UNION {m.text : m \in {m \in ToSet(messages) : IsAnswerTo(m, q)}}

\* updateAssistant: the messages on display, updated, are the new messages of
\* the session the question was asked in.
UpdateAssistant(q, text, status) ==
    /\ messages' = [i \in DOMAIN messages |->
                     IF IsAnswerTo(messages[i], q)
                       THEN [messages[i] EXCEPT !.text = text, !.status = status]
                       ELSE messages[i]]
    /\ SetSessionMessages(stream[q].sid, messages')
    /\ UNCHANGED <<sessions, used, serverId, activeSessionId>>

OnRetrieval(q) ==
    /\ stream[q].state = "asked"
    /\ UpdateAssistant(q, Displayed(q), "streaming")
    /\ stream' = [stream EXCEPT ![q].state = "streaming"]
    /\ UNCHANGED <<server, isLoading, turn, load>>

\* Mutant of OnToken: the content is the token.
OnTokenReplace(q) ==
    /\ stream[q].state = "streaming" /\ stream[q].sent < MaxTokens
    /\ stream' = [stream EXCEPT ![q].sent = @ + 1]
    /\ UpdateAssistant(q, {stream'[q].sent}, "streaming")
    /\ UNCHANGED <<server, isLoading, turn, load>>

\* onToken appends to what is on display.
OnToken(q) ==
    /\ stream[q].state = "streaming" /\ stream[q].sent < MaxTokens
    /\ stream' = [stream EXCEPT ![q].sent = @ + 1]
    /\ UpdateAssistant(q, Displayed(q) \cup {stream'[q].sent}, "streaming")
    /\ UNCHANGED <<server, isLoading, turn, load>>

\* Mutant of BeginTurn: the last message on display is taken for the answer.
BeginTurnWithLast(q) ==
    LET s == stream[q].sid IN
    turn' = [turn EXCEPT ![q] =
              [@ EXCEPT !.pc = CASE s \notin Listed -> "dropped"
                                 [] s \in Listed /\ serverId[s] = None -> "create"
                                 [] OTHER -> "user",
                        !.conv = serverId[s],
                        !.text = IF messages = <<>> THEN {} ELSE Last(messages).text]]

\* persistTurn up to its first await (ensureServerConversation included).
BeginTurn(q) ==
    LET s == stream[q].sid IN
    turn' = [turn EXCEPT ![q] =
              [@ EXCEPT !.pc = CASE s \notin Listed -> "dropped"
                                 [] s \in Listed /\ serverId[s] = None -> "create"
                                 [] OTHER -> "user",
                        !.conv = serverId[s],
                        !.text = Displayed(q)]]

\* onComplete: what is persisted is what is on display.
OnComplete(q) ==
    /\ stream[q].state = "streaming"
    /\ UpdateAssistant(q, Displayed(q), "done")
    /\ isLoading' = FALSE
    /\ BeginTurn(q)
    /\ stream' = [stream EXCEPT ![q].state = "complete"]
    /\ UNCHANGED <<server, load>>

\* Mutant of OnError: isLoading is left as it is.
OnErrorStuck(q) ==
    /\ "stream" \in Faults
    /\ stream[q].state \in {"asked", "streaming"}
    /\ UpdateAssistant(q, {}, "error")
    /\ stream' = [stream EXCEPT ![q].state = "error"]
    /\ UNCHANGED <<server, isLoading, turn, load>>

\* onError, from each of queryStream's exits: no connection, a status other
\* than 200, an error event, a payload that is not JSON, a broken stream.
OnError(q) ==
    /\ "stream" \in Faults
    /\ stream[q].state \in {"asked", "streaming"}
    /\ UpdateAssistant(q, {}, "error")
    /\ isLoading' = FALSE
    /\ stream' = [stream EXCEPT ![q].state = "error"]
    /\ UNCHANGED <<server, turn, load>>

-----------------------------------------------------------------------------
(* persistTurn *)

StepTurn(q, pc) == turn' = [turn EXCEPT ![q].pc = pc]

client == <<store, view, isLoading, stream, load>>

\* The backend makes the conversation ...
ConversationCreated(q) ==
    /\ turn[q].pc = "create"
    /\ \E c \in Convs :
        /\ CreateConversation(c)
        /\ turn' = [turn EXCEPT ![q] = [@ EXCEPT !.pc = "created", !.conv = c,
                                                 !.made = TRUE]]
    /\ UNCHANGED client

\* Mutant of ConversationAnswered: the id is used and not kept.
ConversationForgotten(q) ==
    /\ turn[q].pc = "created"
    /\ StepTurn(q, "user")
    /\ UNCHANGED <<server, client>>

\* Mutant of ConversationAnswered: the id goes to the session on display.
ConversationToActive(q) ==
    /\ turn[q].pc = "created"
    /\ serverId' = [s \in Sids |-> IF s = activeSessionId THEN turn[q].conv ELSE serverId[s]]
    /\ StepTurn(q, "user")
    /\ UNCHANGED <<server, sessions, used, sessionMessages, view, isLoading, stream, load>>

\* ... and its answer gives the session its serverId, if it is still there.
ConversationAnswered(q) ==
    LET s == stream[q].sid IN
    /\ turn[q].pc = "created"
    /\ serverId' = [serverId EXCEPT ![s] = IF s \in Listed THEN turn[q].conv ELSE @]
    /\ StepTurn(q, "user")
    /\ UNCHANGED <<server, sessions, used, sessionMessages, view, isLoading, stream, load>>

\* appendConversationMessage of the question, as the backend begins it ...
BeginQuestion(q) ==
    /\ turn[q].pc = "user"
    /\ BeginMessage(turn[q].conv, Question(q))
    /\ StepTurn(q, "userSent")
    /\ UNCHANGED client

\* ... and commits and answers it.
AppendQuestion(q) ==
    /\ turn[q].pc = "userSent"
    /\ CommitMessage(turn[q].conv, Question(q))
    /\ StepTurn(q, "assistant")
    /\ UNCHANGED client

\* The title of the conversation needs no PATCH: sendQuery has already taken
\* it from the question.
BeginAnswer(q) ==
    LET m == Answer(q, turn[q].text, "done") IN
    /\ turn[q].pc = "assistant"
    /\ IF Acceptable(m) THEN BeginMessage(turn[q].conv, m) /\ StepTurn(q, "assistantSent")
       ELSE StepTurn(q, "rejected") /\ UNCHANGED server
    /\ UNCHANGED client

\* Nothing follows the answer to this POST, whether it arrives or not.
AppendAnswer(q) ==
    /\ turn[q].pc = "assistantSent"
    /\ CommitMessage(turn[q].conv, Answer(q, turn[q].text, "done"))
    /\ StepTurn(q, "stored")
    /\ UNCHANGED client

\* A call fails and the backend has done nothing, or the answer to the POST of
\* the conversation is lost; the catch drops the rest of the turn.
CallFails(q) ==
    /\ "post" \in Faults
    /\ \/ turn[q].pc \in {"create", "user", "assistant"} /\ StepTurn(q, "failed")
       \/ turn[q].pc = "created" /\ StepTurn(q, "orphaned")
    /\ UNCHANGED <<server, client>>

\* Mutant of AnswerLost: the POST is tried again.
AnswerLostRetried(q) ==
    /\ "post" \in Faults
    /\ turn[q].pc = "userSent"
    /\ CommitMessage(turn[q].conv, Question(q))
    /\ StepTurn(q, "user")
    /\ UNCHANGED client

\* The question is stored and the answer to its POST is lost.
AnswerLost(q) ==
    /\ "post" \in Faults
    /\ turn[q].pc = "userSent"
    /\ CommitMessage(turn[q].conv, Question(q))
    /\ StepTurn(q, "failed")
    /\ UNCHANGED client

-----------------------------------------------------------------------------
(* loadConversations, run when the chat or the history page is mounted *)

StartLoad(l) ==
    /\ load[l].pc = "idle"
    /\ load' = [load EXCEPT ![l].pc = "list"]
    /\ UNCHANGED <<server, store, view, isLoading, stream, turn>>

EndLoad(l) ==
    load' = [load EXCEPT ![l] = [pc |-> "idle", list |-> <<>>, missing |-> {},
                                 detail |-> [c \in Convs |-> <<>>]]]

\* Mutant of LoadedMessages: the answers in the order in which they came.
LoadedInOtherOrder(list, detail) ==
    [i \in DOMAIN list |-> detail[Reverse(list)[i]]]

\* The messages of the loaded sessions, matched with their conversations.
LoadedMessages(list, detail) ==
    [i \in DOMAIN list |-> detail[list[i]]]

\* Mutant of Display: the display is left alone.
DisplayKept(ids, loaded) ==
    /\ activeSessionId' = IF ids = <<>> THEN None ELSE ids[1]
    /\ UNCHANGED messages

\* The first of the loaded sessions is shown.
Display(ids, loaded) ==
    /\ activeSessionId' = IF ids = <<>> THEN None ELSE ids[1]
    /\ messages' = IF ids = <<>> THEN <<>> ELSE loaded[1]

\* Fresh ids for as many sessions.
NewIds(n) == {ids \in [1..n -> Sids \ used] : IsInjective(ids)}

\* The loaded conversations are from now on all the sessions there are.
ReplaceSessions(list, detail) ==
    LET loaded == LoadedMessages(list, detail) IN
    \E ids \in NewIds(Len(list)) :
        LET place == [s \in ToSet(ids) |-> CHOOSE i \in DOMAIN ids : ids[i] = s] IN
        /\ sessions' = ids
        /\ used' = used \cup ToSet(ids)
        /\ serverId' = [s \in Sids |-> IF s \in ToSet(ids) THEN list[place[s]]
                                                            ELSE serverId[s]]
        /\ sessionMessages' = [s \in Sids |-> IF s \in ToSet(ids) THEN loaded[place[s]]
                                                                   ELSE <<>>]
        /\ Display(ids, loaded)

ListAnswered(l) ==
    /\ load[l].pc = "list"
    /\ IF recent = <<>>
         THEN ReplaceSessions(<<>>, load[l].detail) /\ EndLoad(l)
         ELSE /\ load' = [load EXCEPT ![l] = [@ EXCEPT !.pc = "details", !.list = Listing,
                                                       !.missing = ToSet(Listing)]]
              /\ UNCHANGED <<store, view>>
    /\ UNCHANGED <<server, isLoading, stream, turn>>

\* What a GET of a conversation can come back with.
Answered(c) == {[i \in DOMAIN f |-> stored[c][f[i]]] : f \in InOrder(c)}
                 \cup (IF "get" \in Faults THEN {<<>>} ELSE {})

\* The GETs of the conversations run side by side; one that fails leaves its
\* session without messages.  The last answer replaces the sessions.
DetailAnswered(l, c) ==
    /\ load[l].pc = "details" /\ c \in load[l].missing
    /\ \E rows \in Answered(c) :
        LET detail == [load[l].detail EXCEPT ![c] = rows] IN
        IF load[l].missing = {c}
          THEN ReplaceSessions(load[l].list, detail) /\ EndLoad(l)
          ELSE /\ load' = [load EXCEPT ![l] = [@ EXCEPT !.missing = load[l].missing \ {c},
                                                        !.detail = detail]]
               /\ UNCHANGED <<store, view>>
    /\ UNCHANGED <<server, isLoading, stream, turn>>

\* The list cannot be had: the sessions stay as they are.
LoadFails(l) ==
    /\ "get" \in Faults
    /\ load[l].pc = "list"
    /\ EndLoad(l)
    /\ UNCHANGED <<server, store, view, isLoading, stream, turn>>
=============================================================================
