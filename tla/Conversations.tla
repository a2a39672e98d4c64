--------------------------- MODULE Conversations ----------------------------
(***************************************************************************)
(* The chat history kept by the backend for one user:                      *)
(* api/v1/conversations.py over models/conversation.py.                    *)
(*                                                                         *)
(* A POST of a message is in two actions, the begin of its transaction and *)
(* its commit; what the client makes of the answer is in module ChatStore. *)
(* A POST that is rolled back is one that has not begun.                   *)
(***************************************************************************)
EXTENDS Naturals, Sequences, FiniteSets, SequencesExt

CONSTANTS
    Questions,  \* what the user asks, each of them once
    Convs,      \* ids of conversations (bounds the POSTs that make one)
    MaxTokens,  \* tokens of the longest answer
    MaxContent, \* tokens of the longest content a POST takes (16000 characters)
    ListLimit   \* how many conversations the listing returns (50)

ASSUME MaxTokensAssumption == MaxTokens \in Nat
ASSUME MaxContentAssumption == MaxContent \in Nat
ASSUME ListLimitAssumption == ListLimit \in Nat \ {0}

\* A text is known by what it was put together from: an answer by the tokens
\* that were appended to it (they arrive in order), a question by itself.
Texts == SUBSET (1..MaxTokens)

\* A message, as it is stored and as the client shows it.  Only a message
\* that came from the server carries a server id (saved).
Messages == [q: Questions, role: {"user", "assistant"}, text: Texts,
             status: {"thinking", "streaming", "done", "error"}, saved: BOOLEAN]

Question(q) == [q |-> q, role |-> "user", text |-> {}, status |-> "done",
                saved |-> FALSE]
Answer(q, text, status) == [Question(q) EXCEPT !.role = "assistant",
                                               !.text = text, !.status = status]

VARIABLES
    recent,     \* the user's conversations, last updated first
    stored      \* the rows of conversation_messages, by created_at: those
                \* that are committed (saved) and those that are not yet

server == <<recent, stored>>

InitServer ==
    /\ recent = <<>>
    /\ stored = [c \in Convs |-> <<>>]

\* POST /conversations: a fresh uuid.
CreateConversation(c) ==
    /\ c \notin ToSet(recent)
    /\ recent' = Cons(c, recent)
    /\ UNCHANGED stored

\* GET /conversations.
Listing == SubSeq(recent, 1, IF Len(recent) <= ListLimit THEN Len(recent) ELSE ListLimit)

\* AppendMessageRequest: an empty content and one that is too long are refused
\* (422).  A question is neither (QueryRequest takes 3 to 2000 characters).
Acceptable(m) == m.role = "user" \/ Cardinality(m.text) \in 1..MaxContent

\* POST /conversations/{id}/messages.  created_at is now(), the time at which
\* the transaction began: with the SELECT of get_current_user.
BeginMessage(c, m) ==
    /\ stored' = [stored EXCEPT ![c] = Append(@, m)]
    /\ UNCHANGED recent

\* The commit, which also sets updated_at.
CommitMessage(c, m) ==
    /\ \E i \in DOMAIN stored[c] :
        stored[c][i] = m /\ stored' = [stored EXCEPT ![c][i].saved = TRUE]
    /\ \E i \in DOMAIN recent :
        recent[i] = c /\ recent' = Cons(c, RemoveAt(recent, i))

\* GET /conversations/{id} returns the committed rows in the order of created_at:
\* this is where the n-th of them is.
Committed(c) == {i \in DOMAIN stored[c] : stored[c][i].saved}

\* Mutant of InOrder: ORDER BY created_at DESC.
InReverseOrder(c) ==
    {f \in [1..Cardinality(Committed(c)) -> Committed(c)] :
        /\ ToSet(f) = Committed(c)
        /\ \A i, j \in DOMAIN f : i < j => f[i] > f[j]}

InOrder(c) ==
    {f \in [1..Cardinality(Committed(c)) -> Committed(c)] :
        /\ ToSet(f) = Committed(c)
        /\ \A i, j \in DOMAIN f : i < j => f[i] < f[j]}
=============================================================================
