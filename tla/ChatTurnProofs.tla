--------------------------- MODULE ChatTurnProofs ---------------------------
(***************************************************************************)
(* More theorems about Chat: what becomes of a turn after its stream has   *)
(* completed.                                                              *)
(*                                                                         *)
(*    TurnsAreFiled        FiledWithItsSession                             *)
(*    OneForEachSession    OneConversation                                 *)
(*    AnswersAreWhole      AnswersStoredWhole                              *)
(*    LoadedStaysStored    LoadedIsStored                                  *)
(*                                                                         *)
(* FiledInv says where the id of a conversation that a session or a turn   *)
(* holds comes from, MadeInv what a session is like once a conversation    *)
(* was made for it, TextInv what text a turn carries, and LoadInv what a   *)
(* load has read and a loaded session keeps.                               *)
(***************************************************************************)
EXTENDS ChatProofs

-----------------------------------------------------------------------------
(* What a step does to turns and server ids *)

\* A step of persistTurn makes a conversation or moves on; it keeps what the
\* turn carries.
LEMMA PersistTurnKeeps ==
    ASSUME TypeInv, NEW q \in Questions, PersistTurn(q)
    PROVE  \/ /\ turn[q].pc = "create"
              /\ turn'[q].pc = "created" /\ turn'[q].made /\ turn'[q].conv \in Convs
              /\ turn'[q].text = turn[q].text
           \/ /\ turn[q].pc # "none"
              /\ turn[q].pc # "create" \/ turn'[q].pc = "failed"
              /\ turn'[q].made = turn[q].made /\ turn'[q].conv = turn[q].conv
              /\ turn'[q].text = turn[q].text
<1>1. turn \in [Questions -> Turns] /\ turn[q] \in Turns
  BY DEF TypeInv, TypeOK, AsyncOK
<1>2. CASE ConversationCreated(q)
  <2>1. PICK c \in Convs :
          turn' = [turn EXCEPT ![q] = [@ EXCEPT !.pc = "created", !.conv = c, !.made = TRUE]]
    BY <1>2 DEF ConversationCreated
  <2> QED
    BY <1>1, <1>2, <2>1 DEF ConversationCreated, Turns
<1>3. ASSUME NEW pc, StepTurn(q, pc)
      PROVE  /\ turn'[q].pc = pc /\ turn'[q].made = turn[q].made
             /\ turn'[q].conv = turn[q].conv /\ turn'[q].text = turn[q].text
  BY <1>1, <1>3 DEF StepTurn, Turns
<1>4. CASE ~ConversationCreated(q)
  <2>1. \E pc : /\ StepTurn(q, pc) /\ turn[q].pc # "none"
                /\ turn[q].pc # "create" \/ pc = "failed"
    BY <1>4 DEF PersistTurn, ConversationAnswered, BeginQuestion, AppendQuestion, BeginAnswer,
                AppendAnswer, CallFails, AnswerLost
  <2> QED
    BY <1>3, <2>1
<1> QED
  BY <1>2, <1>4

\* A turn under way keeps its conversation and its text, and only the turn of
\* a step moves.
LEMMA TurnKeeps ==
    ASSUME TypeInv, Next, NEW q \in Questions, turn[q].pc # "none"
    PROVE  /\ stream'[q] = stream[q]
           /\ turn'[q].text = turn[q].text
           /\ turn[q].pc # "create" =>
                turn'[q].made = turn[q].made /\ turn'[q].conv = turn[q].conv
           /\ turn'[q].pc # "none"
<1>1. turn \in [Questions -> Turns]
  BY DEF TypeInv, TypeOK, AsyncOK
<1>2. stream[q].state = "complete" /\ stream'[q] = stream[q]
  BY StreamTyped DEF TypeInv, StreamsOK
<1>3. CASE turn'[q] = turn[q]
  BY <1>2, <1>3
<1>4. ASSUME NEW p \in Questions, stream[p].state = "streaming", BeginTurn(p)
      PROVE  turn'[q] = turn[q]
  <2>1. turn' = [turn EXCEPT ![p] = turn'[p]] /\ p # q
    BY <1>2, <1>4, BeginTurnFields
  <2> QED
    BY <1>1, <2>1
<1>5. ASSUME NEW p \in Questions, PersistTurn(p), p # q
      PROVE  turn'[q] = turn[q]
  <2>1. turn' = [turn EXCEPT ![p] = turn'[p]]
    BY <1>5, PersistTurnFields
  <2> QED
    BY <1>1, <1>5, <2>1
<1>6. CASE PersistTurn(q)
  <2>1. turn'[q].pc # "none"
    BY <1>6, PersistTurnFields
  <2> QED
    BY <1>2, <1>6, <2>1, PersistTurnKeeps
<1> QED
  BY <1>3, <1>4, <1>5, <1>6, TurnSteps

\* A session gets a server id from the answer to a POST of its own, or as it
\* is loaded.
LEMMA ServerIdSteps ==
    ASSUME TypeInv, Next, NEW s \in Sids, serverId'[s] # serverId[s]
    PROVE  \/ s \in used' \ used
           \/ \E q \in Questions :
                turn[q].pc = "created" /\ stream[q].sid = s /\ serverId'[s] = turn[q].conv
<1>0. serverId \in [Sids -> Convs \cup {None}]
  BY DEF TypeInv, TypeOK, StoreOK
<1>1. ASSUME NEW q \in Questions, ConversationAnswered(q)
      PROVE  turn[q].pc = "created" /\ stream[q].sid = s /\ serverId'[s] = turn[q].conv
  BY <1>0, <1>1 DEF ConversationAnswered
<1>2. ASSUME NEW l \in Loads, LoadEnds(l) PROVE s \in used' \ used
  <2>1. PICK list \in Seq(Convs), detail \in [Convs -> Seq(Messages)] :
          ReplaceSessions(list, detail)
    BY <1>2, LoadEndsFields DEF TypeInv
  <2>2. PICK ids \in NewIds(Len(list)) :
          /\ used' = used \cup ToSet(ids)
          /\ \E f : serverId' = [t \in Sids |-> IF t \in ToSet(ids) THEN f[t] ELSE serverId[t]]
    <3>1. PICK ids \in NewIds(Len(list)) :
          LET place == [t \in ToSet(ids) |-> CHOOSE i \in DOMAIN ids : ids[i] = t] IN
            /\ used' = used \cup ToSet(ids)
            /\ serverId' = [t \in Sids |-> IF t \in ToSet(ids) THEN list[place[t]]
                                                               ELSE serverId[t]]
      BY <2>1 DEF ReplaceSessions
    <3> DEFINE place == [t \in ToSet(ids) |-> CHOOSE i \in DOMAIN ids : ids[i] = t]
               f == [t \in ToSet(ids) |-> list[place[t]]]
    <3>2. /\ used' = used \cup ToSet(ids)
          /\ serverId' = [t \in Sids |-> IF t \in ToSet(ids) THEN f[t] ELSE serverId[t]]
      BY <3>1
    <3> HIDE DEF f
    <3> QED
      BY <3>2
  <2>3. s \in ToSet(ids)
    BY <2>2
  <2>4. ToSet(ids) \cap used = {}
    BY DEF NewIds, ToSet
  <2> QED
    BY <2>2, <2>3, <2>4
<1>3. ASSUME \/ UNCHANGED <<store, view, isLoading, stream>>
             \/ NewChat \/ ClearChat
             \/ \E t \in Sids : SelectSession(t)
             \/ \E q \in Questions : SendFirstQuery(q) \/ SendQuery(q)
      PROVE  serverId' = serverId
  BY <1>3 DEF store, NewChat, ClearChat, SelectSession, SendFirstQuery, SendQuery
<1>4. ASSUME NEW q \in Questions, StreamEvent(q) PROVE serverId' = serverId
  BY <1>4 DEF StreamEvent, OnRetrieval, OnToken, OnComplete, OnError, UpdateAssistant
<1> QED
  BY <1>1, <1>2, <1>3, <1>4, ClientSteps

\* What Observe keeps of a session, and of one that is new.
LEMMA LoadedFromSteps ==
    ASSUME TypeInv, Next, NEW s \in Sids
    PROVE  /\ s \in used' \ used => loadedFrom'[s] = serverId'[s]
           /\ s \notin used' \ used => loadedFrom'[s] = loadedFrom[s]
  BY DEF Next, Observe

-----------------------------------------------------------------------------
(* A turn is filed in a conversation of its session *)

\* c was made for session s, or s was loaded from it.
Owns(s, c) ==
    \/ loadedFrom[s] = c
    \/ \E r \in Questions : turn[r].made /\ turn[r].conv = c /\ stream[r].sid = s

\* A turn that has not got so far has made nothing; a server id, the
\* conversation a turn goes on with and the one it is stored in belong to the
\* session.
FiledInv ==
    /\ \A q \in Questions : turn[q].pc \in {"none", "create", "dropped"} => ~turn[q].made
    /\ \A s \in Sids : serverId[s] # None => Owns(s, serverId[s])
    /\ \A q \in Questions :
        turn[q].pc \in {"created", "user", "userSent", "assistant", "assistantSent"} =>
            turn[q].conv \in Convs /\ Owns(stream[q].sid, turn[q].conv)
    /\ \A q \in Questions : \A p \in Places(q, "user") : Owns(stream[q].sid, p[1])

\* A session that is not new keeps what it owns.
LEMMA OwnsKept ==
    ASSUME TypeInv, FiledInv, Next, NEW s \in Sids, s \notin used' \ used, NEW c, Owns(s, c)
    PROVE  Owns(s, c)'
<1>1. CASE loadedFrom[s] = c
  BY <1>1, LoadedFromSteps DEF Owns
<1>2. ASSUME NEW r \in Questions, turn[r].made, turn[r].conv = c, stream[r].sid = s
      PROVE  Owns(s, c)'
  <2>1. turn[r].pc \notin {"none", "create"}
    BY <1>2 DEF FiledInv
  <2>2. turn'[r].made /\ turn'[r].conv = c /\ stream'[r].sid = s
    BY <1>2, <2>1, TurnKeeps
  <2> QED
    BY <2>2 DEF Owns
<1> QED
  BY <1>1, <1>2 DEF Owns

\* Every step keeps FiledInv.
LEMMA FiledKept ==
    ASSUME TypeInv, OriginInv, StoredInv, FiledInv, Next
    PROVE  FiledInv'
<1>1. /\ turn \in [Questions -> Turns]
      /\ serverId \in [Sids -> Convs \cup {None}]
  BY DEF TypeInv, TypeOK, AsyncOK, StoreOK
<1>2. ASSUME NEW q \in Questions, turn[q].pc # "none"
      PROVE  /\ stream[q].sid \in Sids /\ stream[q].sid \notin used' \ used
             /\ stream'[q].sid = stream[q].sid
  BY <1>2, TurnKeeps, NoneIsNoId DEF TypeInv, StreamsOK, OriginInv
<1>3. ASSUME NEW q \in Questions, turn[q].pc # "none", NEW c, Owns(stream[q].sid, c)
      PROVE  Owns(stream[q].sid, c)'
  <2>1. PICK s \in Sids : s = stream[q].sid /\ s = stream'[q].sid /\ s \notin used' \ used
    BY <1>2, <1>3
  <2>2. Owns(s, c)'
    BY <1>3, <2>1, OwnsKept
  <2> QED
    BY <2>1, <2>2 DEF Owns
<1>4. ASSUME NEW q \in Questions, stream[q].state = "streaming", BeginTurn(q),
             stream' = [stream EXCEPT ![q].state = "complete"]
      PROVE  /\ turn'[q].pc \in {"create", "user", "dropped"} /\ ~turn'[q].made
             /\ stream'[q].sid = stream[q].sid
             /\ turn'[q].pc = "user" =>
                  turn'[q].conv \in Convs /\ Owns(stream[q].sid, turn'[q].conv)
             /\ stream[q].sid \in Sids /\ stream[q].sid \notin used' \ used
  <2>1. turn[q].pc = "none" /\ stream[q].sid \in Sids /\ stream[q].sid \in used \cup {None}
    BY <1>4 DEF TypeInv, StreamsOK, OriginInv
  <2>2. /\ turn'[q].pc \in {"create", "user", "dropped"} /\ turn'[q].made = turn[q].made
        /\ turn'[q].conv = serverId[stream[q].sid]
        /\ turn'[q].pc = "user" => turn'[q].conv \in Convs
    BY <1>4, BeginTurnFields
  <2>3. stream'[q].sid = stream[q].sid
    BY <1>4 DEF TypeInv, TypeOK, AsyncOK, Streams
  <2> QED
    BY <2>1, <2>2, <2>3, NoneIsNoId DEF FiledInv
<1>5. \A q \in Questions : turn'[q].pc \in {"none", "create", "dropped"} => ~turn'[q].made
  <2> SUFFICES ASSUME NEW q \in Questions, turn'[q].pc \in {"none", "create", "dropped"}
               PROVE  ~turn'[q].made
    OBVIOUS
  <2>1. CASE turn'[q] = turn[q]
    BY <2>1 DEF FiledInv
  <2>2. ASSUME NEW p \in Questions, stream[p].state = "streaming", BeginTurn(p),
               stream' = [stream EXCEPT ![p].state = "complete"]
        PROVE  ~turn'[q].made
    <3>1. turn' = [turn EXCEPT ![p] = turn'[p]]
      BY <2>2, BeginTurnFields
    <3> QED
      BY <1>1, <1>4, <2>1, <2>2, <3>1
  <2>3. ASSUME NEW p \in Questions, PersistTurn(p) PROVE ~turn'[q].made
    <3>1. /\ turn' = [turn EXCEPT ![p] = turn'[p]]
          /\ turn'[p].pc \notin {"none", "create", "dropped"}
      BY <2>3, PersistTurnFields
    <3> QED
      BY <1>1, <2>1, <3>1
  <2> QED
    BY <2>1, <2>2, <2>3, TurnSteps
<1>6. ASSUME NEW q \in Questions,
             turn'[q].pc \in {"created", "user", "userSent", "assistant", "assistantSent"}
      PROVE  turn'[q].conv \in Convs /\ Owns(stream[q].sid, turn[q].conv)'
  <2>1. CASE turn'[q] = turn[q]
    <3>1. /\ turn[q].conv \in Convs /\ Owns(stream[q].sid, turn[q].conv)
          /\ turn[q].pc # "none"
      BY <1>6, <2>1 DEF FiledInv
    <3>2. PICK c \in Convs : c = turn[q].conv
      BY <3>1
    <3>3. Owns(stream[q].sid, c)'
      BY <1>3, <3>1, <3>2
    <3> QED
      BY <2>1, <3>1, <3>2, <3>3 DEF Owns
  <2>2. ASSUME NEW p \in Questions, stream[p].state = "streaming", BeginTurn(p),
               stream' = [stream EXCEPT ![p].state = "complete"]
        PROVE  turn'[q].conv \in Convs /\ Owns(stream[q].sid, turn[q].conv)'
    <3>1. turn' = [turn EXCEPT ![p] = turn'[p]]
      BY <2>2, BeginTurnFields
    <3>2. CASE p = q
      <4>1. PICK s \in Sids : s = stream[q].sid /\ s = stream'[q].sid /\ s \notin used' \ used
        BY <1>4, <2>2, <3>2
      <4>2. turn'[q].conv \in Convs /\ Owns(s, turn'[q].conv)
        BY <1>4, <1>6, <2>2, <3>2, <4>1
      <4>3. PICK c \in Convs : c = turn'[q].conv
        BY <4>2
      <4>4. Owns(s, c)'
        BY <4>1, <4>2, <4>3, OwnsKept
      <4> QED
        BY <4>1, <4>3, <4>4 DEF Owns
    <3> QED
      BY <1>1, <2>1, <3>1, <3>2
  <2>3. ASSUME NEW p \in Questions, PersistTurn(p)
        PROVE  turn'[q].conv \in Convs /\ Owns(stream[q].sid, turn[q].conv)'
    <3>1. turn' = [turn EXCEPT ![p] = turn'[p]] /\ UNCHANGED stream
      BY <2>3, PersistTurnFields
    <3>2. CASE p = q /\ turn[q].pc = "create"
      <4>1. turn'[q].made /\ turn'[q].conv \in Convs
        BY <1>6, <2>3, <3>2, PersistTurnKeeps
      <4> QED
        BY <4>1 DEF Owns
    <3>3. CASE p = q /\ turn[q].pc # "create"
      <4>1. /\ turn[q].pc \in {"created", "user", "userSent", "assistant", "assistantSent"}
            /\ turn'[q].conv = turn[q].conv
        BY <1>6, <2>3, <3>3, PersistTurnFields, PersistTurnKeeps
      <4>2. turn[q].conv \in Convs /\ Owns(stream[q].sid, turn[q].conv)
        BY <4>1 DEF FiledInv
      <4>3. PICK c \in Convs : c = turn[q].conv
        BY <4>2
      <4>4. Owns(stream[q].sid, c)'
        BY <1>3, <4>1, <4>2, <4>3
      <4> QED
        BY <4>1, <4>3, <4>4 DEF Owns
    <3> QED
      BY <1>1, <2>1, <3>1, <3>2, <3>3
  <2> QED
    BY <2>1, <2>2, <2>3, TurnSteps
<1>7. ASSUME NEW s \in Sids, serverId'[s] # None
      PROVE  Owns(s, serverId[s])'
  <2>1. CASE s \in used' \ used
    BY <2>1, LoadedFromSteps DEF Owns
  <2>2. CASE s \notin used' \ used
    <3>1. Owns(s, serverId'[s])
      <4>1. CASE serverId'[s] = serverId[s]
        BY <1>7, <4>1 DEF FiledInv
      <4>2. CASE serverId'[s] # serverId[s]
        BY <2>2, <4>2, ServerIdSteps DEF FiledInv
      <4> QED
        BY <4>1, <4>2
    <3>2. \A c : Owns(s, c) => Owns(s, c)'
      BY <2>2, OwnsKept
    <3> QED
      BY <3>1, <3>2 DEF Owns
  <2> QED
    BY <2>1, <2>2
<1>8. ASSUME NEW q \in Questions, NEW p \in Places(q, "user")'
      PROVE  Owns(stream[q].sid, p[1])'
  <2>1. CASE p \in Places(q, "user")
    <3>1. turn[q].pc # "none" /\ Owns(stream[q].sid, p[1])
      BY <2>1 DEF StoredInv, FiledInv
    <3>2. \A c : Owns(stream[q].sid, c) => Owns(stream[q].sid, c)'
      BY <1>3, <3>1
    <3> QED
      BY <3>1, <3>2
  <2>2. CASE p \notin Places(q, "user")
    <3>0. stored' # stored
      BY <2>2, PlacesKept
    <3>1. PICK r \in Questions : PersistTurn(r)
      BY <3>0, TurnSteps DEF server
    <3>2. /\ Question(r) \in Messages /\ Question(r).q = r
          /\ Answer(r, turn[r].text, "done") \in Messages
          /\ Answer(r, turn[r].text, "done").role = "assistant"
      BY TurnFields DEF TypeInv, Question, Answer
    <3>3. ASSUME NEW m \in Messages, CommitMessage(turn[r].conv, m) PROVE FALSE
      BY <2>2, <3>3, CommitPlaces DEF TypeInv
    <3>4. \/ /\ turn[r].pc = "user" /\ BeginMessage(turn[r].conv, Question(r))
          \/ /\ turn[r].pc = "assistant"
             /\ BeginMessage(turn[r].conv, Answer(r, turn[r].text, "done"))
      BY <3>0, <3>1, <3>2, <3>3, PersistTurnFields
    <3>5. ASSUME NEW m \in Messages, BeginMessage(turn[r].conv, m),
                 turn[r].pc \in {"user", "assistant"}
          PROVE  m.q = q /\ m.role = "user" /\ p[1] = turn[r].conv
      <4>1. turn[r].conv \in Convs
        BY <3>5 DEF StoredInv
      <4>2. PICK new :
            /\ new[1] = turn[r].conv
            /\ m.q = q /\ m.role = "user" => Places(q, "user")' = Places(q, "user") \cup {new}
            /\ ~(m.q = q /\ m.role = "user") => Places(q, "user")' = Places(q, "user")
        BY <3>5, <4>1, BeginPlaces DEF TypeInv
      <4> QED
        BY <2>2, <4>2
    <3>6. r = q /\ turn[q].pc = "user" /\ p[1] = turn[q].conv
      BY <3>2, <3>4, <3>5
    <3>7. Owns(stream[q].sid, p[1])
      BY <3>6 DEF FiledInv
    <3>8. \A c : Owns(stream[q].sid, c) => Owns(stream[q].sid, c)'
      BY <1>3, <3>6
    <3> QED
      BY <3>7, <3>8
  <2> QED
    BY <2>1, <2>2
<1> QED
  BY <1>5, <1>6, <1>7, <1>8 DEF FiledInv

\* FiledInv holds in every state.
LEMMA FiledInvariant == Spec => []FiledInv
<1>1. Start => FiledInv
  <2> SUFFICES ASSUME Start PROVE FiledInv
    OBVIOUS
  <2>1. \A q \in Questions : turn[q].pc = "none" /\ ~turn[q].made
    BY DEF Start, Init
  <2>2. \A s \in Sids : serverId[s] = None
    BY DEF Start, Init
  <2>3. \A q, role : Places(q, role) = {}
    <3>1. \A c \in Convs : DOMAIN stored[c] = {}
      BY DEF Start, Init, InitServer
    <3> QED
      BY <3>1, PlaceIs
  <2> QED
    BY <2>1, <2>2, <2>3 DEF FiledInv
<1>2. TypeInv /\ OriginInv /\ StoredInv /\ FiledInv /\ [Next]_vars => FiledInv'
  <2>1. ASSUME UNCHANGED vars, FiledInv PROVE FiledInv'
    <3>1. /\ UNCHANGED <<serverId, turn, stream, loadedFrom>>
          /\ \A q, role : Places(q, role)' = Places(q, role)
      BY <2>1, PlacesKept DEF vars, server, client, store, history
    <3> QED
      BY <2>1, <3>1 DEF FiledInv, Owns
  <2> QED
    BY <2>1, FiledKept
<1>3. Spec => [](TypeInv /\ OriginInv /\ StoredInv)
  <2>1. ChatInv => TypeInv /\ OriginInv
    BY DEF ChatInv
  <2> QED
    BY <2>1, ChatInvariant, StoredInvariant, PTL
<1> QED
  BY <1>1, <1>2, <1>3, PTL DEF Spec

\* A turn is stored in a conversation of the session its question was asked
\* in, whichever session is active when the API answers.
THEOREM TurnsAreFiled == Spec => []FiledWithItsSession
<1>1. FiledInv => FiledWithItsSession
  BY DEF FiledInv, Owns, FiledWithItsSession
<1> QED
  BY <1>1, FiledInvariant, PTL

-----------------------------------------------------------------------------
(* One conversation for each session *)

\* The turn that made a conversation is waiting for the answer, alone, or the
\* session it made it for has its id or is gone, and needs no other.
Provided(p) ==
    LET s == stream[p].sid IN
    \/ turn[p].pc = "created"
    \/ /\ s \notin Listed \/ serverId[s] # None
       /\ Creating(s) = {}

\* Sessions that are not doubled have one turn at a time that makes a
\* conversation, and its conversation, if it was not orphaned, stays.
MadeInv ==
    /\ \A s \in Sids \ doubled : \A p, q \in Creating(s) : p = q
    /\ \A p \in Questions :
        (turn[p].made /\ turn[p].pc # "orphaned" /\ stream[p].sid \notin doubled) => Provided(p)

\* Whose turn is about to make a conversation after a step: those it was
\* before, and the one that begins in a session without a server id.
LEMMA CreatingSteps ==
    ASSUME TypeInv, Next, NEW s \in Sids, NEW q \in Creating(s)'
    PROVE  q \in Creating(s) \/ (s \in Listed /\ serverId[s] = None)
<1>1. turn \in [Questions -> Turns] /\ stream \in [Questions -> Streams]
  BY DEF TypeInv, TypeOK, AsyncOK
<1>2. stream'[q].sid = s /\ turn'[q].pc \in {"create", "created"} /\ q \in Questions
  BY DEF Creating
<1>3. CASE turn[q].pc # "none"
  <2>1. stream[q].sid = s
    BY <1>2, <1>3, TurnKeeps
  <2>2. CASE turn'[q] = turn[q]
    BY <1>2, <2>1, <2>2 DEF Creating
  <2>3. ASSUME NEW p \in Questions, stream[p].state = "streaming", BeginTurn(p)
        PROVE  turn'[q] = turn[q]
    <3>1. turn' = [turn EXCEPT ![p] = turn'[p]] /\ turn[p].pc = "none"
      BY <2>3, BeginTurnFields DEF TypeInv, StreamsOK
    <3> QED
      BY <1>1, <1>2, <1>3, <3>1
  <2>4. ASSUME NEW p \in Questions, PersistTurn(p)
        PROVE  turn'[q] = turn[q] \/ turn[q].pc = "create"
    <3>1. turn' = [turn EXCEPT ![p] = turn'[p]]
      BY <2>4, PersistTurnFields
    <3>2. p # q \/ turn[q].pc = "create"
      BY <1>2, <2>4, PersistTurnFields
    <3> QED
      BY <1>1, <1>2, <3>1, <3>2
  <2> QED
    BY <1>2, <2>1, <2>2, <2>3, <2>4, TurnSteps DEF Creating
<1>4. CASE turn[q].pc = "none"
  <2>1. PICK p \in Questions : /\ stream[p].state = "streaming" /\ BeginTurn(p)
                               /\ stream' = [stream EXCEPT ![p].state = "complete"]
    <3>1. turn'[q] # turn[q]
      BY <1>2, <1>4
    <3>2. ASSUME NEW r \in Questions, PersistTurn(r) PROVE FALSE
      <4>1. turn' = [turn EXCEPT ![r] = turn'[r]] /\ turn[r].pc # "none"
        BY <3>2, PersistTurnFields
      <4> QED
        BY <1>1, <1>2, <1>4, <3>1, <4>1
    <3> QED
      BY <3>1, <3>2, TurnSteps
  <2>2. p = q
    <3>1. turn' = [turn EXCEPT ![p] = turn'[p]]
      BY <2>1, BeginTurnFields
    <3> QED
      BY <1>1, <1>2, <1>4, <3>1
  <2>3. stream[q].sid = s
    BY <1>1, <1>2, <2>1, <2>2 DEF Streams
  <2>4. turn'[q].pc = CASE s \notin Listed -> "dropped"
                       [] s \in Listed /\ serverId[s] = None -> "create"
                       [] OTHER -> "user"
    BY <1>1, <2>1, <2>2, <2>3 DEF BeginTurn, Turns
  <2> QED
    BY <1>2, <2>4
<1> QED
  BY <1>3, <1>4

\* A session that is no longer listed, or has a server id, stays so.
LEMMA ProvidedSession ==
    ASSUME TypeInv, FiledInv, Next, NEW s \in used, s \notin Listed \/ serverId[s] # None
    PROVE  (s \notin Listed \/ serverId[s] # None)'
<1>1. s \in Sids /\ used \subseteq Sids
  BY DEF TypeInv, TypeOK, StoreOK
<1>2. CASE serverId[s] # None
  <2>1. CASE serverId'[s] = serverId[s]
    BY <1>2, <2>1
  <2>2. CASE serverId'[s] # serverId[s]
    BY <1>1, <2>2, ServerIdSteps, NoneIsNoId DEF FiledInv
  <2> QED
    BY <2>1, <2>2
<1>3. CASE s \notin Listed
  <2>1. Listed' \subseteq Listed \cup (Sids \ used)
    <3>1. CASE UNCHANGED <<store, view, isLoading, stream>>
      BY <3>1 DEF store, Listed
    <3>2. CASE NewChat
      BY <3>2, NewChatFields DEF TypeInv
    <3>3. CASE ClearChat \/ \E r \in Sids : SelectSession(r)
      BY <3>3 DEF ClearChat, SelectSession, store, Listed
    <3>4. ASSUME NEW q \in Questions, SendFirstQuery(q) \/ SendQuery(q)
          PROVE  Listed' \subseteq Listed \cup (Sids \ used)
      <4>1. CASE SendFirstQuery(q)
        BY <4>1, SendFirstQueryFields DEF TypeInv
      <4>2. CASE SendQuery(q)
        BY <4>2, SendQueryFields DEF TypeInv, Listed
      <4> QED
        BY <3>4, <4>1, <4>2
    <3>5. ASSUME NEW q \in Questions, StreamEvent(q) \/ ConversationAnswered(q)
          PROVE  Listed' = Listed
      BY <3>5 DEF StreamEvent, OnRetrieval, OnToken, OnComplete, OnError, UpdateAssistant,
                  ConversationAnswered, Listed
    <3>6. ASSUME NEW l \in Loads, LoadEnds(l)
          PROVE  Listed' \subseteq Listed \cup (Sids \ used)
      BY <3>6, LoadEndsFields, ReplaceSessionsFields DEF TypeInv, StoreOK
    <3> QED
      BY <3>1, <3>2, <3>3, <3>4, <3>5, <3>6, ClientSteps
  <2> QED
    BY <1>3, <2>1
<1> QED
  BY <1>2, <1>3

\* What is left of a turn that has made a conversation.
LEMMA MadeKept ==
    ASSUME TypeInv, OriginInv, FiledInv, MadeInv, Next, NEW p \in Questions, turn'[p].made,
           turn'[p].pc # "orphaned", stream'[p].sid \notin doubled'
    PROVE  Provided(p)'
<1> DEFINE s == stream[p].sid
<1>1. turn \in [Questions -> Turns]
  BY DEF TypeInv, TypeOK, AsyncOK
<1>2. /\ turn'[p].pc \in {"created", "orphaned"} \/ turn[p].made
      /\ turn[p].pc # "none"
  <2>1. CASE turn'[p] = turn[p]
    BY <2>1 DEF FiledInv
  <2>2. ASSUME NEW q \in Questions, stream[q].state = "streaming", BeginTurn(q), q = p
        PROVE  FALSE
    <3>1. turn[p].pc = "none" /\ turn'[p].made = turn[p].made
      BY <2>2, BeginTurnFields DEF TypeInv, StreamsOK
    <3> QED
      BY <3>1 DEF FiledInv
  <2>3. CASE PersistTurn(p)
    BY <2>3, PersistTurnKeeps
  <2>4. ASSUME NEW q \in Questions, BeginTurn(q) \/ PersistTurn(q), q # p,
               stream[q].state = "streaming" \/ PersistTurn(q)
        PROVE  turn'[p] = turn[p]
    <3>1. turn' = [turn EXCEPT ![q] = turn'[q]]
      BY <2>4, BeginTurnFields, PersistTurnFields
    <3> QED
      BY <1>1, <2>4, <3>1
  <2> QED
    BY <2>1, <2>2, <2>3, <2>4, TurnSteps
<1>3. stream'[p] = stream[p] /\ s \in Sids /\ s \in used /\ s \notin doubled /\ s \notin doubled'
  <2>1. stream'[p] = stream[p]
    BY <1>2, TurnKeeps
  <2>2. s \in Sids /\ s \in used
    BY <1>2, NoneIsNoId DEF TypeInv, StreamsOK, OriginInv
  <2>3. doubled \subseteq doubled'
    BY DEF Next, Observe
  <2> QED
    BY <2>1, <2>2, <2>3
<1>4. CASE turn'[p].pc = "created"
  BY <1>4 DEF Provided
<1>5. CASE turn'[p].pc # "created" /\ turn[p].made /\ turn[p].pc = "created"
  <2>1. /\ turn'[p].pc = "user" /\ PersistTurn(p)
    <3>1. turn'[p] # turn[p]
      BY <1>5
    <3>2. ASSUME NEW q \in Questions, stream[q].state = "streaming", BeginTurn(q)
          PROVE  FALSE
      <4>1. turn' = [turn EXCEPT ![q] = turn'[q]] /\ turn[q].pc = "none"
        BY <3>2, BeginTurnFields DEF TypeInv, StreamsOK
      <4> QED
        BY <1>1, <1>5, <3>1, <4>1
    <3>3. PICK q \in Questions : PersistTurn(q)
      BY <3>1, <3>2, TurnSteps
    <3>4. turn' = [turn EXCEPT ![q] = turn'[q]]
      BY <3>3, PersistTurnFields
    <3>5. q = p
      BY <1>1, <3>1, <3>4
    <3> QED
      BY <1>5, <3>3, <3>5, PersistTurnFields
  <2>2. ConversationAnswered(p)
    <3>1. turn[p] \in Turns
      BY <1>1
    <3> QED
      BY <1>1, <1>5, <2>1, <3>1 DEF PersistTurn, ConversationCreated, ConversationAnswered,
            BeginQuestion, AppendQuestion, BeginAnswer, AppendAnswer, CallFails, AnswerLost,
            StepTurn, Turns
  <2>3. (s \notin Listed \/ serverId[s] # None)'
    <3>1. turn[p].conv \in Convs
      BY <1>5 DEF FiledInv
    <3>2. /\ serverId' = [serverId EXCEPT ![s] = IF s \in Listed THEN turn[p].conv ELSE @]
          /\ UNCHANGED sessions
      BY <2>2 DEF ConversationAnswered
    <3> QED
      BY <1>3, <3>1, <3>2, NoneIsNoId DEF Listed, TypeInv, TypeOK, StoreOK
  <2>4. Creating(s)' = {}
    <3> SUFFICES ASSUME NEW q \in Creating(s)' PROVE FALSE
      OBVIOUS
    <3>1. turn' = [turn EXCEPT ![p] = turn'[p]] /\ UNCHANGED stream
      BY <2>1, PersistTurnFields
    <3>2. q # p
      BY <2>1 DEF Creating
    <3>3. q \in Creating(s) /\ p \in Creating(s)
      BY <1>1, <1>5, <3>1, <3>2 DEF Creating
    <3> QED
      BY <1>3, <3>2, <3>3 DEF MadeInv
  <2> QED
    BY <1>3, <2>3, <2>4 DEF Provided, Creating
<1>6. CASE turn'[p].pc # "created" /\ turn[p].made /\ turn[p].pc # "created"
  <2>1. turn[p].pc # "orphaned"
    <3>1. CASE turn'[p] = turn[p]
      BY <3>1
    <3>2. ASSUME NEW q \in Questions, PersistTurn(q)
          PROVE  turn'[p] = turn[p] \/ turn[p].pc # "orphaned"
      <4>1. turn' = [turn EXCEPT ![q] = turn'[q]] /\ turn[q].pc # "orphaned"
        BY <3>2, PersistTurnFields
      <4> QED
        BY <1>1, <4>1
    <3>3. ASSUME NEW q \in Questions, stream[q].state = "streaming", BeginTurn(q)
          PROVE  turn'[p] = turn[p]
      <4>1. turn' = [turn EXCEPT ![q] = turn'[q]] /\ turn[q].pc = "none"
        BY <3>3, BeginTurnFields DEF TypeInv, StreamsOK
      <4> QED
        BY <1>1, <1>2, <4>1
    <3> QED
      BY <3>1, <3>2, <3>3, TurnSteps
  <2>2. (s \notin Listed \/ serverId[s] # None) /\ Creating(s) = {}
    BY <1>3, <1>6, <2>1 DEF MadeInv, Provided
  <2>3. (s \notin Listed \/ serverId[s] # None)'
    BY <1>3, <2>2, ProvidedSession
  <2>4. Creating(s)' = {}
    BY <1>3, <2>2, CreatingSteps
  <2> QED
    BY <1>3, <2>3, <2>4 DEF Provided, Creating
<1> QED
  BY <1>2, <1>4, <1>5, <1>6

\* Every step keeps MadeInv.
LEMMA MadeInvKept ==
    ASSUME TypeInv, OriginInv, FiledInv, MadeInv, Next
    PROVE  MadeInv'
<1>1. \A s \in Sids \ doubled' : \A p, q \in Creating(s)' : p = q
  BY DEF Next, Observe
<1> QED
  BY <1>1, MadeKept DEF MadeInv, Creating

\* What a turn with a conversation of its own was before the step: it had made
\* it, and was not orphaned, or was about to make it.
LEMMA MadeBefore ==
    ASSUME TypeInv, OriginInv, FiledInv, Next, NEW p \in Questions, turn'[p].made,
           turn'[p].pc # "orphaned", stream'[p].sid \notin doubled'
    PROVE  /\ stream'[p].sid = stream[p].sid /\ stream[p].sid \in Sids \ doubled
           /\ turn[p].pc # "orphaned"
           /\ turn[p].made \/ turn[p].pc = "create"
<1>1. turn \in [Questions -> Turns] /\ doubled \subseteq doubled'
  BY DEF TypeInv, TypeOK, AsyncOK, Next, Observe
<1>2. ASSUME NEW q \in Questions, stream[q].state = "streaming", BeginTurn(q)
      PROVE  turn'[p] = turn[p]
  <2>1. /\ turn' = [turn EXCEPT ![q] = turn'[q]] /\ turn[q].pc = "none"
        /\ turn'[q].made = turn[q].made
    BY <1>2, BeginTurnFields DEF TypeInv, StreamsOK
  <2>2. ~turn'[q].made
    BY <2>1 DEF FiledInv
  <2> QED
    BY <1>1, <2>1, <2>2
<1>3. ASSUME NEW q \in Questions, PersistTurn(q)
      PROVE  \/ turn'[p] = turn[p]
             \/ turn[p].pc # "orphaned" /\ (turn[p].made \/ turn[p].pc = "create")
  <2>1. turn' = [turn EXCEPT ![q] = turn'[q]] /\ turn[q].pc # "orphaned"
    BY <1>3, PersistTurnFields
  <2>2. turn[q].pc = "create" \/ turn'[q].made = turn[q].made
    BY <1>3, PersistTurnKeeps
  <2> QED
    BY <1>1, <2>1, <2>2
<1>4. turn[p].pc # "orphaned" /\ (turn[p].made \/ turn[p].pc = "create")
  BY <1>2, <1>3, TurnSteps
<1>5. turn[p].pc # "none"
  BY <1>4 DEF FiledInv
<1>6. stream'[p] = stream[p] /\ stream[p].sid \in Sids
  BY <1>5, TurnKeeps DEF TypeInv, StreamsOK
<1> QED
  BY <1>1, <1>4, <1>6

\* Every step keeps OneConversation.
LEMMA OneConversationKept ==
    ASSUME TypeInv, OriginInv, FiledInv, MadeInv, OneConversation, Next
    PROVE  OneConversation'
<1>1. ASSUME NEW p \in Questions, NEW q \in Questions, p # q,
             turn[p].made, turn[p].pc # "orphaned", turn[q].pc = "create",
             stream[p].sid = stream[q].sid, stream[p].sid \in Sids \ doubled
      PROVE  FALSE
  <2>1. q \in Creating(stream[p].sid)
    BY <1>1 DEF Creating
  <2>2. turn[p].pc = "created" /\ p \in Creating(stream[p].sid)
    BY <1>1, <2>1 DEF MadeInv, Provided, Creating
  <2> QED
    BY <1>1, <2>1, <2>2 DEF MadeInv
<1> SUFFICES ASSUME NEW p \in Questions, NEW q \in Questions, p # q,
                    turn'[p].made, turn'[q].made, stream'[p].sid = stream'[q].sid,
                    stream'[p].sid \notin doubled', turn'[p].pc # "orphaned",
                    turn'[q].pc # "orphaned"
             PROVE  FALSE
  BY DEF OneConversation
<1>2. /\ stream[p].sid = stream[q].sid /\ stream[p].sid \in Sids \ doubled
      /\ turn[p].pc # "orphaned" /\ turn[q].pc # "orphaned"
      /\ turn[p].made \/ turn[p].pc = "create"
      /\ turn[q].made \/ turn[q].pc = "create"
  BY MadeBefore
<1>3. ~(turn[p].made /\ turn[q].made)
  BY <1>2 DEF OneConversation
<1>4. CASE turn[p].pc = "create" /\ turn[q].pc = "create"
  BY <1>2, <1>4 DEF MadeInv, Creating
<1> QED
  BY <1>1, <1>2, <1>3, <1>4

\* A session gets a second conversation only while two turns make one at the
\* same time, or after the answer to a POST was lost: for any number of
\* questions and sessions.
THEOREM OneForEachSession == Spec => []OneConversation
<1>1. Start => MadeInv /\ OneConversation
  BY DEF Start, Init, MadeInv, OneConversation, Creating
<1>2. /\ TypeInv /\ OriginInv /\ FiledInv /\ MadeInv /\ OneConversation
      /\ [Next]_vars
      => (MadeInv /\ OneConversation)'
  <2>1. ASSUME UNCHANGED vars, MadeInv, OneConversation PROVE MadeInv' /\ OneConversation'
    BY <2>1 DEF vars, client, store, history, MadeInv, Provided, OneConversation, Creating,
                Listed
  <2> QED
    BY <2>1, MadeInvKept, OneConversationKept
<1>3. ChatInv => TypeInv /\ OriginInv
  BY DEF ChatInv
<1> QED
  BY <1>1, <1>2, <1>3, ChatInvariant, FiledInvariant, PTL DEF Spec

-----------------------------------------------------------------------------
(* Answers are stored whole *)

\* A turn carries the whole answer, or nothing if its session was cleared,
\* unless strayed; the API has refused an empty text or one that is too long, and
\* stored the text of the turn.
TextInv ==
    \A q \in Questions :
        /\ turn[q].pc # "none" /\ stream[q].sid \notin strayed =>
             \/ turn[q].text = 1..stream[q].sent
             \/ turn[q].text = {} /\ stream[q].sid \in wiped
        /\ turn[q].pc = "rejected" => Cardinality(turn[q].text) \notin 1..MaxContent
        /\ \A p \in Places(q, "assistant") :
             stored[p[1]][p[2]].text = turn[q].text /\ turn[q].text # {}

\* A stream that completes on display hands over its answer, whole.
LEMMA CompletedText ==
    ASSUME TypeInv, SessionsInv, Next, NEW q \in Questions, stream[q].state = "streaming",
           stream' = [stream EXCEPT ![q].state = "complete"], stream[q].sid \notin strayed'
    PROVE  Displayed(q) = 1..stream[q].sent \/ (Displayed(q) = {} /\ stream[q].sid \in wiped)
<1> DEFINE s == stream[q].sid
<1>1. stream'[q] # stream[q]
  BY DEF TypeInv, TypeOK, AsyncOK, Streams
<1>2. activeSessionId = s /\ s \notin strayed /\ s # None
  BY <1>1, HistoryGrows, NoneIsNoId DEF TypeInv, StreamsOK
<1>3. s \in Listed /\ messages = sessionMessages[s]
  BY <1>2 DEF TypeInv, TypeOK, ViewOK, SessionsInv, DisplayAgrees
<1>4. SoundFor(q, s, messages)
  BY <1>2, <1>3 DEF SessionsInv, Sound
<1>5. CASE Has(messages, q)
  BY <1>4, <1>5, DisplayedUpToDate DEF SoundFor, UpToDate
<1>6. CASE ~Has(messages, q)
  <2>1. Displayed(q) = {}
    BY <1>6 DEF Displayed, Has
  <2> QED
    BY <1>4, <1>6, <2>1 DEF SoundFor
<1> QED
  BY <1>5, <1>6

\* A POST that begins leaves the other rows, and its own text.
LEMMA BeginTexts ==
    ASSUME TypeOK, NEW c \in Convs, NEW m \in Messages, BeginMessage(c, m),
           NEW q, NEW p \in Places(q, "assistant")'
    PROVE  \/ /\ p \in Places(q, "assistant")
              /\ stored'[p[1]][p[2]].text = stored[p[1]][p[2]].text
           \/ /\ m.q = q /\ m.role = "assistant"
              /\ stored'[p[1]][p[2]].text = m.text
<1>1. stored \in [Convs -> Seq(Messages)]
  BY DEF TypeOK, ServerOK
<1>3. stored' = [stored EXCEPT ![c] = Append(stored[c], m)]
  BY DEF BeginMessage
<1>4. /\ \A d \in Convs \ {c} : stored'[d] = stored[d]
      /\ stored'[c] = Append(stored[c], m)
  BY <1>1, <1>3
<1>5. /\ Len(stored[c]) \in Nat /\ DOMAIN stored[c] = 1..Len(stored[c])
      /\ DOMAIN stored'[c] = 1..(Len(stored[c]) + 1)
      /\ \A i \in 1..Len(stored[c]) : stored'[c][i] = stored[c][i]
      /\ stored'[c][Len(stored[c]) + 1] = m
  BY <1>1, <1>4, LenProperties, AppendProperties
<1>6. PICK d \in Convs : \E i \in DOMAIN stored'[d] :
        p = <<d, i>> /\ stored'[d][i].q = q /\ stored'[d][i].role = "assistant"
  BY PlaceIsNext
<1>7. PICK i \in DOMAIN stored'[d] :
        p = <<d, i>> /\ stored'[d][i].q = q /\ stored'[d][i].role = "assistant"
  BY <1>6
<1>8. CASE i \in DOMAIN stored[d] /\ stored'[d][i] = stored[d][i]
  <2>1. p \in Places(q, "assistant")
    BY <1>7, <1>8, PlaceIs
  <2> QED
    BY <1>7, <1>8, <2>1
<1>9. CASE stored'[d][i] = m
  BY <1>7, <1>9
<1> QED
  BY <1>4, <1>5, <1>7, <1>8, <1>9

\* A commit leaves all texts.
LEMMA CommitTexts ==
    ASSUME TypeOK, NEW c, NEW m \in Messages, CommitMessage(c, m),
           NEW q, NEW p \in Places(q, "assistant")'
    PROVE  /\ p \in Places(q, "assistant")
           /\ stored'[p[1]][p[2]].text = stored[p[1]][p[2]].text
<1>1. p \in Places(q, "assistant")
  BY CommitPlaces
<1>2. \A d \in Convs : \A j \in DOMAIN stored[d] : stored'[d][j].text = stored[d][j].text
  BY CommitMessageFields DEF TypeOK
<1>3. \E d \in Convs : \E i \in DOMAIN stored[d] : p = <<d, i>>
  BY <1>1, PlaceIs
<1> QED
  BY <1>1, <1>2, <1>3

\* Every step keeps TextInv.
LEMMA TextKept ==
    ASSUME TypeInv, SessionsInv, StoredInv, TextInv, Next
    PROVE  TextInv'
<1>1. /\ turn \in [Questions -> Turns]
      /\ strayed \subseteq strayed' /\ wiped \subseteq wiped'
  BY HistoryGrows DEF TypeInv, TypeOK, AsyncOK
<1>2. ASSUME NEW q \in Questions, turn'[q].pc # "none", stream'[q].sid \notin strayed'
      PROVE  \/ turn'[q].text = 1..stream'[q].sent
             \/ turn'[q].text = {} /\ stream'[q].sid \in wiped'
  <2>1. CASE turn[q].pc # "none"
    <3>1. stream'[q] = stream[q] /\ turn'[q].text = turn[q].text
      BY <2>1, TurnKeeps
    <3> QED
      BY <1>1, <1>2, <2>1, <3>1 DEF TextInv
  <2>2. CASE turn[q].pc = "none"
    <3>1. ASSUME NEW r \in Questions, PersistTurn(r) PROVE turn'[q] = turn[q]
      <4>1. turn' = [turn EXCEPT ![r] = turn'[r]] /\ turn[r].pc # "none"
        BY <3>1, PersistTurnFields
      <4> QED
        BY <1>1, <2>2, <4>1
    <3>2. PICK r \in Questions : /\ stream[r].state = "streaming" /\ BeginTurn(r)
                                 /\ stream' = [stream EXCEPT ![r].state = "complete"]
      BY <1>2, <2>2, <3>1, TurnSteps
    <3>3. turn' = [turn EXCEPT ![r] = turn'[r]] /\ turn'[r].text = Displayed(r)
      BY <3>2, BeginTurnFields
    <3>4. r = q
      BY <1>1, <1>2, <2>2, <3>3
    <3>5. stream'[q].sid = stream[q].sid /\ stream'[q].sent = stream[q].sent
      BY <3>2, <3>4 DEF TypeInv, TypeOK, AsyncOK, Streams
    <3>6. stream[q].sid \notin strayed'
      BY <1>2, <3>5
    <3> QED
      BY <1>1, <3>2, <3>3, <3>4, <3>5, <3>6, CompletedText
  <2> QED
    BY <2>1, <2>2
<1>3. ASSUME NEW q \in Questions, turn'[q].pc = "rejected"
      PROVE  Cardinality(turn'[q].text) \notin 1..MaxContent
  <2>1. CASE turn'[q] = turn[q]
    BY <1>3, <2>1 DEF TextInv
  <2>2. ASSUME NEW r \in Questions, stream[r].state = "streaming", BeginTurn(r)
        PROVE  turn'[q] = turn[q]
    <3>1. turn' = [turn EXCEPT ![r] = turn'[r]] /\ turn'[r].pc # "rejected"
      BY <2>2, BeginTurnFields
    <3> QED
      BY <1>1, <1>3, <3>1
  <2>3. ASSUME NEW r \in Questions, PersistTurn(r), r # q PROVE turn'[q] = turn[q]
    <3>1. turn' = [turn EXCEPT ![r] = turn'[r]]
      BY <2>3, PersistTurnFields
    <3> QED
      BY <1>1, <2>3, <3>1
  <2>4. CASE PersistTurn(q)
    <3>1. turn[q] \in Turns
      BY <1>1
    <3>2. \A pc : StepTurn(q, pc) => turn'[q].pc = pc /\ turn'[q].text = turn[q].text
      BY <1>1, <3>1 DEF StepTurn, Turns
    <3>3. turn[q].pc = "assistant" /\ ~Acceptable(Answer(q, turn[q].text, "done"))
      <4>1. ~ConversationCreated(q)
        BY <1>1, <1>3, <3>1 DEF ConversationCreated, Turns
      <4> QED
        BY <1>3, <2>4, <3>2, <4>1 DEF PersistTurn, ConversationAnswered, BeginQuestion,
              AppendQuestion, BeginAnswer, AppendAnswer, CallFails, AnswerLost
    <3>4. Cardinality(turn[q].text) \notin 1..MaxContent
      <4>1. Answer(q, turn[q].text, "done").text = turn[q].text
        BY DEF Answer, Question
      <4> QED
        BY <3>3, <4>1 DEF Acceptable
    <3>5. turn'[q].text = turn[q].text
      BY <3>3, TurnKeeps
    <3> QED
      BY <3>4, <3>5
  <2> QED
    BY <2>1, <2>2, <2>3, <2>4, TurnSteps
<1>4. ASSUME NEW q \in Questions, NEW p \in Places(q, "assistant")'
      PROVE  stored'[p[1]][p[2]].text = turn'[q].text /\ turn'[q].text # {}
  <2>1. ASSUME p \in Places(q, "assistant"), stored'[p[1]][p[2]].text = stored[p[1]][p[2]].text
        PROVE  stored'[p[1]][p[2]].text = turn'[q].text /\ turn'[q].text # {}
    <3>1. turn[q].pc # "none"
      BY <2>1 DEF StoredInv
    <3> QED
      BY <2>1, <3>1, TurnKeeps DEF TextInv
  <2>2. CASE UNCHANGED stored
    BY <2>1, <2>2, PlacesKept
  <2>3. CASE stored' # stored
    <3>1. PICK r \in Questions : PersistTurn(r)
      BY <2>3, TurnSteps DEF server
    <3> DEFINE m == Answer(r, turn[r].text, "done")
    <3>2. /\ Question(r) \in Messages /\ Question(r).role = "user"
          /\ m \in Messages /\ m.q = r /\ m.text = turn[r].text
      BY TurnFields DEF TypeInv, Question, Answer
    <3>3. ASSUME NEW n \in Messages, CommitMessage(turn[r].conv, n)
          PROVE  stored'[p[1]][p[2]].text = turn'[q].text /\ turn'[q].text # {}
      BY <2>1, <3>3, CommitTexts DEF TypeInv
    <3>4. CASE turn[r].pc = "user" /\ BeginMessage(turn[r].conv, Question(r))
      <4>1. turn[r].conv \in Convs
        BY <3>4 DEF StoredInv
      <4> QED
        BY <2>1, <3>2, <3>4, <4>1, BeginTexts DEF TypeInv
    <3>5. CASE turn[r].pc = "assistant" /\ BeginMessage(turn[r].conv, m)
      <4>1. turn[r].conv \in Convs /\ turn'[r].text = turn[r].text
        BY <3>5, TurnKeeps DEF StoredInv
      <4>3. Acceptable(m)
        BY <2>3, <3>1, <3>5 DEF PersistTurn, ConversationCreated, ConversationAnswered,
              BeginQuestion, AppendQuestion, BeginAnswer, AppendAnswer, CallFails, AnswerLost,
              server
      <4>4. m.role # "user"
        BY DEF Answer, Question
      <4>5. turn[r].text # {}
        BY <3>2, <4>3, <4>4, FS_EmptySet DEF Acceptable
      <4> HIDE DEF m
      <4>2. \/ /\ p \in Places(q, "assistant")
               /\ stored'[p[1]][p[2]].text = stored[p[1]][p[2]].text
            \/ r = q /\ stored'[p[1]][p[2]].text = turn[r].text
        BY <3>2, <3>5, <4>1, BeginTexts DEF TypeInv
      <4> QED
        BY <2>1, <4>1, <4>2, <4>5
    <3>6. \/ CommitMessage(turn[r].conv, Question(r)) \/ CommitMessage(turn[r].conv, m)
          \/ turn[r].pc = "user" /\ BeginMessage(turn[r].conv, Question(r))
          \/ turn[r].pc = "assistant" /\ BeginMessage(turn[r].conv, m)
      BY <2>3, <3>1, PersistTurnFields
    <3> HIDE DEF m
    <3> QED
      BY <3>2, <3>3, <3>4, <3>5, <3>6
  <2> QED
    BY <2>2, <2>3
<1> QED
  BY <1>2, <1>3, <1>4 DEF TextInv

\* What the API has stored of an answer is all that was received, and it has
\* refused an answer only if there was none, or it was longer than MaxContent,
\* or it was cleared away: unless an event strayed.
THEOREM AnswersAreWhole == Spec => []AnswersStoredWhole
<1>1. Start => TextInv
  <2> SUFFICES ASSUME Start PROVE TextInv
    OBVIOUS
  <2>1. \A c \in Convs : DOMAIN stored[c] = {}
    BY DEF Start, Init, InitServer
  <2>2. \A q, role : Places(q, role) = {}
    BY <2>1, PlaceIs
  <2> QED
    BY <2>2 DEF Start, Init, TextInv
<1>2. ChatInv /\ StoredInv /\ TextInv /\ [Next]_vars => TextInv'
  <2>1. ASSUME UNCHANGED vars, TextInv PROVE TextInv'
    <3>1. /\ UNCHANGED <<stored, turn, stream, strayed, wiped>>
          /\ \A q, role : Places(q, role)' = Places(q, role)
      BY <2>1, PlacesKept DEF vars, server, client, history
    <3> QED
      BY <2>1, <3>1 DEF TextInv
  <2> QED
    BY <2>1, TextKept DEF ChatInv
<1>3. TypeInv /\ StoredInv /\ TextInv => AnswersStoredWhole
  <2> SUFFICES ASSUME TypeInv, StoredInv, TextInv, NEW q \in Questions
               PROVE  /\ turn[q].pc = "rejected" =>
                           \/ stream[q].sid \in strayed \cup wiped
                           \/ stream[q].sent \notin 1..MaxContent
                      /\ stream[q].sid \notin strayed =>
                           \A p \in Places(q, "assistant") :
                               stored[p[1]][p[2]].text = 1..stream[q].sent
    BY DEF AnswersStoredWhole
  <2>1. ASSUME turn[q].pc = "rejected"
        PROVE  stream[q].sid \in strayed \cup wiped \/ stream[q].sent \notin 1..MaxContent
    <3>1. stream[q].sent \in Nat
      BY MaxTokensAssumption DEF TypeInv, TypeOK, AsyncOK, Streams
    <3>2. Cardinality(1..stream[q].sent) = stream[q].sent
      <4>1. PICK n \in Nat : n = stream[q].sent
        BY <3>1
      <4>2. Cardinality(1..n) = IF 1 > n THEN 0 ELSE n - 1 + 1
        BY <4>1, FS_Interval, 1 \in Int, n \in Int
      <4> QED
        BY <4>1, <4>2
    <3>3. turn[q].text = 1..stream[q].sent => stream[q].sent \notin 1..MaxContent
      BY <2>1, <3>2 DEF TextInv
    <3> QED
      BY <2>1, <3>3 DEF TextInv
  <2>2. ASSUME NEW p \in Places(q, "assistant"), stream[q].sid \notin strayed
        PROVE  stored[p[1]][p[2]].text = 1..stream[q].sent
    <3>1. turn[q].pc # "none"
      BY <2>2 DEF StoredInv
    <3> QED
      BY <2>2, <3>1 DEF TextInv
  <2> QED
    BY <2>1, <2>2
<1> QED
  BY <1>1, <1>2, <1>3, ChatInvariant, StoredInvariant, PTL DEF Spec

-----------------------------------------------------------------------------
(* Loaded sessions *)

\* f numbers n committed rows of conversation c, in their order, and leaves out
\* none before the last of them, except those committed late.
Chosen(n, f, c) ==
    /\ f \in [1..n -> Committed(c)]
    /\ \A i, j \in 1..n : i < j => f[i] < f[j]
    /\ \A k \in Committed(c) \ ToSet(f) : k < f[n] => <<c, k>> \in late

\* The first n messages of ms are such rows.
FromRows(n, ms, c) ==
    n > 0 => \E f : Chosen(n, f, c) /\ \A i \in 1..n : ms[i] = stored[c][f[i]]

\* The first n messages of ms, and no others, are rows that session s was
\* loaded with.
LoadedUpTo(n, ms, s) ==
    /\ \A i \in DOMAIN ms : ms[i].saved <=> i <= n
    /\ n > 0 => loadedFrom[s] \in Convs /\ FromRows(n, ms, loadedFrom[s])

LoadedPart(ms, s) == \E n \in 0..Len(ms) : LoadedUpTo(n, ms, s)

\* What a load has read is what is stored, and a session that was loaded keeps
\* its conversation: no turn makes another one for it.
LoadInv ==
    /\ \A l \in Loads, c \in Convs : FromRows(Len(load[l].detail[c]), load[l].detail[c], c)
    /\ \A s \in Sids : loadedFrom[s] # None =>
            serverId[s] = loadedFrom[s] /\ Creating(s) = {}
    /\ \A s \in Listed \ strayed : LoadedPart(sessionMessages[s], s)

\* Committed rows stay where they are.
LEMMA RowsKept ==
    ASSUME TypeInv, StoredInv, Next, NEW c \in Convs
    PROVE  \A i \in Committed(c) : i \in Committed(c)' /\ stored'[c][i] = stored[c][i]
<1> DEFINE Kept == \A i \in DOMAIN stored[c] : stored[c][i].saved =>
                      i \in DOMAIN stored'[c] /\ stored'[c][i] = stored[c][i]
<1>1. CASE UNCHANGED stored
  BY <1>1 DEF Committed
<1>2. ASSUME NEW d \in Convs, NEW m \in Messages, BeginMessage(d, m)
      PROVE  Kept
  <2>1. stored \in [Convs -> Seq(Messages)] /\ stored[c] \in Seq(Messages)
    BY DEF TypeInv, TypeOK, ServerOK
  <2>2. stored' = [stored EXCEPT ![d] = Append(stored[d], m)]
    BY <1>2 DEF BeginMessage
  <2>3. CASE c # d
    BY <2>1, <2>2, <2>3
  <2>4. CASE c = d
    <3>1. stored'[c] = Append(stored[c], m)
      BY <2>1, <2>2, <2>4
    <3>2. /\ DOMAIN stored[c] = 1..Len(stored[c]) /\ Len(stored[c]) \in Nat
          /\ DOMAIN stored'[c] = 1..(Len(stored[c]) + 1)
          /\ \A i \in 1..Len(stored[c]) : stored'[c][i] = stored[c][i]
      BY <2>1, <3>1, LenProperties, AppendProperties
    <3> QED
      BY <3>2
  <2> QED
    BY <2>3, <2>4
<1>3. ASSUME NEW d, NEW m \in Messages, CommitMessage(d, m)
      PROVE  Kept
  <2>1. /\ DOMAIN stored'[c] = DOMAIN stored[c]
        /\ \A i \in DOMAIN stored[c] : stored[c][i].saved => stored'[c][i] = stored[c][i]
    BY <1>3, CommitMessageFields DEF TypeInv, TypeOK
  <2> QED
    BY <2>1
<1>4. ASSUME NEW q \in Questions, PersistTurn(q), stored' # stored
      PROVE  Kept
  <2>1. Question(q) \in Messages /\ Answer(q, turn[q].text, "done") \in Messages
    BY TurnFields DEF TypeInv
  <2>2. turn[q].pc \in {"user", "assistant"} => turn[q].conv \in Convs
    BY DEF StoredInv
  <2>3. \/ CommitMessage(turn[q].conv, Question(q))
        \/ CommitMessage(turn[q].conv, Answer(q, turn[q].text, "done"))
        \/ turn[q].conv \in Convs /\ BeginMessage(turn[q].conv, Question(q))
        \/ turn[q].conv \in Convs
             /\ BeginMessage(turn[q].conv, Answer(q, turn[q].text, "done"))
    BY <1>4, <2>2, PersistTurnFields
  <2> HIDE DEF Kept
  <2> QED
    BY <1>2, <1>3, <2>1, <2>3
<1>5. stored' # stored => Kept
  <2> HIDE DEF Kept
  <2> QED
    BY <1>4, TurnSteps DEF server
<1> QED
  BY <1>1, <1>5 DEF Committed

\* So the choice of rows that are committed stays one: a row that comes between
\* them comes late.
LEMMA ChosenKept ==
    ASSUME TypeInv, StoredInv, Next, NEW c \in Convs, NEW n \in Nat, n > 0, NEW f,
           Chosen(n, f, c)
    PROVE  /\ Chosen(n, f, c)'
           /\ \A i \in 1..n : stored'[c][f[i]] = stored[c][f[i]]
<1>1. /\ f \in [1..n -> Committed(c)] /\ n \in 1..n
      /\ \A i, j \in 1..n : i < j => f[i] < f[j]
  BY DEF Chosen
<1>2. /\ late \subseteq late'
      /\ \A k \in Late(c) : <<c, k>> \in late'
  BY DEF Next, Observe
<1>3. ASSUME NEW k \in Committed(c)', k \notin ToSet(f), k < f[n]
      PROVE  <<c, k>> \in late'
  <2>1. CASE k \in Committed(c)
    BY <1>2, <1>3, <2>1 DEF Chosen
  <2>2. CASE k \notin Committed(c)
    <3>1. f[n] \in Committed(c) /\ f[n] > k
      BY <1>1, <1>3
    <3>2. k \in Late(c)
      BY <1>3, <2>2, <3>1 DEF Late
    <3> QED
      BY <1>2, <3>2
  <2> QED
    BY <2>1, <2>2
<1>4. f \in [1..n -> Committed(c)']
  BY <1>1, RowsKept
<1>5. \A i \in 1..n : stored'[c][f[i]] = stored[c][f[i]]
  BY <1>1, RowsKept
<1>6. Chosen(n, f, c)'
  BY <1>1, <1>3, <1>4 DEF Chosen
<1> QED
  BY <1>5, <1>6

\* What a GET returns leaves nothing out.
LEMMA ReadChosen ==
    ASSUME ServerOK, NEW c \in Convs, NEW rows \in Read(c)
    PROVE  FromRows(Len(rows), rows, c)
<1>1. CASE rows = <<>>
  BY <1>1 DEF FromRows
<1>2. ASSUME NEW f \in InOrder(c), rows = [i \in DOMAIN f |-> stored[c][f[i]]]
      PROVE  FromRows(Len(rows), rows, c)
  <2> DEFINE n == Cardinality(Committed(c))
  <2>1. /\ f \in [1..n -> Committed(c)] /\ ToSet(f) = Committed(c)
        /\ \A i, j \in DOMAIN f : i < j => f[i] < f[j]
    BY DEF InOrder
  <2>2. n \in Nat
    <3>1. Committed(c) \subseteq DOMAIN stored[c] /\ stored[c] \in Seq(Messages)
      BY DEF Committed, ServerOK
    <3> QED
      BY <3>1, RowsFinite, FS_CardinalityType
  <2> HIDE DEF n
  <2>3. DOMAIN rows = 1..n /\ \A i \in 1..n : rows[i] = stored[c][f[i]]
    BY <1>2, <2>1
  <2>4. rows \in Seq(Messages)
    BY ReadRows
  <2>5. Len(rows) = n
    BY <2>2, <2>3, <2>4, LenProperties
  <2>6. Chosen(n, f, c)
    BY <2>1 DEF Chosen
  <2> QED
    BY <2>3, <2>5, <2>6 DEF FromRows
<1> QED
  BY <1>1, <1>2 DEF Read, Answered

\* A session that keeps its messages keeps the loaded ones, if it is not new.
LEMMA LoadedKept ==
    ASSUME TypeInv, StoredInv, Next, NEW s \in Sids, s \notin used' \ used, NEW n \in Nat,
           NEW ms, LoadedUpTo(n, ms, s),
           \A i \in DOMAIN sessionMessages'[s] : sessionMessages'[s][i].saved <=> i <= n,
           \A i \in 1..n : sessionMessages'[s][i] = ms[i]
    PROVE  LoadedUpTo(n, sessionMessages[s], s)'
<1>1. loadedFrom'[s] = loadedFrom[s]
  BY LoadedFromSteps
<1>2. CASE n = 0
  BY <1>2 DEF LoadedUpTo
<1>3. CASE n > 0
  <2>1. PICK c \in Convs : c = loadedFrom[s] /\ FromRows(n, ms, c)
    BY <1>3 DEF LoadedUpTo
  <2>2. PICK f : Chosen(n, f, c) /\ \A i \in 1..n : ms[i] = stored[c][f[i]]
    BY <1>3, <2>1 DEF FromRows
  <2>3. /\ Chosen(n, f, c)'
        /\ \A i \in 1..n : sessionMessages'[s][i] = stored'[c][f[i]]
    BY <1>3, <2>2, ChosenKept
  <2>4. FromRows(n, sessionMessages[s], loadedFrom[s])'
    BY <1>1, <2>1, <2>3 DEF FromRows, Chosen
  <2> QED
    BY <1>1, <2>1, <2>4 DEF LoadedUpTo
<1> QED
  BY <1>2, <1>3

\* A listed session whose messages stay.
LEMMA LoadedSame ==
    ASSUME TypeInv, StoredInv, LoadInv, Next, NEW s \in Listed \ strayed,
           sessionMessages'[s] = sessionMessages[s]
    PROVE  LoadedPart(sessionMessages[s], s)'
<1>1. s \in Sids /\ s \in used /\ sessionMessages[s] \in Seq(Messages)
  BY DEF TypeInv, TypeOK, StoreOK
<1>2. PICK n \in 0..Len(sessionMessages[s]) : LoadedUpTo(n, sessionMessages[s], s)
  BY DEF LoadInv, LoadedPart
<1>3. n \in Nat /\ n \in 0..Len(sessionMessages'[s])
  BY <1>1, <1>2, LenProperties
<1>4. LoadedUpTo(n, sessionMessages[s], s)'
  BY <1>1, <1>2, <1>3, LoadedKept DEF LoadedUpTo
<1> QED
  BY <1>3, <1>4 DEF LoadedPart

\* A session with no row at all.
LEMMA NothingLoaded ==
    ASSUME NEW s, sessionMessages'[s] \in Seq(Messages),
           \A m \in ToSet(sessionMessages'[s]) : ~m.saved
    PROVE  LoadedPart(sessionMessages[s], s)'
<1>1. /\ Len(sessionMessages'[s]) \in Nat
      /\ DOMAIN sessionMessages'[s] = 1..Len(sessionMessages'[s])
  BY LenProperties
<1>2. 0 \in 0..Len(sessionMessages'[s]) /\ 1..0 = {}
  BY <1>1
<1>3. \A i \in DOMAIN sessionMessages'[s] : ~sessionMessages'[s][i].saved /\ ~(i <= 0)
  BY <1>1 DEF ToSet
<1>4. LoadedUpTo(0, sessionMessages[s], s)'
  BY <1>2, <1>3 DEF LoadedUpTo
<1> QED
  BY <1>2, <1>4 DEF LoadedPart

\* What sendQuery leaves of the loaded messages.
LEMMA LoadedSent ==
    ASSUME TypeInv, StoredInv, LoadInv, Next, NEW s \in Listed \ strayed, NEW q \in Questions,
           sessionMessages'[s] =
             sessionMessages[s] \o <<Question(q), Answer(q, {}, "thinking")>>
    PROVE  LoadedPart(sessionMessages[s], s)'
<1> DEFINE ms == sessionMessages[s]
           two == <<Question(q), Answer(q, {}, "thinking")>>
<1>1. s \in Sids /\ s \in used /\ ms \in Seq(Messages)
  BY DEF TypeInv, TypeOK, StoreOK
<1>2. PICK n \in 0..Len(ms) : LoadedUpTo(n, ms, s)
  BY DEF LoadInv, LoadedPart
<1>3. Question(q) \in Messages /\ Answer(q, {}, "thinking") \in Messages
  <2>1. {} \in Texts /\ "thinking" \in Statuses
    BY DEF Texts, Statuses
  <2> QED
    BY <2>1, MessageFields
<1>4. /\ two \in Seq(Messages) /\ Len(two) = 2
      /\ two[1] = Question(q) /\ two[2] = Answer(q, {}, "thinking")
  BY <1>3
<1>5. ~two[1].saved /\ ~two[2].saved
  BY <1>4 DEF Question, Answer
<1> HIDE DEF two
<1>6. /\ Len(sessionMessages'[s]) = Len(ms) + 2 /\ Len(ms) \in Nat
      /\ DOMAIN ms = 1..Len(ms) /\ DOMAIN sessionMessages'[s] = 1..(Len(ms) + 2)
      /\ \A i \in 1..(Len(ms) + 2) :
            sessionMessages'[s][i] = IF i <= Len(ms) THEN ms[i] ELSE two[i - Len(ms)]
  BY <1>1, <1>4, ConcatProperties, LenProperties DEF two
<1> HIDE DEF ms
<1>7. n \in Nat /\ n <= Len(ms)
  BY <1>6
<1>8. /\ \A i \in 1..Len(ms) : sessionMessages'[s][i] = ms[i]
      /\ sessionMessages'[s][Len(ms) + 1] = two[1]
      /\ sessionMessages'[s][Len(ms) + 2] = two[2]
  <2>1. PICK k \in Nat : k = Len(ms)
    BY <1>6
  <2>2. /\ k + 1 \in 1..(k + 2) /\ k + 2 \in 1..(k + 2)
        /\ ~(k + 1 <= k) /\ ~(k + 2 <= k) /\ (k + 1) - k = 1 /\ (k + 2) - k = 2
        /\ \A i \in 1..k : i \in 1..(k + 2) /\ i <= k
    OBVIOUS
  <2> QED
    BY <1>6, <2>1, <2>2
<1>9. \A i \in DOMAIN sessionMessages'[s] : sessionMessages'[s][i].saved <=> i <= n
  <2> SUFFICES ASSUME NEW i \in DOMAIN sessionMessages'[s]
               PROVE  sessionMessages'[s][i].saved <=> i <= n
    OBVIOUS
  <2>1. CASE i \in 1..Len(ms)
    BY <1>2, <1>6, <1>8, <2>1 DEF LoadedUpTo
  <2>2. CASE i \notin 1..Len(ms)
    <3>1. (i = Len(ms) + 1 \/ i = Len(ms) + 2) /\ ~(i <= n)
      BY <1>6, <1>7, <2>2
    <3> QED
      BY <1>5, <1>8, <3>1
  <2> QED
    BY <2>1, <2>2
<1>10. \A i \in 1..n : sessionMessages'[s][i] = ms[i]
  BY <1>7, <1>8, <1>6
<1>11. LoadedUpTo(n, sessionMessages[s], s)'
  BY <1>1, <1>2, <1>7, <1>9, <1>10, LoadedKept
<1>12. n \in 0..Len(sessionMessages'[s])
  BY <1>6, <1>7
<1> QED
  BY <1>11, <1>12 DEF LoadedPart

\* What an event of a stream leaves of them.
LEMMA LoadedEvent ==
    ASSUME TypeInv, StoredInv, LoadInv, Next, NEW s \in Listed \ strayed, NEW q \in Questions,
           StreamEvent(q), messages = sessionMessages[s], sessionMessages'[s] = messages'
    PROVE  LoadedPart(sessionMessages[s], s)'
<1>1. s \in Sids /\ s \in used /\ messages \in Seq(Messages)
  BY DEF TypeInv, TypeOK, StoreOK, ViewOK
<1>2. PICK n \in 0..Len(messages) : LoadedUpTo(n, messages, s)
  BY DEF LoadInv, LoadedPart
<1>3. PICK text \in Texts, status \in Statuses : UpdateAssistant(q, text, status)
  BY StreamEventUpdates DEF TypeInv
<1>4. /\ messages' \in Seq(Messages) /\ DOMAIN messages' = DOMAIN messages
      /\ \A i \in DOMAIN messages :
            /\ messages'[i].saved <=> messages[i].saved
            /\ messages[i].saved => messages'[i] = messages[i]
  BY <1>3, UpdateAssistantFields DEF TypeInv, IsAnswerTo
<1>5. /\ Len(messages) \in Nat /\ DOMAIN messages = 1..Len(messages)
      /\ Len(messages') = Len(messages)
  BY <1>1, <1>4, LenProperties
<1>6. n \in Nat /\ n \in 0..Len(messages')
  BY <1>5
<1>7. \A i \in DOMAIN messages' : messages'[i].saved <=> i <= n
  BY <1>2, <1>4 DEF LoadedUpTo
<1>8. \A i \in 1..n : i \in DOMAIN messages /\ messages[i].saved
  BY <1>2, <1>5 DEF LoadedUpTo
<1>9. \A i \in 1..n : messages'[i] = messages[i]
  BY <1>4, <1>8
<1>10. LoadedUpTo(n, sessionMessages[s], s)'
  BY <1>1, <1>2, <1>6, <1>7, <1>9, LoadedKept
<1> QED
  BY <1>6, <1>10 DEF LoadedPart

\* The sessions a load leaves.
LEMMA LoadedNow ==
    ASSUME TypeInv, StoredInv, OriginInv, LoadInv, Next, NEW l \in Loads, LoadEnds(l)
    PROVE  \A s \in Listed' : LoadedPart(sessionMessages[s], s)'
<1>1. PICK list \in Seq(Convs), detail \in [Convs -> Seq(Messages)] :
             /\ ReplaceSessions(list, detail)
             /\ \A c \in Convs : detail[c] = load[l].detail[c] \/ detail[c] \in Read(c)
  BY LoadEndsFields DEF TypeInv
<1>2. /\ Listed' \subseteq Sids /\ Listed' \cap used = {} /\ used' = used \cup Listed'
      /\ \A s \in Listed' :
            serverId'[s] \in Convs /\ sessionMessages'[s] = detail[serverId'[s]]
  BY <1>1, ReplaceSessionsFields DEF TypeInv, StoreOK
<1>3. ASSUME NEW c \in Convs
      PROVE  AllSaved(detail[c]) /\ FromRows(Len(detail[c]), detail[c], c)
  <2>1. CASE detail[c] \in Read(c)
    BY <2>1, ReadRows, ReadChosen DEF TypeInv, TypeOK
  <2>2. CASE detail[c] = load[l].detail[c]
    BY <2>2 DEF OriginInv, LoadInv
  <2> QED
    BY <1>1, <2>1, <2>2
<1>4. ASSUME NEW s \in Listed' PROVE LoadedPart(sessionMessages[s], s)'
  <2>1. PICK c \in Convs : c = serverId'[s] /\ sessionMessages'[s] = detail[c]
    BY <1>2
  <2>2. loadedFrom'[s] = c
    BY <1>2, <2>1, LoadedFromSteps
  <2> DEFINE n == Len(detail[c])
  <2>3. n \in Nat /\ DOMAIN detail[c] = 1..n
    BY <1>1, LenProperties
  <2>4. \A i \in 1..n : detail[c][i].saved /\ i <= n
    BY <1>3, <2>3 DEF AllSaved, ToSet
  <2>5. n \in 0..Len(sessionMessages'[s])
    BY <2>1, <2>3
  <2>6. FromRows(n, detail[c], c)
    BY <1>3
  <2> HIDE DEF n
  <2>7. ASSUME n > 0 PROVE FromRows(n, sessionMessages[s], loadedFrom[s])'
    <3>1. PICK f : Chosen(n, f, c) /\ \A i \in 1..n : detail[c][i] = stored[c][f[i]]
      BY <2>6, <2>7 DEF FromRows
    <3>2. /\ Chosen(n, f, c)'
          /\ \A i \in 1..n : sessionMessages'[s][i] = stored'[c][f[i]]
      BY <2>1, <2>3, <2>7, <3>1, ChosenKept
    <3> QED
      BY <2>2, <3>2 DEF FromRows, Chosen
  <2>8. LoadedUpTo(n, sessionMessages[s], s)'
    BY <2>1, <2>2, <2>3, <2>4, <2>7 DEF LoadedUpTo
  <2> QED
    BY <2>5, <2>8 DEF LoadedPart
<1> QED
  BY <1>4

\* Every step keeps LoadInv.
LEMMA LoadKept ==
    ASSUME TypeInv, StoredInv, OriginInv, SessionsInv, LoadInv, Next
    PROVE  LoadInv'
<1>1. /\ Listed \subseteq used /\ used \subseteq Sids /\ strayed \subseteq strayed'
      /\ activeSessionId \in Listed \cup {None}
      /\ sessionMessages \in [Sids -> Seq(Messages)]
      /\ activeSessionId # None =>
            messages = sessionMessages[activeSessionId] \/ activeSessionId \in strayed
  BY HistoryGrows DEF TypeInv, TypeOK, StoreOK, ViewOK, SessionsInv, DisplayAgrees
<1>2. ASSUME NEW l \in Loads, NEW c \in Convs
      PROVE  FromRows(Len(load[l].detail[c]), load[l].detail[c], c)'
  <2>1. load'[l].detail[c] = load[l].detail[c] \/ load'[l].detail[c] \in Read(c)
    BY LoadFields
  <2>2. load'[l].detail[c] \in Seq(Messages)
    BY LoadFields DEF Fetches
  <2>3. PICK ms \in Seq(Messages) : ms = load'[l].detail[c]
    BY <2>2
  <2>4. FromRows(Len(ms), ms, c)
    BY <2>1, <2>3, ReadChosen DEF LoadInv, TypeInv, TypeOK
  <2>5. PICK n \in Nat : n = Len(ms)
    BY LenProperties
  <2>6. CASE n = 0
    BY <2>3, <2>5, <2>6 DEF FromRows
  <2>7. CASE n > 0
    <3>1. PICK f : Chosen(n, f, c) /\ \A i \in 1..n : ms[i] = stored[c][f[i]]
      BY <2>4, <2>5, <2>7 DEF FromRows
    <3>2. Chosen(n, f, c)' /\ \A i \in 1..n : ms[i] = stored'[c][f[i]]
      BY <2>7, <3>1, ChosenKept
    <3> QED
      BY <2>3, <2>5, <3>2 DEF FromRows, Chosen
  <2> QED
    BY <2>6, <2>7
<1>3. ASSUME NEW s \in Sids, loadedFrom'[s] # None
      PROVE  serverId'[s] = loadedFrom'[s] /\ Creating(s)' = {}
  <2>1. CASE s \in used' \ used
    <3>1. serverId'[s] = loadedFrom'[s]
      BY <2>1, LoadedFromSteps
    <3>2. s \notin Listed /\ \A q \in Questions : stream[q].sid # s
      BY <1>1, <2>1, NoneIsNoId DEF OriginInv
    <3>3. Creating(s)' = {}
      BY <3>2, CreatingSteps DEF Creating
    <3> QED
      BY <3>1, <3>3
  <2>2. CASE s \notin used' \ used
    <3>1. /\ loadedFrom'[s] = loadedFrom[s] /\ serverId[s] = loadedFrom[s]
          /\ serverId[s] # None /\ Creating(s) = {}
      BY <1>3, <2>2, LoadedFromSteps DEF LoadInv
    <3>2. serverId'[s] = serverId[s]
      BY <2>2, <3>1, ServerIdSteps DEF Creating
    <3>3. Creating(s)' = {}
      BY <3>1, CreatingSteps
    <3> QED
      BY <3>1, <3>2, <3>3
  <2> QED
    BY <2>1, <2>2
<1> DEFINE Good(s) == LoadedPart(sessionMessages[s], s)'
           Part == \A s \in Listed' \ strayed' : Good(s)
<1>4. ASSUME UNCHANGED <<sessions, sessionMessages>> PROVE Part
  BY <1>1, <1>4, LoadedSame DEF Listed
<1>5. ASSUME NewChat PROVE Part
  <2>1. /\ activeSessionId' \in Sids \ used
        /\ Listed' \subseteq Listed \cup {activeSessionId'}
        /\ UNCHANGED sessionMessages
    BY <1>5, NewChatFields DEF TypeInv
  <2>2. PICK s \in Sids \ used : s = activeSessionId'
    BY <2>1
  <2>3. /\ sessionMessages'[s] = <<>> /\ sessionMessages'[s] \in Seq(Messages)
        /\ \A m \in ToSet(sessionMessages'[s]) : ~m.saved
    BY <1>1, <2>1, EmptySaved DEF OriginInv
  <2>4. Good(s)
    BY <2>3, NothingLoaded
  <2> QED
    BY <1>1, <2>1, <2>2, <2>4, LoadedSame
<1>6. ASSUME ClearChat PROVE Part
  <2>1. /\ UNCHANGED sessions
        /\ sessionMessages' = IF activeSessionId = None THEN sessionMessages
                              ELSE [sessionMessages EXCEPT ![activeSessionId] = <<>>]
    BY <1>1, <1>6 DEF ClearChat, SetSessionMessages
  <2>2. ASSUME NEW s \in Listed \ strayed PROVE Good(s)
    <3>1. CASE s = activeSessionId
      <4>1. sessionMessages'[s] = <<>> /\ <<>> \in Seq(Messages)
        BY <1>1, <2>1, <3>1, NoneIsNoId
      <4>2. \A m \in ToSet(sessionMessages'[s]) : ~m.saved
        BY <4>1, EmptySaved
      <4> QED
        BY <4>1, <4>2, NothingLoaded
    <3>2. CASE s # activeSessionId
      <4>1. sessionMessages'[s] = sessionMessages[s]
        BY <1>1, <2>1, <3>2
      <4> QED
        BY <4>1, LoadedSame
    <3> QED
      BY <3>1, <3>2
  <2> QED
    BY <1>1, <2>1, <2>2 DEF Listed
<1>7. ASSUME NEW q \in Questions, SendFirstQuery(q) PROVE Part
  <2>1. /\ StoreOK' /\ activeSessionId' \in Sids \ used
        /\ Listed' = Listed \cup {activeSessionId'}
        /\ messages' = <<Question(q), Answer(q, {}, "thinking")>>
        /\ sessionMessages' = [sessionMessages EXCEPT ![activeSessionId'] = messages']
    BY <1>7, SendFirstQueryFields DEF TypeInv
  <2>2. PICK s \in Sids \ used : s = activeSessionId'
    BY <2>1
  <2>3. /\ sessionMessages'[s] = <<>> \o <<Question(q), Answer(q, {}, "thinking")>>
        /\ sessionMessages'[s] \in Seq(Messages) /\ <<>> \in Seq(Messages)
    BY <1>1, <2>1, <2>2 DEF StoreOK
  <2>4. \A m \in ToSet(sessionMessages'[s]) : m = Question(q) \/ m = Answer(q, {}, "thinking")
    <3> DEFINE all == sessionMessages'[s]
    <3>1. all = <<>> \o <<Question(q), Answer(q, {}, "thinking")>>
      BY <2>3
    <3> HIDE DEF all
    <3>2. \A m \in ToSet(all) : m \in ToSet(<<>>) \/ m = Question(q)
                                                   \/ m = Answer(q, {}, "thinking")
      BY <2>3, <3>1, SentMessages
    <3> QED
      BY <3>2, EmptySaved DEF all
  <2>5. \A m \in ToSet(sessionMessages'[s]) : ~m.saved
    <3>1. ~Question(q).saved /\ ~Answer(q, {}, "thinking").saved
      BY DEF Question, Answer
    <3> QED
      BY <2>4, <3>1
  <2>6. Good(s)
    BY <2>3, <2>5, NothingLoaded
  <2>7. \A r \in Listed : sessionMessages'[r] = sessionMessages[r]
    BY <1>1, <2>1, <2>2
  <2> QED
    BY <1>1, <2>1, <2>2, <2>6, <2>7, LoadedSame
<1>8. ASSUME NEW q \in Questions, SendQuery(q) PROVE Part
  <2>1. /\ UNCHANGED sessions /\ activeSessionId \in Listed /\ activeSessionId \in Sids
        /\ messages' = messages \o <<Question(q), Answer(q, {}, "thinking")>>
        /\ sessionMessages' = [sessionMessages EXCEPT ![activeSessionId] = messages']
    BY <1>8, SendQueryFields DEF TypeInv
  <2>2. ASSUME NEW s \in Listed \ strayed PROVE Good(s)
    <3>1. CASE s = activeSessionId
      <4>1. sessionMessages'[s] =
              sessionMessages[s] \o <<Question(q), Answer(q, {}, "thinking")>>
        BY <1>1, <2>1, <3>1, NoneIsNoId
      <4> QED
        BY <4>1, LoadedSent
    <3>2. CASE s # activeSessionId
      <4>1. sessionMessages'[s] = sessionMessages[s]
        BY <1>1, <2>1, <3>2
      <4> QED
        BY <4>1, LoadedSame
    <3> QED
      BY <3>1, <3>2
  <2> QED
    BY <1>1, <2>1, <2>2 DEF Listed
<1>9. ASSUME NEW q \in Questions, StreamEvent(q) PROVE Part
  <2>1. PICK text \in Texts, status \in Statuses : UpdateAssistant(q, text, status)
    BY <1>9, StreamEventUpdates DEF TypeInv
  <2>2. /\ sessionMessages' = [sessionMessages EXCEPT ![stream[q].sid] =
                                    IF stream[q].sid \in Listed THEN messages' ELSE @]
        /\ UNCHANGED sessions
    BY <2>1, UpdateAssistantFields DEF TypeInv
  <2>3. activeSessionId # stream[q].sid => stream[q].sid \in strayed'
    BY <1>9, EventStream, HistoryGrows DEF TypeInv
  <2>4. ASSUME NEW s \in Listed \ strayed' PROVE Good(s)
    <3>1. CASE s = stream[q].sid
      <4>1. s = activeSessionId /\ s # None /\ s \in Listed \ strayed
        BY <1>1, <2>3, <3>1, NoneIsNoId
      <4>2. messages = sessionMessages[s] /\ sessionMessages'[s] = messages'
        BY <1>1, <2>2, <3>1, <4>1
      <4> QED
        BY <1>9, <4>1, <4>2, LoadedEvent
    <3>2. CASE s # stream[q].sid
      <4>1. sessionMessages'[s] = sessionMessages[s]
        BY <1>1, <2>2, <3>2
      <4> QED
        BY <1>1, <4>1, LoadedSame
    <3> QED
      BY <3>1, <3>2
  <2> QED
    BY <2>2, <2>4 DEF Listed
<1>10. ASSUME \/ UNCHANGED <<store, view, isLoading, stream>>
              \/ \E s \in Sids : SelectSession(s)
              \/ \E q \in Questions : ConversationAnswered(q)
       PROVE  UNCHANGED <<sessions, sessionMessages>>
  BY <1>10 DEF store, SelectSession, ConversationAnswered
<1>11. ASSUME NEW l \in Loads, LoadEnds(l) PROVE Part
  BY <1>11, LoadedNow
<1>12. Part
  BY <1>4, <1>5, <1>6, <1>7, <1>8, <1>9, <1>10, <1>11, ClientSteps
<1> QED
  BY <1>2, <1>3, <1>12 DEF LoadInv

\* The messages a session was loaded with come before all others, and are
\* committed rows of its conversation in their order, whatever is asked, stored
\* and loaded meanwhile; none before the last of them is left out but those
\* that a POST committed late.
THEOREM LoadedStaysStored == Spec => []LoadedIsStored
<1>1. Start => LoadInv
  <2> SUFFICES ASSUME Start PROVE LoadInv
    OBVIOUS
  <2>1. Listed = {}
    BY EmptySaved DEF Start, Init, Listed
  <2>2. \A l \in Loads, c \in Convs : Len(load[l].detail[c]) = 0
    BY DEF Start, Init
  <2> QED
    BY <2>1, <2>2 DEF Start, Init, LoadInv, FromRows
<1>2. ChatInv /\ StoredInv /\ LoadInv /\ [Next]_vars => LoadInv'
  <2>1. ASSUME UNCHANGED vars, LoadInv PROVE LoadInv'
    <3>1. UNCHANGED <<stored, load, loadedFrom, serverId, sessions, strayed, sessionMessages,
                      stream, turn, late>>
      BY <2>1 DEF vars, server, client, store, history
    <3> QED
      BY <2>1, <3>1 DEF LoadInv, FromRows, Chosen, Committed, Creating, Listed, LoadedPart,
                        LoadedUpTo
  <2> QED
    BY <2>1, LoadKept DEF ChatInv
<1>3. TypeInv /\ LoadInv => LoadedIsStored
  <2> SUFFICES ASSUME TypeInv, LoadInv, NEW s \in Listed \ strayed
               PROVE  LET ms == sessionMessages[s]
                          c == serverId[s] IN
                      \E n \in 0..Len(ms) :
                        /\ \A i \in DOMAIN ms : ms[i].saved <=> i <= n
                        /\ n > 0 => \E f \in [1..n -> Committed(c)] :
                            /\ \A i \in 1..n : ms[i] = stored[c][f[i]]
                            /\ \A i, j \in 1..n : i < j => f[i] < f[j]
                            /\ \A k \in Committed(c) \ ToSet(f) : k < f[n] => <<c, k>> \in late
    BY DEF LoadedIsStored
  <2>1. s \in Sids
    BY DEF TypeInv, TypeOK, StoreOK
  <2>2. loadedFrom[s] \in Convs => serverId[s] = loadedFrom[s]
    BY <2>1, NoneIsNoId DEF LoadInv
  <2>3. PICK n \in 0..Len(sessionMessages[s]) : LoadedUpTo(n, sessionMessages[s], s)
    BY DEF LoadInv, LoadedPart
  <2> QED
    BY <2>2, <2>3 DEF LoadedUpTo, FromRows, Chosen
<1> QED
  BY <1>1, <1>2, <1>3, ChatInvariant, StoredInvariant, PTL DEF ChatInv, Spec
=============================================================================
