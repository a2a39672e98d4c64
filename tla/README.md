# Synapse in TLA+

Synapse answers questions over a company's documents: a FastAPI backend
(`src/backend/app`) with PostgreSQL, Redis, Neo4j and Ollama, Celery workers
that ingest sources, and a Next.js client (`src/frontend/src`). These modules
specify the parts of it whose correctness depends on what happens *between* the
steps of concurrent requests; TLC checks them on small instances and TLAPS
proves the main invariants for every size.

## 1. The system

`backend/app/api/router.py` mounts `auth`, `query`, `conversations`, `health`
and the admin routers; what is not mounted there (`api/v1/users.py`,
`api/v1/sources.py`, `api/v1/audit.py`, most of `services/`, the rate limiter)
is dead code and out of scope.

| Part | State | Operations | Correct when |
|---|---|---|---|
| Sessions (`core/auth.py`, `api/deps.py`, `api/v1/auth.py`) | `user_sessions` rows, `session:<sid>` keys in Redis, tokens held by clients | login, authenticate a request, logout, revoke all sessions of a user, expiry, clean-up | a revoked session is not admitted; what is cached is live; an admission shows the caller's present role and permissions |
| User and role administration (`admin/users.py`, `admin/roles.py`) | `users`, `roles` | create, update, soft-delete a user; edit a role's permissions | a role change ends the sessions; somebody can always administer |
| Audit log (`core/audit_logger.py`, `admin/audit.py`) | `audit_logs`, `document_chunks`, graph | append, list, erase a user | an answered query has one true row; an erasure with a row is whole |
| Ingestion (`tasks/ingest.py`, `admin/sources.py`, `workers/`, `connectors/`) | `data_sources`, `ingestion_jobs`, the broker's queue, `document_chunks`, the graph | create and delete a source, sync now, scheduled sync, attempt, retry, crash, redelivery | no task is lost silently; a job's counts are backed by chunks; a chunk carries its document's tag; nothing is ingested from a deleted source |
| Schema and seed script (`alembic/versions`, `scripts/seed_demo_data.py`) | tables, columns, indexes, the demo rows | upgrade, downgrade, seed | every revision applies both ways; running the script again undoes nobody's work |
| Query pipeline (`api/v1/query.py`, `core/query_engine.py`, `core/llm_client.py`, `db/postgres.py`) | the connection pool, one answer for each request | admit, search, build the prompt, generate with retries, stream, route to an expert, audit | answered from the best the caller may read; events in order, `complete` or `error` at the end; one true audit row; the pool never deadlocks |
| Conversations (`api/v1/conversations.py`) | `conversations`, `conversation_messages` | create, append, rename, read | a turn is stored once, in order, under its owner |
| Chat client (`store/chat-store.ts`, `lib/api-client.ts`) | sessions, messages on display, loading flag | send, receive events, switch, new, clear, load, persist | a message stays in its session; one conversation for each session; loading ends |
| Pure algorithms (`vector_search.py`, `prompt_builder.py`, `citation_builder.py`) | none | rank permitted chunks, build a prompt within a budget, citations | the best chunks that fit, every document cited once |

The parts meet in the database: a request of any endpoint first runs
`get_current_user` (sessions, users, roles); administration writes the rows
that authentication reads; `revoke_all_sessions_for_user` is called from both
admin modules; ingestion writes the chunks the query pipeline searches; the
chat client calls the query stream and the conversations API; the seed script
runs the same pipeline as the workers, on the tables of the revisions; the
erasure of an author deletes what ingestion writes.

What makes this hard: the backend is asyncio code, so any other request may run
at every `await`; Redis and PostgreSQL are written one after the other, never
together; administrators act at the same time; a request can be dropped at any
await; workers retry and are redelivered; the client keeps working on a session
while the user has switched to another.

## 2. The modules

| Module | What it is |
|---|---|
| `Sessions` | The tables, Redis, and one record per handler (a request in service) with its step `pc` and its local variables. One action for each stretch of code between two awaits. |
| `UserAdmin` | The endpoints of `admin/users.py` and `admin/roles.py`, as further steps of the same handlers. |
| `AccessControl` | The composition of the two: `Next`, fairness, history variables, the properties. |
| `SessionService` | The abstract specification of `AuthService`, which `AccessControl` implements: sessions that are issued once and end for good, callers that ask about them. |
| `MCAccessControl` | Small sets of calls for TLC, the three scenarios of run `access`, and the symmetry. |
| `AccessControlProofs`, `LastAdminProofs` | The inductive invariant and the theorems; how the last administrator may be lost. |
| `Conversations` | The chat history in the backend: conversations and their messages; the POST of a message is its begin and its commit. |
| `ChatStore` | The chat client over `Conversations`: the store, the events of the streams, `persistTurn`, `loadConversations`. |
| `Chat` | The two composed: `Next`, fairness, history variables, the properties. |
| `MCChat` | The symmetry of the instances, and a bound on the clearing of sessions. |
| `SequenceLemmas`, `ChatProofs`, `ChatTurnProofs` | Facts about sequences and about loops; the invariants and the theorems, those about turns apart. |
| `Ingestion` | Sources, jobs, the broker, the Celery task with its retries, the pipeline into chunks and graph, the erasure of an author. |
| `Schema` | The four Alembic revisions, up and down, operation by operation; what the seed script adds; what the models need besides. |
| `Platform` | The two composed with the seed script, the workers, the operator and the administrators: `Next`, history variables, the properties. |
| `MCPlatform`, `SchemaProofs`, `PlatformProofs` | A small instance; what the revisions do to any database, one lemma for each way of each; the invariants and the theorems. |
| `Answers` | The pure functions of the query pipeline: search, prompt, citations. |
| `Query` | The requests of `POST /query` and `GET /query/stream` over one pool of connections, the graph and the LLM: actions, fairness, properties. |
| `AnswerStream` | The abstract specification of a stream, which `Query` implements. |
| `MCQuery`, `QueryProofs` | A small instance; the invariants, the theorems and the proof of the refinement. |

A definition named as a mutant in its comment is a plausible bug in the
operator that follows it. `PROJECT.json` pairs it with a property that a run
then finds violated; the specifications do not use it.

### Access control: state

| Variable | In the code |
|---|---|
| `account`, `userRole`, `active` | `users`: existence and `is_deleted`, `role_id`, `is_active` |
| `perms` | `roles.permissions`; a list is one value of `Tags` |
| `row` | a row of `user_sessions`: not yet inserted, active, `is_active = FALSE`, deleted |
| `owner`, `claims` | `user_sessions.user_id` (also the token's `sub`), and the permissions written into the token |
| `redis` | the ids for which `session:<sid>` exists |
| `expired` | sessions past `SESSION_EXPIRE_HOURS` |
| `held` | sessions whose token was returned to a client |
| `audit` | `audit_logs`, as a set of action and subject |
| `req[h]` | the request in handler `h`: endpoint, step, token's session and user, what it has read, its body |
| `hist`, `raced`, `missed` | history, read by no action: what was true since the request arrived; sessions on which a cache write and a revocation overlapped; logins committed since the UPDATE of a request that is about to commit it |

### Access control: actions

`Authenticate`, `InsertSession`, `CacheNewSession`, `RespondLogin` are
`POST /auth/login`. `Receive` starts any other request with a token a client
holds; `CheckCache`, `LoadSession`, `Recache` are the three awaits of
`validate_session`, `LoadUser` and `LoadRole` the two SELECTs of
`db.get(User, ...)` with its `selectin` role. `LogoutKey`, `LogoutRow`,
`LogoutDelete` are `POST /auth/logout`. `SelectSessions`, `DeleteKey` (once for
each row, in any order), `UpdateSessions` and `CommitRevocation` are
`revoke_all_sessions_for_user`, entered from `update_user`, `delete_user` and
the loop of `patch_role_permissions`. `Abort` is an exception or a lost client
at any await: what the request had not committed is gone, the rest stays.

Choices that matter:

- **The INSERT or UPDATE of one row by its key and the COMMIT after it are one
  action.** Under READ COMMITTED nobody sees the first without the second, and
  which row it is does not depend on the time. The UPDATE of all sessions of a
  user is another matter: a login committed between it and its COMMIT is not
  among its rows, so `UpdateSessions` and `CommitRevocation` are two actions.
  So are `delete_user`'s count and its commit.
- **What SQLAlchemy writes.** The session factory has `autoflush=False` and
  `expire_on_commit=False`. A column is written only if the new value differs
  from the loaded one (`FlushUser`, `CommitDelete`, `CommitPerms`); the
  caller's own user and role may still be in the identity map, which is weak, so
  an endpoint that loads them again gets either what `get_current_user` read or
  the row (`cached` in `LoadTarget` and `LoadPatchedRole`); the new role of
  `update_user` is flushed by the first commit after it, the one *inside*
  `revoke_all_sessions_for_user`.
- **One use of `body.target`.** The role editor's loop variable is kept there,
  since `revoke_all_sessions_for_user` takes the user as an argument.
- `authenticate`'s SELECTs of the user and its role are one action: the role
  read there only reaches the token, and no code reads a token's claims but
  `sub` and `sid`.
- A token and its row expire in one step (`expires_at` and `exp` are computed
  from the same setting within one call). The TTL of a Redis key, a restart of
  Redis and the eviction `allkeys-lru` of `docker-compose.yml` are all
  `EvictKey`: a key may go at any time, and never has to.
- Not inputs: an unknown role (400 before anything is written), edits of the
  display name alone (no state of the model), unknown users other than absent
  accounts. `POST /auth/refresh` is left out: `login` stores the refresh token
  and never returns it, so no client has one.

### Chat: state

| Variable | In the code |
|---|---|
| `recent` | `conversations` of the user, as `GET /conversations` orders them (`updated_at` descending) |
| `stored` | `conversation_messages` of a conversation by `created_at`; `saved` are those that are committed |
| `sessions` | the ids in `sessions` of the store, in the order of the side bar |
| `used` | local ids ever made (`crypto.randomUUID`) |
| `serverId`, `sessionMessages` | the fields `serverId` and `messages` of a session |
| `activeSessionId`, `messages`, `isLoading` | the fields of the same names: the session on display, the *copy* of its messages, the flag that blocks the input |
| `stream[q]` | `queryStream` for question `q`: its state, the session `sendQuery` has captured, how many tokens it has delivered |
| `turn[q]` | `persistTurn` for `q`: its step, the conversation, the answer's text it has captured |
| `load[l]` | a call of `loadConversations`: its step, the list, which details are missing, those it has |
| `strayed`, `wiped`, `loadedFrom`, `doubled`, `late` | history, read by no action: sessions that got an event while not displayed; cleared by the user; loaded from which conversation; with two POSTs of a conversation at once; rows committed when a row behind them already was |

### Chat: actions

`SendFirstQuery` and `SendQuery` are `sendQuery` without and with an active
session, `NewChat`, `SelectSession`, `ClearChat` the operations of the same
names. `OnRetrieval`, `OnToken`, `OnComplete`, `OnError` are the callbacks
`sendQuery` gives to `queryStream`. `OnComplete` runs `persistTurn` up to its
first await; `ConversationCreated` and `ConversationAnswered` (backend and
client side of `POST /conversations`), `BeginQuestion`, `AppendQuestion`,
`BeginAnswer`, `AppendAnswer` (begin and commit of the two POSTs of messages),
`CallFails`, `AnswerLost` are the rest. `StartLoad`, `ListAnswered`,
`DetailAnswered`, `LoadFails` are `loadConversations`.

Choices that matter:

- **One action is one JavaScript callback,** to its end: nothing else runs in
  the browser meanwhile. Where a call of the API changes the backend and its
  answer changes the store, these are two actions (`ConversationCreated`,
  `ConversationAnswered`); where the answer changes nothing but the program
  counter they are one.
- **Messages are read in the order in which their transactions began.**
  `created_at` is `now()`, the time of the first statement of the transaction,
  which is the SELECT of `get_current_user`. `BeginMessage` takes the place in
  the conversation, `CommitMessage` makes the row visible; two POSTs that
  overlap may be committed in either order. `Listing` is cut at `ListLimit`
  (50), and a POST takes contents of at least one and at most `MaxContent`
  tokens (16000 characters).
- **A text is the set of the tokens it was put together from.** Tokens are
  appended, each stream delivers them in order, so a set says whether one is
  lost, or doubled across streams, and stays small. An error message has none.
- **Only an answer that is not `saved` can be updated:** `updateAssistant`
  looks for the local id of its placeholder, and messages from the server have
  the server's.
- **Titles are left out.** The PATCH of a title is reached only while the title
  is still "New conversation", and `sendQuery` has replaced it by then.
- A stream ends in `onComplete` or in `onError`. A body that ends cleanly and
  without either would need a server that closes a stream it has not
  finished, which uvicorn and the proxy signal as a broken body (`onError`).
- One user is signed in throughout; the check of the owner in
  `conversations.py` and signing out are not modelled.
- `MaySend`: while `isLoading` the input is disabled, but the suggestions of an
  empty chat are not, so two streams can be open.

### Platform: state

| Variable | In the code |
|---|---|
| `source` | `data_sources` of an id: no row, active, or paused with `is_deleted` |
| `job` | `ingestion_jobs`: `status`, `source_id`, `documents_processed`, `chunks_processed`; "free" is no row |
| `publishing` | jobs that `sync_now` has committed and not yet handed to `ingest_source.delay` |
| `queue` | messages in the broker: source, job or none, retries so far; `copy` tells one that was delivered again from the first |
| `run[r]` | what a worker process or the seed script is at in `_run_pipeline`: step, message, job, next document, chunks so far, the document it has read; `owned`: the broker would deliver the message again |
| `driverUp` | the worker processes have called `init_neo4j` |
| `file` | the files of the mock connector's directories: permission tag and number of chunks |
| `chunks`, `documents`, `authored`, `persons` | rows of `document_chunks` by document and `chunk_index` (the permission tag, or none), Document nodes, AUTHORED edges, Person nodes |
| `erasure` | progress of `gdpr_erase_user` for an author |
| `revision`, `objects` | `alembic_version`; tables, indexes and added columns |
| `seedStep`, `seedResult`, `roles`, `users` | the step of `seed_demo_data.py`, how its last run ended, the rows it inserts |
| `allowed`, `crashes`, `edits` | bounds: the disturbances of a behaviour and how many there were |
| `gaveUp`, `redelivered`, `edited`, `torn`, `reingested` | history, read by no action but `Observe` |

### Platform: actions

`CreateSource`, `DeleteSource`, `SyncNow` and `Publish` (or `PublishFails`) are
the endpoints of `admin/sources.py`; `ScheduledSync` is `sync_all_sources`.
`Take` is the delivery of a message to a worker. `StartJob`, `ReadDocument`,
`UpsertChunks`, `UpdateGraph`, `Progress`, `Complete` are `_run_pipeline`, one
action for each of its commits; `Retry` and `GiveUp` are `self.retry` with
retries left and without, `Return` the acknowledgement; `Crash` is a lost worker
process, `Redeliver` the broker's visibility time-out. `EraseChunks`,
`ErasePerson`, `EraseAudited`, `EraseFails` are `gdpr_erase_user`. `Upgrade` and
`Downgrade` run the operations of the revisions; `SeedUpgrades` to
`SeedFinishes` are `seed_demo_data.py` in its order.

Choices that matter:

- **The driver.** `init_neo4j` is called by the start-up of the FastAPI
  application and by `seed_demo_data.py`; nothing calls it in a Celery worker.
  `driverUp` has both values: without it (the repository as it is) no attempt
  of a worker gets past its start; with it the rest of the task can be examined.
- **Retries.** With `exc` given, `self.retry` raises `exc` itself when the
  retries are used up, so that `_fail_job` is not reached (finding 4).
  `JobsAccounted` accounts for every job that is left that way.
- **`acks_late` and `reject_on_worker_lost`**: a message is removed when the
  attempt is over. A crash may come before or after the retry was published.
- **Upsert.** `ON CONFLICT` updates text and embedding and not
  `permission_tag`; rows past a document's new end stay.
- **Default tags.** The mock connector gives a document without a tag
  `engineering` and leaves an empty one empty; only the latter gets the default
  of its source.
- **The tables of the revisions are not those of the models.** `ByHand` lists
  the columns of the models that neither a revision nor the script adds, and
  `Misfits` the columns whose type or NOT NULL refuses what the models write
  (`varchar` for `uuid`, `json` for `text[]`). The tests use `create_all` on
  SQLite and see none of it. The API works after `OperatorAlters` only.
- `seed_data.py` is run by nothing and left out: the Makefile runs
  `seed_demo_data.py`.

### Query: state

| Variable | In the code |
|---|---|
| `pc[q]` | the step of the request; `searching` while `VectorSearchService.search` holds its own session |
| `corpus` | the rows of `document_chunks`: url, tag, similarity to the question in percent, tokens |
| `held` | requests whose `AsyncSession` of `get_db` holds a connection |
| `chunks[q]`, `searched` | what the search returned; whether the database answered it |
| `attempt[q]`, `got[q]` | the attempt of tenacity or of `generate_stream`, tokens received in it |
| `answer[q]`, `sent[q]` | the answer's tokens, the events of a stream |
| `unavailable` | requests whose LLM was not available: a POST is answered with an empty text, a stream with an error event |
| `expert[q]`, `audit[q]` | the suggested expert; the rows of `audit_logs` |

### Query: actions

`GetCurrentUser` to `EnrichFails` are admission, `QueryEngine`'s search and
graph; `Generate`, `GenerateTimesOut`, `GenerateUnavailable` are
`LLMClient.generate` under tenacity, `GenerateStream`, `StreamTimesOut`,
`StreamCompletes`, `StreamUnavailable` are `generate_stream`; `LLMBreaks` is any
exception neither handles; `FindExpert` is `ExpertRouter`; `LogQuery`,
`LogQueryTimesOut`, `LogQueryFails` are `AuditLogger.log_query` and the end of
the request; `Disconnect` cancels the task of a stream.

Choices that matter:

- **Who holds a connection.** `get_current_user` opens a transaction in the
  session of `get_db`. A POST keeps it through search and LLM, and its search
  takes a second connection of the same pool. FastAPI closes dependencies with
  `yield` before the body of a `StreamingResponse` is sent, so a stream holds
  none; its audit row begins a new transaction in the closed session, which
  `refresh` after the commit leaves open until the session is collected
  (`Collect`).
- **A chunk is a record of what the pipeline compares**; ties of the ranking may
  come in any order, as in the SQL.
- **The stream starts again from the first token** after a time-out, and what
  was sent stays in the answer: `answer` keeps both runs, and the properties
  say what is promised of the last.

## 3. What is checked

| Run | Instance | Checks |
|---|---|---|
| `access` | 2 users, 2 sessions, 2 handlers, 2 permission lists; three scenarios, see the bounds | `TypeOK`, `RevocationHolds`, `CacheBacked`, `AdmissionIsCurrent`, `RoleChangeRevokes`, `OnlySelfDeactivation` |
| `eventually` | 1 user, 1 session, 2 handlers, all faults, fairness | `SessionsAsPromised`, `RevokedEventuallyOut` |
| `logout_is_final` | 1 user, 1 session, 2 handlers | violated: finding 1 |
| `delete_keeps_an_admin` | 2 users, 2 handlers, deletions | violated: finding 2 |
| `chat` | 2 questions of up to 2 tokens, 2 sessions, 2 conversations; all clicks, one clearing; streams and POSTs fail | `SessionsKeptApart`, `DisplayAgrees`, `NoTokenLost`, `StoredOnce`, `AnswersStoredWhole`, `OneConversation`, `FiledWithItsSession` |
| `chat_load` | 2 questions of 1 token, 3 session ids, at most 2 listed, 2 conversations, 1 load; GETs fail | `TypeOK`, `DisplayAgrees`, `FiledWithItsSession`, `LoadedIsStored` |
| `chat_loading` | 2 questions, 2 session ids, 1 listed, 1 conversation, 1 load, all faults, fairness | `LoadingEnds` |
| `finalized` | 2 questions of 1 token, 2 sessions, no faults | violated: finding 3 |
| `platform` | 2 workers and the seed script, 1 source of 2 documents of 2 authors, 7 jobs, 1 retry; one kind of disturbance at a time: crash or redelivery, schedule and deletion, errors, edits of files, edits of demo rows, erasure, downgrades | `TypeOK`, `CountsAreBacked`, `JobsAccounted`, `StoreMirrorsFiles`, `AuditedErasureHolds`, `GraphFollows`, `MigrationsApply`, `CompletedIsFinal`, `DeletedIsQuiet`, `SeedKeepsChanges` |
| `query` | 2 of 3 requests (2 POSTs with different tags, 1 stream), pool of 2, 3 chunks of 2 documents, 2 tokens, every failure, fairness | `TypeOK`, `AnsweredFromTheBest`, `AuditTellsTheAnswer`, `StreamsAsPromised`, `RequestsEnd` |
| `failure_recorded` | the instance of `platform`, errors only | violated: finding 4 |
| `seed_works` | the instance of `platform`, no disturbance | violated: finding 5 |

`CHECK_DEADLOCK FALSE` everywhere: session ids, questions, local ids, jobs and
requests are finite sets, so once each has been used there is nothing left to
do; a real system idles. That no request waits for ever for a connection is
`RequestsEnd`.

**Bounds, access control.** `Sids` bounds the number of logins, `Handlers` the
number of requests in service at once, `Users`, `Roles`, `Tags` the tables. Two
handlers are enough for each race the code has: all of them are between one
reader or writer of a key and one revocation. Two sessions let a revocation of
all sessions have one done and one to do, and let a login overlap it. Two users
are an administrator and a target, or two administrators acting on each other.
`Calls` picks the endpoints of an instance. The run `access` has three
scenarios, told apart by the initial state and kept by `ScenarioNext`, since all
endpoints with all faults at once are too many states: `Managed`, all calls on
accounts with requests dropped at any await, one request at a time; `Alone`, one
administrator whose sessions are used, logged out and revoked by edits of the
role, with evictions, in two handlers; and two users, at least one an
administrator, who demote and deactivate each other while sessions are used.
What combines them is covered by the theorems, which are about `Next`.

**Bounds, chat.** Each question is asked once; `Sids` bounds the local ids that
are ever made, `Convs` the conversations, `MaxTokens` an answer, `MaxSessions`
the side bar (30 in the code), `Loads` the loads under way, `Clicks` and
`Faults` what the user and the network do in an instance. Two questions in two
sessions are two streams and two turns that overlap in every way; two tokens
tell an answer that is cut from one that is whole; three ids let a load replace
two sessions or a new chat cut one off. `MaxContent` of one makes an answer of
two tokens too long for the API, `ListLimit` of one cuts the listing. In `chat`
the user clears one session, once (`ClearsOnce`). The theorems below hold for any
bounds, and for `Next` without that one.

**Bounds, platform.** `MaxJobs`, `MaxCrashes`, `MaxEdits`, `MaxSize` and
`MaxRetries` (3 in the code) bound the rows and the faults; `Reserve` leaves a
job for each attempt of a message without one. Two workers are a message and its
second delivery, or a message and its retry; two documents of two authors let an
attempt end between documents, between the stores of one, and an erasure take
one of them; `ProgressEvery = 2` (50) makes progress commits happen; `MinChunks`
and `MinPersons` (200 and 4) of one let the seed script end either way.
`Disturbances` keeps the kinds of faults apart: each behaviour has all
interleavings of one kind (deletions with the schedule); behaviours with several
are covered by the theorems, which assume nothing of `Disturbances`. With two
crashes and nine jobs the crash behaviours alone have 1.6 million states; they
pass too, in longer than a run should take.

**Bounds, query.** `MaxRequests` of two over a pool of two make both the lack of
a connection and the wait of two POSTs for each other happen; the three chunks
have a tie at the cut of `TopK` and a second chunk of one document; the
overheads of the prompts leave room for some, all or none of them, before the
`Addendum` of a low confidence and the `GraphTokens` of what the graph adds are
taken off. A `Preview` of one token cuts the answer of two.

**Fairness.** `AccessControl!FairSpec`: weak fairness of each handler's next
step, because the event loop resumes every coroutine whose await has completed;
that PostgreSQL and Redis answer, or break the connection, is assumed, for
neither driver is given a time-out; weak fairness of `Expire`, because eight
hours pass. `Chat!FairSpec`: weak fairness of each stream's events, because the
browser delivers what the server sends, the server sends a finite answer, and a
broken connection is an event too. Clients, evictions, the clean-up task, turns,
loads and failures are not fair: nothing depends on their happening.
`Query!Spec`: weak fairness of `Advance` for each request, the steps without
failures, because the pool and httpx have time-outs and an answer ends with
`num_predict`; a statement of asyncpg and a read of Neo4j have none, and are
assumed to answer; a connection that is lacking is not waited for longer than
the pool's time-out, which is itself such a step. Failures, clients that leave
and the garbage collector are not fair. `Platform` states none: its properties
are about what has happened, and what a task's end would promise is refuted by
findings 4 and 5.

**Properties, access control.** `RevocationHolds`: a request that *arrives*
after its session's row was revoked is admitted only if a cache write and a
revocation had overlapped on that session (`raced`). It is as strong as the code
allows: without the exception it is finding 1. `CacheBacked`: a key stands for
an active row, an expired session or a raced one. `AdmissionIsCurrent`: what
`get_current_user` returns was true at some time during the request.
`RoleChangeRevokes`: a step that writes a role leaves no session of that user
active, except those of logins committed between the UPDATE of the sessions and
the commit (`missed`). `OnlySelfDeactivation`: the checks protect the last
administrator, except from `is_active` on oneself, which `update_user` lets
through, and from requests whose caller was an administrator when it was
admitted and is none any more, which is finding 2 and its like.
`RevokedEventuallyOut`: a key written back by a race does not live for ever in
effect, since the token dies with the row. `SessionsAsPromised` is the
refinement: `AccessControl` implements `SessionService` under the mapping in
`Promised`. The row is the life of a session, a request in `get_current_user` is
a caller that asks, and `raced` are the sessions about which the service
promises no more; it may spoil one only while somebody is about to end it.
Without that exception it is finding 1. The refinement says what the invariants
do not: that a session ends only by a revocation or by age, that the answer to a
request belongs to the session it asked about, and that an admission is not
taken back.

**Properties, chat.** `SessionsKeptApart`, `DisplayAgrees` and `NoTokenLost`
say that sessions, display and streams agree although the store keeps the
messages on display twice: each has the one exception the code makes
(`strayed`), and `finalized` shows the exception to be needed. `StoredOnce`: a
turn is never stored twice, the answer after its question. `AnswersStoredWhole`:
what is stored of an answer is the whole of it, and the API refuses one only
if it was empty, too long, cleared or strayed. `OneConversation`: a
session gets a second conversation only while the first is being made, or if
the answer to the first POST was lost. `FiledWithItsSession`: a turn goes to the
conversation of its own session, however late the API answers.
`LoadedIsStored`: a loaded session begins with rows of its conversation in their
order, and of the rows before the last of them it misses only such as were
committed `late`, by a POST that overlapped another.
`LoadingEnds`: the input is unblocked again.

**Properties, platform.** `JobsAccounted`: a job that is not completed is on its
way, or the history says why it is not. `CompletedIsFinal`: only a redelivery
sets a completed job back to running. `CountsAreBacked`: the count of a job is
of chunks that are there, whichever of its attempts wrote it. `DeletedIsQuiet`:
of a deleted source only those attempts go on that are past its check, in every
state: no other passes it, and no job changes its status but by one of them.
`GraphFollows` and `AuditedErasureHolds` relate the stores, each with the
exceptions the missing transaction makes (`torn`, `reingested`).
`StoreMirrorsFiles`: a chunk is readable with its document's own tag, unless the
document was edited, for then the old tag stays. `MigrationsApply`: from every
state reached, the next upgrade and downgrade apply, and no table refers to one
that is gone. `SeedKeepsChanges`: what the script leaves alone when it is run
again.

**Properties, query.** `AnsweredFromTheBest`: chunks, prompt and citations against
what they amount to, for each caller's permissions. `AuditTellsTheAnswer`: one
row for each answered request, none for others, with the beginning of the answer
(`answer_preview`, 500 characters) and the true count; the exceptions are a
stream whose client leaves before the row, and tokens told twice by a second
attempt. `StreamsAsPromised` is the refinement: `Query` implements `AnswerStream`
under the mapping in `Promised`, where a stream's stage is read off the events
it has sent and its step. `RequestsEnd`: no request waits for ever, although
each POST may wait for a connection that others of its kind hold; without the
pool's time-out (the mutant `SearchWaits`) TLC finds the deadlock.

**Findings.** (1) `validate_session` may write a key back after a logout or a
revocation deleted it; the session is then accepted until the token expires,
although `test_auth_flow.py` and the design documents say it is refused.
(2) The count that protects the last administrator is not atomic with the
deletion. (3) `updateAssistant` stores the messages on display as those of the
session the question was asked in: an event that comes after the user has
switched overwrites that session. In the same way `onComplete` persists what is
on display; if the answer is not, the text is empty, the API refuses it (422)
and the question stays alone in the history. (4) A task that fails for good
leaves its job as it is: the handler of `MaxRetriesExceededError` that would mark
it failed is not reached, because `self.retry(exc=exc)` raises `exc`
(`SYNAPSE_FINISH_LINE.md:259` wants `status="failed"`). (5) `make seed` does not
work on a database that Alembic has made: the script inserts into a column
`roles.permissions` that no revision has (`SYNAPSE_FINISH_LINE.md:306-335`).
`SeedNeedsColumns`, which is proved, says that it never does.

Also seen, with no run of its own: an edit of a role's permissions leaves no
audit row (`patch_role_permissions` has no audit logger;
`SYNAPSE_MASTER_PROMPT.md:2268` wants "every query, login, role change, and
admin action logged", and neither `login` nor the admin endpoints of sources log
either); no worker ingests anything, since nothing opens the Neo4j driver in its
process, although `SYNAPSE_FINISH_LINE.md:254-267` describes the sync as
working; a deletion of a source does not enqueue the cleanup of
`SYNAPSE_FINISH_LINE.md:235`; a turn whose session a load has replaced meanwhile
is not persisted (`dropped`); the permission tag of a stored chunk is never
narrowed; an erasure that fails halfway leaves no trace.

## 4. What is proved

For all values of the constants. Assumed of `AccessControl`: `Admin` is a role,
`Calls` pass the request models, `None` is no other value. Assumed of `Chat`:
`MaxTokens` and `MaxContent` are natural numbers, `MaxSessions` and `ListLimit`
positive ones, `None` is no id,
`Clicks` and `Faults` are some of those there are. Assumed of `Platform`: no
document is listed twice in a source, the tags and the markers of a missing or
empty one differ, `None` is no other value, bounds are natural numbers; nothing
about `Disturbances`. Assumed of `Query`: a corpus is finite, the caller's
permissions are tags or the wildcard, the pool has a connection and each call
of the LLM an attempt, and a search finds no more than an answer cites
(`RoomForAll`: `LIMIT` of `VectorSearchService` and the cut of `CitationBuilder`
are both 5; with more than that a document could be found and not be cited).

| Module | Theorem | Property |
|---|---|---|
| `AccessControlProofs` | `TypeCorrect` | `TypeOK` |
| | `RevocationIsHeld` | `RevocationHolds` |
| | `CacheIsBacked` | `CacheBacked` |
| | `AdmissionsAreCurrent` | `AdmissionIsCurrent` |
| | `RoleChangesRevoke` | `RoleChangeRevokes` |
| | `SessionsAsPromisedHolds` | `SessionsAsPromised` |
| | `OldSessionsRunOut` | the part of `RevokedEventuallyOut` that needs no fairness |
| `LastAdminProofs` | `LastAdminLeavesAlone` | `OnlySelfDeactivation` |
| `ChatProofs` | `TypeCorrect` | `TypeOK` |
| | `StoredAtMostOnce` | `StoredOnce` |
| | `MessagesStayApart` | `SessionsKeptApart` |
| | `DisplayIsACopy` | `DisplayAgrees` |
| | `TokensAreKept` | `NoTokenLost` |
| | `BlockedWhileStreaming` | the part of `LoadingEnds` that needs no fairness |
| `ChatTurnProofs` | `TurnsAreFiled` | `FiledWithItsSession` |
| | `OneForEachSession` | `OneConversation` |
| | `AnswersAreWhole` | `AnswersStoredWhole` |
| | `LoadedStaysStored` | `LoadedIsStored` |
| `PlatformProofs` | `TypeCorrect` | `TypeOK` |
| | `JobsAccountedHolds` | `JobsAccounted` |
| | `CompletedIsFinalHolds` | `CompletedIsFinal` |
| | `CountsAreBackedHolds` | `CountsAreBacked` |
| | `DeletedIsQuietHolds` | `DeletedIsQuiet` |
| | `GraphFollowsHolds` | `GraphFollows` |
| | `ErasureHolds` | `AuditedErasureHolds` |
| | `MirrorHolds` | `StoreMirrorsFiles` |

| | `SeedKeepsChangesHolds` | `SeedKeepsChanges` |
| | `MigrationsApplyHolds` | `MigrationsApply` |
| | `SeedNeedsColumnsHolds` | why `SeedWorks` fails, for any sequence of migrations and seeds |
| `QueryProofs` | `TypeCorrect` | `TypeOK` |
| | `AuditTellsTheAnswerHolds` | `AuditTellsTheAnswer` |
| | `BestPermittedHolds` | the first part of `AnsweredFromTheBest` |
| | `AnsweredFromTheBestHolds` | `AnsweredFromTheBest` |
| | `OnlyPermittedIsShown` | prompt and citations hold permitted chunks only |
| | `WorkIsBounded` | the part of `RequestsEnd` that needs no fairness |
| | `StreamsAsPromisedHolds` | `StreamsAsPromised` |

**Access control.** All follow from one inductive invariant, `IInv`:

- `BaseInv`: the types, that session ids in use have a row and an owner, and
  what each handler holds at each step (`HandlerOK`). Proved action by action.
- `RaceInv`. `RevocationHolds` is not inductive: whether a late request gets
  through depends on keys that are not there yet. A session is `Present` if its
  key is in Redis or a handler is about to write it. The invariant says that a
  present session is active, expired or raced; that a present session under
  revocation is expired or raced; and that a request that came too late is
  still before the cache with its session not present, or on a raced session.
- `HistInv`: what was read is in the history from `LoadUser`, and from
  `LoadRole`, on.

For the last two the proof does not go through the thirty actions again.
`Stepped` states what any one step can do to one session (`SessionStep`) and to
one handler (`HandlerStep`); each action is shown to be such a step once, and
`RaceKept` and `HistKept` reason from that alone. `RoleChangesRevoke` adds
that three actions write a role, and looks at these; what it needs to know of the
commit is `MissInv`: an active session of the user is among the rows of the
UPDATE or was `missed`.

The refinement rests on the same two. `SessionPromised` and `CallerPromised`
put what a step does to a session and to a request into the words of
`SessionService`; `RowsGoOn` (a row is inserted once) and `AdmittedOnce` (a
request that was admitted does not ask again) are what `Stepped` leaves open.
That a caller who asked too late is admitted only on a spoilt session is
`RaceInv`; `PromisedStep` then maps each step to one of `SessionService` or to
a stutter.

`OnlySelfDeactivation` is proved of any number of overlapping requests.
`DecidingInv` says what a request knows that is going to write an account
(`Knows`): its caller was an administrator when it was admitted, the target exists
and is another account unless the write is an update without a role, and no
account is active before it is made. Four steps write an account; each leaves the
caller, or everyone there was, an administrator, if the caller still is one,
except that one update. The count of `delete_user` is not needed for this.

**Chat.** All eight safety properties are proved. Four invariants in
`ChatProofs`, each on top of the types:

- `TypeInv`: `TypeOK`, and that only a question that was asked has a session,
  only a completed stream a turn (`StreamsOK`). That no id is listed twice
  rests on `SequenceLemmas`: consing a fresh id, moving one to the front,
  cutting off the end keep a sequence injective, and the first element stays.
- `StoredInv`: what is stored of a turn at each step of `persistTurn`. The
  property alone is not inductive: that nothing is stored yet is what makes the
  next message the first, and the place of the question is what the answer's
  is compared with.
- `OriginInv`: an id that was never used has no messages and no question, and
  everything the backend or a load holds is `saved`, so that what a load puts
  into a session is the answer of no open stream.
- `SessionsInv`: for each listed session that has not strayed, each question
  whose answer it holds was asked in it (`SoundFor`), and the answer of a
  question asked in it, if it is still there, is `Current` (all the tokens sent
  so far, and the status that goes with the stream's state), and it is there
  unless the session was cleared. The status `thinking`
  before the first event is the part `NoTokenLost` does not say and its proof
  needs; `DisplayAgrees` is part of the invariant because events take the
  answer from the display and write the display back.

Four more in `ChatTurnProofs`, about what happens after a stream has completed:

- `FiledInv`: a session `Owns` a conversation that it was loaded from or that
  one of its own turns made. A server id, the conversation a turn goes on with
  and the one it is stored in are owned; an id read from the store before two
  awaits is still owned after them, because what is owned stays owned.
- `MadeInv`: in a session that is not `doubled` at most one turn is between
  `create` and the answer (`Creating`), and once a conversation was made and not
  orphaned, its turn is that one, or the session has a server id or is gone and
  no turn is about to make another (`Provided`).
- `TextInv`: the text a turn carries is the whole answer, or nothing if the
  session was cleared while it streamed; a refused one is empty or too long. It
  needs `Current` of cleared sessions too: an answer that comes after the
  clearing is not there in part.
- `LoadInv`: a load holds rows of its conversations `FromRows`, that is
  committed ones in their order of which none is missing that was not committed
  late; a session that was loaded keeps its server id and has no turn that makes
  a conversation; the saved messages of any session are such rows of what it was
  loaded from, and come first.

`ServerSteps`, `ClientSteps` and `TurnSteps` say which steps touch the rows, the
store and the turns, and one lemma for each operation what it leaves
(`NewChatFields`, `SendQueryFields`, `StreamEventFields`,
`ReplaceSessionsFields`, `PersistTurnFields`, ...); the invariants are shown
from these.

**Platform.** `BaseInv` has the types and what a runner holds at each step
(`RunFits`); `HoldersInv` that a message, a publication or a runner with a job
stands for a row of that job. On top of them, one invariant for each property:

- `WaitsInv`: an unfinished job waits for somebody or has been given up. Each
  step hands a job on (publication, message, runner, message of the retry) or
  the history records why it does not.
- `SingleInv`: a job whose message was never delivered again has one holder
  (`HolderOf`), and none but a runner on its way back once it is completed.
  `CompletedIsFinal` is not inductive without it: who else could start the job
  is what it leaves open.
- `CountsInv`: a runner's own count is of rows that are stored, document by
  document, or one of the authors is erased. The sum over the documents is
  bounded with the cardinality of a union of disjoint sets, one document at a
  time.
- `ErasureInv`: between `EraseChunks` and the audit row the author is gone from
  the stores already cleared, or recorded as `reingested`.
- `ReadIsCurrent`: what a runner has read of an unedited document is what the
  document is, which `StoreMirrorsFiles` needs at the upsert.

- `SchemaInv`: the database has all objects that the revisions up to its own
  create and none of the later ones (`AtRevision`), and of the columns nobody's
  script adds (`ByHand`) all or none: a downgrade of the first revision takes
  them with their tables.
- `SeedInv`: while none of these columns is there no demo row is, and the script
  has not come past the roles.

`DeletedIsQuiet` and `SeedKeepsChanges` follow from what a step can do to the
runner of a source and to the demo rows, the former with `HoldersInv`.
`MigrationsApply` follows from `SchemaInv` and from `SchemaProofs`, which is
about the revisions alone, for any database at all: operations that create apply
when no object is there yet and each finds the tables it refers to (`Creates`,
`RevisionUp`); indexes and tables are dropped in an order in which no table that
is left refers to one that is gone (`DropTables`, `RevisionDown`); what is
missing is run in one transaction, each revision on what the one before it has
made (`Joined`, `PendingUp`).

**Query.** `RequestInv` is stated for one request, and `Frame` shows that a step
of another leaves it alone. `Found`: before the search there are no chunks,
after it they are a result. `Told`: at each step, what a stream has sent (the
count of the chunks first, an end only once it is to be audited).
`Numbered`: the tokens, while the first attempt runs. `Accounted`: the audit
row is there only when the request is over, and nothing changes what it tells
after that. `PoolInv`: the connections of sessions and searches together;
`PoolKinds` says that one is taken only when one is spare. For the refinement,
`StreamStep` shows that a step of a stream keeps it or is one of the five
actions of `AnswerStream` in the words of `Query`, and `PromisedStep` that this
is what `AnswerStream` says of the mapped variables.

`AnsweredFromTheBest` adds what the pure functions do, for chunks of any number,
size and score:

- `Fitting` is the invariant of `PromptBuilder`'s loop: what is kept is a prefix
  of the chunks, what is left of the budget is what was available less the
  tokens kept, and once the loop is broken the next chunk does not fit.
- `Gathered` is that of `CitationBuilder`'s: every entry is one of the chunks
  seen, no document has two, and each document seen has an entry as good as any
  chunk of it.
- `BestFirst` sorts by place: `Places` shows that `Place` is a permutation (the
  chunks before another are a strict order, so no two have as many), and
  `BestFirstSorts` that the result is descending and has the same elements. It
  is not cut, because the dictionary has no more entries than the search found
  chunks (`RoomForAll`).

The functions are recursive over the turns of their loops (`Fitted`,
`Collected`, `Stages` of a migration). That such a function exists and obeys its
equation, and that an invariant of a loop holds after every turn, is shown in
the section Loops of `SequenceLemmas` from the least-element principle, with the
invariant given as the set of turns at which it holds: the induction theorems
of the library take an operator as a parameter, which the provers cannot
instantiate.

`WorkIsBounded`: `StepsLeft` counts the stages a request has to go, twice, one
more while it holds a connection, and the tokens and attempts that are left
while it may still generate. A step of the request lowers it, a step of another
leaves it.

**Left to TLC**, because they are beyond the prover: `RevokedEventuallyOut`,
`LoadingEnds` and `RequestsEnd`, which are liveness under fairness. What they
say without fairness is proved: from the time a session is old no request begins
to ask about it, and those that are asking have at most six steps, which nothing
adds to (`OldSessionsRunOut`, with `AskingLeft` for a measure); the input is
blocked only while a stream is open, and a stream has a bounded number of events
(`BlockedWhileStreaming`, `EventsLeft`); a request cannot go on for ever
(`WorkIsBounded`, `StepsLeft`). That nothing waits for ever, and that time
passes, is what TLC checks under the fairness of section 3. Every other property
a run checks is proved, except the five that findings refute.

## 5. What is not modelled

- **`POST /auth/refresh`** and the auth client (`auth-store.ts`, `cookies.ts`):
  no response carries a refresh token, and the store only keeps the access token
  and drops it at a 401.
- **Read-only endpoints**: the listings and exports of the audit log, the
  dashboard, the graph browser, health probes, the listings of users, roles,
  sources and jobs. They have no state of their own.
- **Unmounted code**: `api/v1/users.py`, `api/v1/sources.py`, `api/v1/audit.py`,
  their services, the rate limiter; `delete_by_source` and
  `find_experts_for_topics`, which nobody calls; `seed_data.py`, which is run by
  nothing.
- **`cleanup_old_audit_logs`**: deletes audit rows after 90 days; the properties
  speak of rows younger than that.
- **Texts**: what a document, chunk, prompt or title says, embeddings and their
  model, chunking (a document is its number of chunks), project nodes of the
  graph. Rendering, logging and metrics.
- **Who owns a conversation**: one user is signed in throughout.

What could come next: liveness of a worker that is up, under a broker that
delivers; an abstract job queue that `Platform` implements; the rest of the
corpus changing while a request runs (`Query` takes it as fixed, since one
statement reads it).
