----------------------------- MODULE Ingestion ------------------------------
(***************************************************************************)
(* Data sources and their ingestion: the endpoints that create, delete and *)
(* sync a source, the schedule, the broker, the Celery task ingest_source  *)
(* with its retries, the pipeline that reads a source's documents into     *)
(* document_chunks and the Neo4j graph, and the erasure of an author.      *)
(*                                                                         *)
(* A runner is a Celery worker or the seed script, which runs the same     *)
(* pipeline without a task.  Every action is one transaction of the code,  *)
(* or one that commutes with what another runner may do in between.  A     *)
(* chunk is its row's permission tag; its text is left out.                *)
(***************************************************************************)
EXTENDS Integers, FiniteSets, Sequences, SequencesExt

CONSTANTS
    Sources,       \* ids of data sources
    Docs,          \* source_urls of documents
    Authors,       \* e-mail addresses of authors
    Tags,          \* permission tags
    Workers,       \* Celery worker processes
    Seed,          \* the seed script as a runner
    None,          \* no source, no message, no tag
    Untagged,      \* a front matter without permission_tag
    Blank,         \* a front matter with an empty permission_tag
    Engineering,   \* the tag of the mock connector for Untagged
    Files,         \* Files[s]: the documents in the directory of s, by path
    Author,        \* Author[d]: author_email
    DefaultTag,    \* DefaultTag[s]: first of default_permission_tags
    Unsupported,   \* sources whose type has no connector
    Contents,      \* what a document may be: its tag and number of chunks
    Drafts,        \* what the documents are to begin with
    MaxJobs,       \* bound on rows of ingestion_jobs
    MaxSize,       \* bound on the chunks of a document
    MaxRetries,    \* max_retries of ingest_source (3)
    ProgressEvery, \* documents between two progress commits (50)
    MaxCrashes,    \* bound on crashes and on visibility time-outs
    MaxEdits       \* bound on edits of documents and on erasures

ASSUME ConstantsOK ==
    /\ Files \in [Sources -> Seq(Docs)] /\ \A s \in Sources : IsInjective(Files[s])
    /\ Author \in [Docs -> Authors]
    /\ DefaultTag \in [Sources -> Tags]
    /\ Engineering \in Tags /\ Blank \notin Tags /\ Untagged \notin Tags
    /\ None \notin Authors \cup Sources \cup Tags /\ Seed \notin Workers
    /\ MaxJobs \in Nat /\ MaxSize \in Nat /\ MaxRetries \in Nat
    /\ ProgressEvery \in Nat \ {0} /\ MaxCrashes \in Nat /\ MaxEdits \in Nat

Jobs == 1..MaxJobs
Runners == Workers \cup {Seed}
NoJob == 0

ASSUME ContentsOK ==
    /\ Contents \subseteq [tag : Tags \cup {Untagged, Blank}, size : 0..MaxSize]
    /\ Drafts \subseteq [Docs -> Contents]

\* copy tells a message that was delivered again from the first one.
Messages == [source : Sources, job : Jobs \cup {NoJob}, retries : 0..MaxRetries,
             copy : 0..MaxCrashes]
Message(s, j) == [source |-> s, job |-> j, retries |-> 0, copy |-> 0]
Rows == Docs \X (1..MaxSize)

VARIABLES
    source,     \* data_sources: "none", "active" or "deleted" (and paused)
    file,       \* the documents on disk
    job,        \* ingestion_jobs
    publishing, \* jobs committed by sync_now, their task not yet published
    queue,      \* messages the broker holds and has not delivered
    driverUp,   \* the worker processes have called init_neo4j
    run,        \* run[r]: what runner r is at
    chunks,     \* document_chunks: tag of a row, or None
    documents,  \* Document nodes of the graph
    authored,   \* documents with an AUTHORED edge to their author
    persons,    \* Person nodes
    erasure     \* progress of the latest erasure of an author

VARIABLES
    crashes, edits,  \* counters for the bounds
    allowed          \* the kinds of disturbance of this behaviour

rows == <<source, job, chunks>>
graph == <<documents, authored, persons>>
env == <<driverUp, allowed>>
counters == <<crashes, edits>>
ivars == <<rows, graph, file, publishing, queue, run, erasure, env, counters>>

Idle == [pc |-> "idle", source |-> None, msg |-> None, owned |-> FALSE,
         job |-> NoJob, next |-> 1, chunks |-> 0, got |-> None]

NewJob == [status |-> "pending", source |-> None, docs |-> 0, chunks |-> 0]
FreeJob == [NewJob EXCEPT !.status = "free"]
Free == {j \in Jobs : job[j].status = "free"}
NewId == CHOOSE j \in Free : TRUE

Init ==
    /\ source = [s \in Sources |-> "none"]
    /\ file \in Drafts
    /\ job = [j \in Jobs |-> FreeJob]
    /\ chunks = [x \in Rows |-> None]
    /\ publishing = {} /\ queue = {}
    /\ driverUp \in BOOLEAN
    /\ run = [r \in Runners |-> Idle]
    /\ documents = {} /\ authored = {} /\ persons = {}
    /\ erasure = [a \in Authors |-> "idle"]
    /\ crashes = 0 /\ edits = 0

-----------------------------------------------------------------------------
(* Requests of an administrator, and the schedule *)

CreateSource(s) ==
    /\ source[s] = "none"
    /\ source' = [source EXCEPT ![s] = "active"]
    /\ UNCHANGED <<job, chunks, graph, file, publishing, queue, run, erasure, env, counters>>

\* The row is paused and marked; chunks, jobs and the queue are left alone.
DeleteSource(s) ==
    /\ "delete" \in allowed
    /\ source[s] = "active"
    /\ source' = [source EXCEPT ![s] = "deleted"]
    /\ UNCHANGED <<job, chunks, graph, file, publishing, queue, run, erasure, env, counters>>

\* Bound: a job of its own is left for every attempt without one.
Reserve == (MaxRetries + 1) * (MaxCrashes + 1) + 1

\* sync_now commits the job before it publishes the task.
SyncNow(s) ==
    /\ source[s] = "active" /\ Cardinality(Free) > Reserve
    /\ LET j == NewId IN
        /\ job' = [job EXCEPT ![j] = [NewJob EXCEPT !.source = s]]
        /\ publishing' = publishing \cup {j}
    /\ UNCHANGED <<source, chunks, graph, file, queue, run, erasure, env, counters>>

Publish(j) ==
    /\ j \in publishing
    /\ publishing' = publishing \ {j}
    /\ queue' = queue \cup {Message(job[j].source, j)}
    /\ UNCHANGED <<rows, graph, file, run, erasure, env, counters>>

PublishFails(j) ==
    /\ "error" \in allowed
    /\ j \in publishing
    /\ publishing' = publishing \ {j}
    /\ UNCHANGED <<rows, graph, file, queue, run, erasure, env, counters>>

\* Beat publishes a task without a job for every active source, up to the one
\* where the broker fails.  Bound: one such message of a source waits at a time.
ScheduledSync ==
    /\ "beat" \in allowed /\ Cardinality(Free) >= Reserve
    /\ \E S \in SUBSET {s \in Sources : source[s] = "active"} :
        /\ S # {}
        /\ \A s \in S : \A m \in queue : m.source = s => m.job # NoJob
        /\ \A s \in S : \A r \in Runners : run[r].source # s
        /\ queue' = queue \cup {Message(s, NoJob) : s \in S}
    /\ UNCHANGED <<rows, graph, file, publishing, run, erasure, env, counters>>

\* Someone edits a document in the directory of its source.
EditFile(d) ==
    /\ "edit" \in allowed /\ edits < MaxEdits
    /\ \E c \in Contents \ {file[d]} : file' = [file EXCEPT ![d] = c]
    /\ edits' = edits + 1
    /\ UNCHANGED <<rows, graph, publishing, queue, run, erasure, env, crashes>>

-----------------------------------------------------------------------------
(* The erasure of an author: three stores, three steps *)

Erasing(a, from, to) ==
    /\ erasure[a] = from
    /\ erasure' = [erasure EXCEPT ![a] = to]
    /\ UNCHANGED <<source, job, file, publishing, queue, run, documents, env, crashes>>

EraseChunks(a) ==
    /\ "erase" \in allowed /\ edits < MaxEdits
    /\ Erasing(a, "idle", "chunks")
    /\ edits' = edits + 1
    /\ chunks' = [x \in Rows |-> IF Author[x[1]] = a THEN None ELSE chunks[x]]
    /\ UNCHANGED <<authored, persons>>

\* A mutant: the node goes without its edges (DELETE, not DETACH DELETE).
ErasePersonOnly(a) ==
    /\ Erasing(a, "chunks", "person")
    /\ persons' = persons \ {a}
    /\ UNCHANGED <<authored, chunks, edits>>

ErasePerson(a) ==
    /\ Erasing(a, "chunks", "person")
    /\ persons' = persons \ {a}
    /\ authored' = {d \in authored : Author[d] # a}
    /\ UNCHANGED <<chunks, edits>>

EraseAudited(a) ==
    /\ Erasing(a, "person", "audited")
    /\ UNCHANGED <<chunks, authored, persons, edits>>

\* A mutant: the audit row is written whatever happens.
EraseFailsAudited(a) ==
    /\ erasure[a] \in {"chunks", "person"}
    /\ Erasing(a, erasure[a], "audited")
    /\ UNCHANGED <<chunks, authored, persons, edits>>

\* Neo4j or the audit row fails: what was deleted stays deleted, unrecorded.
EraseFails(a) ==
    /\ erasure[a] \in {"chunks", "person"}
    /\ Erasing(a, erasure[a], "failed")
    /\ UNCHANGED <<chunks, authored, persons, edits>>

-----------------------------------------------------------------------------
(* The pipeline *)

Active(r) == run[r].pc # "idle"
HasDriver(r) == r = Seed \/ driverUp
Document(r) == Files[run[r].source][run[r].next]

\* A mutant: the row is looked for, its deletion is not.
RefusedMissing(r) ==
    /\ run[r].pc = "start"
    /\ ~HasDriver(r) \/ source[run[r].source] = "none" \/ run[r].source \in Unsupported

\* The attempt cannot go on: no driver, no source, no connector.
Refused(r) ==
    /\ run[r].pc = "start"
    /\ \/ ~HasDriver(r)
       \/ source[run[r].source] # "active"
       \/ run[r].source \in Unsupported

\* A task without a job inserts one of its own in every attempt.
StartJob(r) ==
    /\ run[r].pc = "start" /\ ~Refused(r)
    /\ LET own == run[r].job = NoJob
           j == IF own THEN NewId ELSE run[r].job IN
        /\ own => Free # {}
        /\ job' = [job EXCEPT ![j] =
                    [IF own THEN NewJob ELSE @ EXCEPT
                        !.status = "running", !.source = run[r].source]]
        /\ run' = [run EXCEPT ![r].pc = "read", ![r].job = j]
    /\ UNCHANGED <<source, chunks, graph, file, publishing, queue, erasure, env, counters>>

ReadDocument(r) ==
    /\ run[r].pc = "read" /\ run[r].next <= Len(Files[run[r].source])
    /\ LET c == file[Document(r)] IN
        run' = [run EXCEPT ![r].got = c,
                           ![r].pc = IF c.size = 0 THEN "graph" ELSE "upsert"]
    /\ UNCHANGED <<rows, graph, file, publishing, queue, erasure, env, counters>>

\* The connector never leaves the tag of a document without one to the source.
TagOf(tag) == IF tag = Untagged THEN Engineering ELSE tag
\* A mutant: the default tag of the source is for documents without one.
PermissionTagOrDefault(tag, s) == IF tag \in {Untagged, Blank} THEN DefaultTag[s] ELSE tag

PermissionTag(tag, s) == IF TagOf(tag) = Blank THEN DefaultTag[s] ELSE TagOf(tag)

\* A row that exists keeps its tag; rows past the new end stay.
UpsertChunks(r) ==
    /\ run[r].pc = "upsert"
    /\ chunks' = [x \in Rows |->
            IF x[1] = Document(r) /\ x[2] <= run[r].got.size /\ chunks[x] = None
            THEN PermissionTag(run[r].got.tag, run[r].source) ELSE chunks[x]]
    /\ run' = [run EXCEPT ![r].pc = "graph"]
    /\ UNCHANGED <<source, job, graph, file, publishing, queue, erasure, env, counters>>

\* A mutant: the graph is updated together with the progress.
UpdateGraphInBatches(r) ==
    /\ run[r].pc = "graph"
    /\ LET batch == IF run[r].next % ProgressEvery = 0 THEN {Document(r)} ELSE {} IN
        /\ documents' = documents \cup batch
        /\ authored' = authored \cup batch
        /\ persons' = persons \cup {Author[d] : d \in batch}
        /\ run' = [run EXCEPT ![r].pc = IF batch = {} THEN "read" ELSE "progress",
                              ![r].next = @ + 1, ![r].chunks = @ + run[r].got.size,
                              ![r].got = None]
    /\ UNCHANGED <<rows, file, publishing, queue, erasure, env, counters>>

UpdateGraph(r) ==
    /\ run[r].pc = "graph"
    /\ documents' = documents \cup {Document(r)}
    /\ authored' = authored \cup {Document(r)}
    /\ persons' = persons \cup {Author[Document(r)]}
    /\ run' = [run EXCEPT ![r].pc = IF run[r].next % ProgressEvery = 0
                                    THEN "progress" ELSE "read",
                          ![r].next = @ + 1,
                          ![r].chunks = @ + run[r].got.size,
                          ![r].got = None]
    /\ UNCHANGED <<rows, file, publishing, queue, erasure, env, counters>>

\* A mutant: the counts of the attempt are added to those of the job.
ReportAdded(r, status) ==
    job' = [job EXCEPT ![run[r].job].status = status,
                       ![run[r].job].docs = @ + run[r].next - 1,
                       ![run[r].job].chunks = @ + run[r].chunks]

\* The counts of the attempt go into its job.
Report(r, status) ==
    job' = [job EXCEPT ![run[r].job].status = status,
                       ![run[r].job].docs = run[r].next - 1,
                       ![run[r].job].chunks = run[r].chunks]

Progress(r) ==
    /\ run[r].pc = "progress"
    /\ Report(r, job[run[r].job].status)
    /\ run' = [run EXCEPT ![r].pc = "read"]
    /\ UNCHANGED <<source, chunks, graph, file, publishing, queue, erasure, env, counters>>

Complete(r) ==
    /\ run[r].pc = "read" /\ run[r].next > Len(Files[run[r].source])
    /\ Report(r, "completed")
    /\ run' = [run EXCEPT ![r].pc = "done"]
    /\ UNCHANGED <<source, chunks, graph, file, publishing, queue, erasure, env, counters>>

-----------------------------------------------------------------------------
(* The runners: Celery delivers a message, and the message is acknowledged *)
(* when the attempt is over (acks_late); the seed script runs it once      *)

Take(w) ==
    /\ w \in Workers /\ ~Active(w)
    /\ \E m \in queue :
        /\ queue' = queue \ {m}
        /\ run' = [run EXCEPT ![w] = [Idle EXCEPT !.pc = "start", !.msg = m,
                            !.owned = TRUE, !.source = m.source, !.job = m.job]]
    /\ UNCHANGED <<rows, graph, file, publishing, erasure, env, counters>>

SeedIngests(s) ==
    /\ ~Active(Seed) /\ Free # {}
    /\ run' = [run EXCEPT ![Seed] = [Idle EXCEPT !.pc = "start", !.source = s]]
    /\ UNCHANGED <<rows, graph, file, publishing, queue, erasure, env, counters>>

Ends(r) == run' = [run EXCEPT ![r] = Idle]

Return(r) ==
    /\ run[r].pc = "done"
    /\ Ends(r)
    /\ UNCHANGED <<rows, graph, file, publishing, queue, erasure, env, counters>>

\* A mutant: an attempt may still fail after its last commit.
MayRaiseLate(r) == Refused(r) \/ ("error" \in allowed /\ Active(r))
MayRaise(r) == Refused(r) \/ ("error" \in allowed /\ Active(r) /\ run[r].pc # "done")
LastAttempt(r) == r # Seed => run[r].msg.retries = MaxRetries
Retried(m) == {[m EXCEPT !.retries = @ + 1]}

\* self.retry publishes the message again, with one retry more.
Retry(w) ==
    /\ w \in Workers /\ MayRaise(w) /\ ~LastAttempt(w)
    /\ queue' = queue \cup Retried(run[w].msg)
    /\ Ends(w)
    /\ UNCHANGED <<rows, graph, file, publishing, erasure, env, counters>>

\* Given exc, self.retry raises it and not MaxRetriesExceededError when the
\* retries are used up: _fail_job is not reached and the job stays as it is.
GiveUp(r) ==
    /\ MayRaise(r) /\ LastAttempt(r)
    /\ Ends(r)
    /\ UNCHANGED <<rows, graph, file, publishing, queue, erasure, env, counters>>

MayCrash(w) == w \in Workers /\ "crash" \in allowed /\ crashes < MaxCrashes /\ Active(w)

Again(m) == {[m EXCEPT !.copy = crashes + 1]}

\* A mutant: without reject_on_worker_lost the message is acknowledged.
CrashAcknowledged(w) ==
    /\ MayCrash(w)
    /\ \E published \in {{}} \cup
            {Retried(run[w].msg) : x \in {x \in {w} : MayRaise(x) /\ ~LastAttempt(x)}} :
        queue' = queue \cup published
    /\ Ends(w)
    /\ crashes' = crashes + 1
    /\ UNCHANGED <<rows, graph, file, publishing, erasure, env, edits>>

\* The worker process is lost (reject_on_worker_lost), before or after a retry
\* was published; a message it still owns is delivered again.
Crash(w) ==
    /\ MayCrash(w)
    /\ \E published \in {{}} \cup
            {Retried(run[w].msg) : x \in {x \in {w} : MayRaise(x) /\ ~LastAttempt(x)}} :
        queue' = queue \cup published \cup (IF run[w].owned THEN Again(run[w].msg) ELSE {})
    /\ Ends(w)
    /\ crashes' = crashes + 1
    /\ UNCHANGED <<rows, graph, file, publishing, erasure, env, edits>>

\* The broker's visibility time-out passes while the attempt still runs.
Redeliver(w) ==
    /\ MayCrash(w) /\ run[w].owned
    /\ queue' = queue \cup Again(run[w].msg)
    /\ run' = [run EXCEPT ![w].owned = FALSE]
    /\ crashes' = crashes + 1
    /\ UNCHANGED <<rows, graph, file, publishing, erasure, env, edits>>

-----------------------------------------------------------------------------

Administer ==
    \/ \E s \in Sources : CreateSource(s) \/ DeleteSource(s) \/ SyncNow(s)
    \/ \E j \in Jobs : Publish(j) \/ PublishFails(j)
    \/ \E a \in Authors : EraseChunks(a) \/ ErasePerson(a) \/ EraseAudited(a) \/ EraseFails(a)
    \/ ScheduledSync
    \/ \E d \in Docs : EditFile(d)

Pipeline(r) ==
    \/ StartJob(r) \/ ReadDocument(r) \/ UpsertChunks(r) \/ UpdateGraph(r)
    \/ Progress(r) \/ Complete(r)

Attempt(r) == Pipeline(r) \/ Return(r) \/ Retry(r) \/ GiveUp(r)

Serve(w) == Take(w) \/ Attempt(w)
Lose(w) == Crash(w) \/ Redeliver(w)
=============================================================================
