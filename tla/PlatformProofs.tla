--------------------------- MODULE PlatformProofs ---------------------------
(***************************************************************************)
(* Theorems about the data platform, for any sources, documents, authors,  *)
(* workers and bounds.  First the types and what each runner holds at each *)
(* step (BaseInv), action by action; then one invariant for each property, *)
(* from what a step can do to the runners and to the stores.               *)
(*                                                                         *)
(* The schema is proved about in SchemaProofs.                             *)
(***************************************************************************)
EXTENDS Platform, SchemaProofs, FiniteSetTheorems, TLAPS

-----------------------------------------------------------------------------
(* The types *)

PCs == {"idle", "start", "read", "upsert", "graph", "progress", "done"}
ErasureStates == {"idle", "chunks", "person", "audited", "failed"}

JobRecord ==
    [status : JobStates, source : Sources \cup {None}, docs : Nat, chunks : Nat]
RunRecord ==
    [pc : PCs, source : Sources \cup {None}, msg : Messages \cup {None}, owned : BOOLEAN,
     job : Jobs \cup {NoJob}, next : Nat, chunks : Nat, got : Contents \cup {None}]

\* What a runner r that is at x holds, at each step.
RunFits(r, x) ==
    /\ x.pc = "idle" => x = Idle
    /\ x.pc # "idle" =>
         /\ x.source \in Sources
         /\ r \in Workers => x.msg \in Messages
         /\ r = Seed => x.owned = FALSE /\ x.source = Demo
    /\ x.next > 0
    /\ x.pc \notin {"idle", "start"} => x.job \in Jobs
    /\ x.pc \in {"upsert", "graph"} =>
         /\ x.got \in Contents
         /\ x.next <= Len(Files[x.source])

JobsTyped ==
    /\ job \in [Jobs -> JobRecord]
    /\ publishing \subseteq Jobs /\ queue \subseteq Messages
    /\ \A j \in publishing : job[j].source \in Sources
RunsTyped ==
    /\ run \in [Runners -> RunRecord]
    /\ \A r \in Runners : RunFits(r, run[r])
StoresTyped ==
    /\ file \in [Docs -> Contents]
    /\ chunks \in [Rows -> Tags \cup {None}]
    /\ documents \subseteq Docs /\ authored \subseteq documents
    /\ \A d \in authored : Author[d] \in persons
RestTyped ==
    /\ source \in [Sources -> {"none", "active", "deleted"}]
    /\ erasure \in [Authors -> ErasureStates]
    /\ crashes \in 0..MaxCrashes

BaseInv == JobsTyped /\ RunsTyped /\ StoresTyped /\ RestTyped

-----------------------------------------------------------------------------
(* Facts about the operators *)

LEMMA NewIdIsFree ==
    ASSUME Free # {}
    PROVE  NewId \in Free /\ NewId \in Jobs
  BY DEF NewId, Free

LEMMA ReserveIsNatural == Reserve \in Nat
  <1>1. MaxRetries + 1 \in Nat /\ MaxCrashes + 1 \in Nat
    BY ConstantsOK
  <1>2. \A a, b \in Nat : a * b \in Nat
    OBVIOUS
  <1> QED
    BY <1>1, <1>2 DEF Reserve

LEMMA SomeFree ==
    ASSUME Cardinality(Free) > Reserve
    PROVE  Free # {}
  BY ReserveIsNatural, FS_EmptySet

LEMMA NewJobTyped ==
    /\ NewJob \in JobRecord /\ FreeJob \in JobRecord
    /\ \A s \in Sources : [NewJob EXCEPT !.source = s] \in JobRecord
  BY DEF NewJob, FreeJob, JobRecord, JobStates

LEMMA MessageTyped ==
    ASSUME NEW s \in Sources, NEW j \in Jobs \cup {NoJob}
    PROVE  /\ Message(s, j) \in Messages
           /\ Message(s, j).source = s /\ Message(s, j).job = j
  BY ConstantsOK DEF Message, Messages

LEMMA IdleTyped ==
    /\ Idle \in RunRecord /\ Idle.pc = "idle" /\ Idle.job = NoJob
    /\ Idle.source = None /\ Idle.next > 0
  BY DEF Idle, RunRecord, PCs

\* The document a runner is at.
LEMMA DocumentTyped ==
    ASSUME NEW r \in Runners, run[r].source \in Sources,
           run[r].next \in 1..Len(Files[run[r].source])
    PROVE  Document(r) \in Docs
  BY ConstantsOK DEF Document

LEMMA PermissionTagTyped ==
    ASSUME NEW c \in Contents, NEW s \in Sources
    PROVE  PermissionTag(c.tag, s) \in Tags
  BY ConstantsOK, ContentsOK DEF PermissionTag, TagOf

-----------------------------------------------------------------------------
(* Initially *)

LEMMA BaseInit == Start => BaseInv
  <1>1. ASSUME Start PROVE JobsTyped /\ RunsTyped /\ StoresTyped /\ RestTyped
    <2>1. JobsTyped
      BY <1>1, NewJobTyped DEF Start, Init, JobsTyped
    <2>2. RunsTyped
      BY <1>1, IdleTyped DEF Start, Init, RunsTyped, RunFits
    <2>3. StoresTyped
      BY <1>1, ContentsOK DEF Start, Init, StoresTyped
    <2>4. RestTyped
      BY <1>1, ConstantsOK DEF Start, Init, RestTyped, ErasureStates
    <2> QED
      BY <2>1, <2>2, <2>3, <2>4
  <1> QED
    BY <1>1 DEF BaseInv

-----------------------------------------------------------------------------
(* Steps that leave a part alone *)

LEMMA JobsKept ==
    ASSUME JobsTyped, UNCHANGED <<job, publishing, queue>> PROVE JobsTyped'
  BY DEF JobsTyped

LEMMA RunsKept ==
    ASSUME RunsTyped, UNCHANGED run PROVE RunsTyped'
  BY DEF RunsTyped, RunFits

LEMMA StoresKept ==
    ASSUME StoresTyped, UNCHANGED <<file, chunks, documents, authored, persons>>
    PROVE  StoresTyped'
  BY DEF StoresTyped

LEMMA RestKept ==
    ASSUME RestTyped, UNCHANGED <<source, erasure, crashes>> PROVE RestTyped'
  BY DEF RestTyped

LEMMA AllKept ==
    ASSUME BaseInv, UNCHANGED ivars PROVE BaseInv'
  BY JobsKept, RunsKept, StoresKept, RestKept
     DEF BaseInv, ivars, rows, graph, counters

\* One runner goes on to x.
LEMMA OneRunner ==
    ASSUME RunsTyped, NEW r \in Runners, NEW x \in RunRecord, RunFits(r, x),
           run' = [run EXCEPT ![r] = x]
    PROVE  RunsTyped'
  BY DEF RunsTyped, RunFits

LEMMA RunnerEnds ==
    ASSUME RunsTyped, NEW r \in Runners, Ends(r)
    PROVE  RunsTyped'
  BY IdleTyped, OneRunner DEF Ends, RunFits

\* One job is written.
LEMMA OneJob ==
    ASSUME JobsTyped, NEW j \in Jobs, NEW x \in JobRecord,
           j \in publishing => x.source \in Sources,
           job' = [job EXCEPT ![j] = x], UNCHANGED <<publishing, queue>>
    PROVE  JobsTyped'
  BY DEF JobsTyped

LEMMA MoreMessages ==
    ASSUME JobsTyped, NEW M \in SUBSET Messages, queue' \subseteq queue \cup M,
           publishing' \subseteq publishing, UNCHANGED job
    PROVE  JobsTyped'
  BY DEF JobsTyped

-----------------------------------------------------------------------------
(* The requests *)

LEMMA CreateOrDelete ==
    ASSUME BaseInv, NEW s \in Sources, CreateSource(s) \/ DeleteSource(s)
    PROVE  BaseInv'
  <1>1. RestTyped'
    BY DEF BaseInv, RestTyped, CreateSource, DeleteSource, counters
  <1> QED
    BY <1>1, JobsKept, RunsKept, StoresKept
       DEF BaseInv, CreateSource, DeleteSource, graph

LEMMA Syncs ==
    ASSUME BaseInv, NEW s \in Sources, SyncNow(s)
    PROVE  BaseInv'
  <1>1. NewId \in Jobs
    BY SomeFree, NewIdIsFree DEF SyncNow
  <1>2. JobsTyped'
    BY <1>1, NewJobTyped DEF BaseInv, JobsTyped, SyncNow, NewJob
  <1> QED
    BY <1>2, RunsKept, StoresKept, RestKept DEF BaseInv, SyncNow, graph, counters

LEMMA Publishes ==
    ASSUME BaseInv, NEW j \in Jobs, Publish(j) \/ PublishFails(j)
    PROVE  BaseInv'
  <1>1. JobsTyped'
    BY MessageTyped, MoreMessages DEF BaseInv, JobsTyped, Publish, PublishFails, rows
  <1> QED
    BY <1>1, RunsKept, StoresKept, RestKept
       DEF BaseInv, Publish, PublishFails, rows, graph, counters

LEMMA Schedules ==
    ASSUME BaseInv, ScheduledSync
    PROVE  BaseInv'
  <1>1. JobsTyped'
    <2>1. PICK S \in SUBSET Sources : queue' = queue \cup {Message(s, NoJob) : s \in S}
      BY DEF ScheduledSync
    <2>2. {Message(s, NoJob) : s \in S} \in SUBSET Messages
      BY MessageTyped
    <2> QED
      BY <2>1, <2>2, MoreMessages DEF BaseInv, ScheduledSync, rows
  <1> QED
    BY <1>1, RunsKept, StoresKept, RestKept
       DEF BaseInv, ScheduledSync, rows, graph, counters

LEMMA Edits ==
    ASSUME BaseInv, NEW d \in Docs, EditFile(d)
    PROVE  BaseInv'
  <1>1. StoresTyped'
    BY DEF BaseInv, StoresTyped, EditFile, rows, graph
  <1> QED
    BY <1>1, RunsKept, JobsKept, RestKept DEF BaseInv, EditFile, rows

LEMMA Erases ==
    ASSUME BaseInv, NEW a \in Authors,
           EraseChunks(a) \/ ErasePerson(a) \/ EraseAudited(a) \/ EraseFails(a)
    PROVE  BaseInv'
  <1>1. StoresTyped'
    BY DEF BaseInv, StoresTyped, EraseChunks, ErasePerson, EraseAudited, EraseFails, Erasing
  <1>2. RestTyped'
    BY DEF BaseInv, RestTyped, EraseChunks, ErasePerson, EraseAudited, EraseFails, Erasing,
           ErasureStates
  <1> QED
    BY <1>1, <1>2, RunsKept, JobsKept
       DEF BaseInv, EraseChunks, ErasePerson, EraseAudited, EraseFails, Erasing

-----------------------------------------------------------------------------
(* The runners *)

LEMMA Starts ==
    ASSUME BaseInv, NEW r \in Runners, StartJob(r)
    PROVE  BaseInv'
  <1> DEFINE own == run[r].job = NoJob
             j == IF own THEN NewId ELSE run[r].job
             y == [(IF own THEN NewJob ELSE job[j]) EXCEPT !.status = "running",
                                                           !.source = run[r].source]
             x == [run[r] EXCEPT !.pc = "read", !.job = j]
  <1>1. /\ run[r] \in RunRecord /\ RunFits(r, run[r])
        /\ run[r].pc = "start" /\ run[r].source \in Sources
    BY DEF BaseInv, RunsTyped, RunFits, StartJob
  <1>2. j \in Jobs
    BY <1>1, NewIdIsFree DEF StartJob, RunRecord
  <1>3. y \in JobRecord /\ y.source \in Sources
    BY <1>1, <1>2, NewJobTyped DEF BaseInv, JobsTyped, JobRecord, JobStates
  <1>4. job' = [job EXCEPT ![j] = y] /\ run' = [run EXCEPT ![r] = x]
    BY <1>1 DEF StartJob, BaseInv, RunsTyped
  <1>5. JobsTyped'
    <2>1. UNCHANGED <<publishing, queue>>
      BY DEF StartJob
    <2> QED
      BY <1>2, <1>3, <1>4, <2>1, OneJob DEF BaseInv
  <1>6. x \in RunRecord
    BY <1>1, <1>2 DEF RunRecord, PCs
  <1>7. RunsTyped'
    <2>1. RunFits(r, x)
      <3> HIDE DEF j
      <3> QED
        BY <1>1, <1>2 DEF RunFits, RunRecord
    <2> QED
      BY <1>4, <1>6, <2>1, OneRunner DEF BaseInv
  <1> QED
    BY <1>5, <1>7, StoresKept, RestKept DEF BaseInv, StartJob, graph, counters

LEMMA Reads ==
    ASSUME BaseInv, NEW r \in Runners, ReadDocument(r)
    PROVE  BaseInv'
  <1> DEFINE c == file[Document(r)]
             x == [run[r] EXCEPT !.got = c, !.pc = IF c.size = 0 THEN "graph" ELSE "upsert"]
  <1>1. /\ run[r] \in RunRecord /\ RunFits(r, run[r]) /\ run[r].pc = "read"
        /\ run' = [run EXCEPT ![r] = x]
    BY DEF BaseInv, RunsTyped, ReadDocument
  <1>2. /\ run[r].source \in Sources /\ run[r].next \in 1..Len(Files[run[r].source])
        /\ run[r].job \in Jobs
    BY <1>1, ConstantsOK DEF RunFits, ReadDocument, RunRecord
  <1>3. c \in Contents
    BY <1>2, DocumentTyped DEF BaseInv, StoresTyped
  <1>4. x \in RunRecord
    BY <1>1, <1>3 DEF RunRecord, PCs
  <1>5. RunFits(r, x)
    BY <1>1, <1>2, <1>3 DEF RunFits, RunRecord
  <1>6. RunsTyped'
    BY <1>1, <1>4, <1>5, OneRunner DEF BaseInv
  <1> QED
    BY <1>6, JobsKept, StoresKept, RestKept DEF BaseInv, ReadDocument, rows, graph, counters

LEMMA AtDocument ==
    ASSUME RunsTyped, NEW r \in Runners, run[r].pc \in {"upsert", "graph"}
    PROVE  /\ run[r] \in RunRecord /\ RunFits(r, run[r])
           /\ run[r].source \in Sources /\ run[r].job \in Jobs /\ run[r].got \in Contents
           /\ run[r].next \in 1..Len(Files[run[r].source])
           /\ Document(r) \in Docs
  <1>1. /\ run[r] \in RunRecord /\ RunFits(r, run[r])
        /\ run[r].source \in Sources /\ run[r].job \in Jobs /\ run[r].got \in Contents
    BY DEF RunsTyped, RunFits
  <1>2. run[r].next \in 1..Len(Files[run[r].source])
    BY <1>1, ConstantsOK DEF RunFits, RunRecord
  <1> QED
    BY <1>1, <1>2, DocumentTyped

LEMMA Upserts ==
    ASSUME BaseInv, NEW r \in Runners, UpsertChunks(r)
    PROVE  BaseInv'
  <1> DEFINE x == [run[r] EXCEPT !.pc = "graph"]
  <1>1. /\ run[r] \in RunRecord /\ RunFits(r, run[r]) /\ run[r].got \in Contents
        /\ run[r].source \in Sources
    BY AtDocument DEF BaseInv, UpsertChunks
  <1>2. x \in RunRecord /\ RunFits(r, x)
    BY <1>1 DEF UpsertChunks, RunRecord, PCs, RunFits
  <1>3. RunsTyped'
    <2>1. run' = [run EXCEPT ![r] = x]
      BY DEF UpsertChunks, BaseInv, RunsTyped
    <2> QED
      BY <1>2, <2>1, OneRunner DEF BaseInv
  <1>4. PermissionTag(run[r].got.tag, run[r].source) \in Tags
    BY <1>1, PermissionTagTyped
  <1>5. StoresTyped'
    BY <1>4 DEF BaseInv, StoresTyped, UpsertChunks, graph
  <1> QED
    BY <1>3, <1>5, JobsKept, RestKept DEF BaseInv, UpsertChunks, graph, counters

LEMMA Graphs ==
    ASSUME BaseInv, NEW r \in Runners, UpdateGraph(r)
    PROVE  BaseInv'
  <1> DEFINE to == IF run[r].next % ProgressEvery = 0 THEN "progress" ELSE "read"
             x == [run[r] EXCEPT !.pc = to, !.next = @ + 1,
                                 !.chunks = @ + run[r].got.size, !.got = None]
  <1>1. /\ run[r] \in RunRecord /\ RunFits(r, run[r]) /\ run[r].got \in Contents
        /\ Document(r) \in Docs /\ run[r].job \in Jobs /\ run[r].pc = "graph"
    BY AtDocument DEF BaseInv, UpdateGraph
  <1>2. run[r].got.size \in Nat /\ run[r].next \in Nat /\ run[r].chunks \in Nat
    BY <1>1, ContentsOK DEF RunRecord
  <1>3. x \in RunRecord
    <2>1. to \in PCs /\ run[r].next + 1 \in Nat /\ run[r].chunks + run[r].got.size \in Nat
      BY <1>2 DEF PCs
    <2> HIDE DEF to
    <2> QED
      BY <1>1, <2>1 DEF RunRecord
  <1>4. RunFits(r, x)
    <2>1. to \in {"progress", "read"} /\ run[r].next + 1 > 0
      BY <1>2
    <2> HIDE DEF to
    <2> QED
      BY <1>1, <2>1 DEF RunFits, RunRecord
  <1>5. run' = [run EXCEPT ![r] = x]
    BY DEF UpdateGraph, BaseInv, RunsTyped
  <1>6. RunsTyped'
    BY <1>3, <1>4, <1>5, OneRunner DEF BaseInv
  <1>7. StoresTyped'
    BY <1>1 DEF BaseInv, StoresTyped, UpdateGraph, rows
  <1> QED
    BY <1>6, <1>7, JobsKept, RestKept DEF BaseInv, UpdateGraph, rows, counters

LEMMA Reports ==
    ASSUME JobsTyped, RunsTyped, NEW r \in Runners, run[r].job \in Jobs, run[r].next > 0,
           NEW status \in JobStates, Report(r, status), UNCHANGED <<publishing, queue>>
    PROVE  JobsTyped'
  <1> DEFINE j == run[r].job
             y == [job[j] EXCEPT !.status = status, !.docs = run[r].next - 1,
                                 !.chunks = run[r].chunks]
  <1>1. run[r].next - 1 \in Nat /\ run[r].chunks \in Nat
    BY DEF RunsTyped, RunRecord
  <1>2. y \in JobRecord /\ (j \in publishing => y.source \in Sources)
    BY <1>1 DEF JobsTyped, JobRecord
  <1>3. job' = [job EXCEPT ![j] = y]
    BY DEF Report, JobsTyped
  <1> QED
    BY <1>2, <1>3, OneJob

LEMMA Progresses ==
    ASSUME BaseInv, NEW r \in Runners, Progress(r) \/ Complete(r)
    PROVE  BaseInv'
  <1>1. PICK to \in {"read", "done"} : run' = [run EXCEPT ![r] = [run[r] EXCEPT !.pc = to]]
    BY DEF Progress, Complete, BaseInv, RunsTyped
  <1>2. /\ run[r] \in RunRecord /\ RunFits(r, run[r])
        /\ run[r].job \in Jobs /\ run[r].next > 0 /\ run[r].pc \in {"read", "progress"}
    BY DEF BaseInv, RunsTyped, RunFits, Progress, Complete
  <1>3. [run[r] EXCEPT !.pc = to] \in RunRecord /\ RunFits(r, [run[r] EXCEPT !.pc = to])
    BY <1>2 DEF RunRecord, PCs, RunFits
  <1>4. RunsTyped'
    BY <1>1, <1>3, OneRunner DEF BaseInv
  <1>5. \E status \in JobStates : Report(r, status)
    BY <1>2 DEF Progress, Complete, BaseInv, JobsTyped, JobRecord, JobStates
  <1>6. JobsTyped'
    BY <1>2, <1>5, Reports DEF BaseInv, Progress, Complete
  <1> QED
    BY <1>4, <1>6, StoresKept, RestKept DEF BaseInv, Progress, Complete, graph, counters

LEMMA Returns ==
    ASSUME BaseInv, NEW r \in Runners, Return(r) \/ GiveUp(r)
    PROVE  BaseInv'
  <1>1. RunsTyped'
    BY RunnerEnds DEF BaseInv, Return, GiveUp
  <1> QED
    BY <1>1, JobsKept, StoresKept, RestKept DEF BaseInv, Return, GiveUp, rows, graph, counters

LEMMA WorkerMessage ==
    ASSUME RunsTyped, NEW w \in Workers, Active(w)
    PROVE  run[w].msg \in Messages /\ w \in Runners
  BY DEF RunsTyped, RunFits, Active, Runners

LEMMA RetriedTyped ==
    ASSUME NEW m \in Messages, m.retries # MaxRetries
    PROVE  /\ Retried(m) \in SUBSET Messages
           /\ \A n \in Retried(m) : n.job = m.job /\ n.source = m.source
  <1>1. /\ m.retries + 1 \in 0..MaxRetries /\ m.source \in Sources
        /\ m.job \in Jobs \cup {NoJob} /\ m.copy \in 0..MaxCrashes
    BY ConstantsOK DEF Messages
  <1>2. [m EXCEPT !.retries = @ + 1]
          = [source |-> m.source, job |-> m.job, retries |-> m.retries + 1, copy |-> m.copy]
    BY DEF Messages
  <1> QED
    BY <1>1, <1>2 DEF Retried, Messages

LEMMA AgainTyped ==
    ASSUME NEW m \in Messages, RestTyped, crashes < MaxCrashes
    PROVE  Again(m) \in SUBSET Messages /\ \A n \in Again(m) : n.job = m.job /\ n.source = m.source
  <1>1. /\ crashes + 1 \in 0..MaxCrashes /\ m.source \in Sources
        /\ m.job \in Jobs \cup {NoJob} /\ m.retries \in 0..MaxRetries
    BY ConstantsOK DEF Messages, RestTyped
  <1>2. [m EXCEPT !.copy = crashes + 1]
          = [source |-> m.source, job |-> m.job, retries |-> m.retries, copy |-> crashes + 1]
    BY DEF Messages
  <1> QED
    BY <1>1, <1>2 DEF Again, Messages

LEMMA MayRaiseActive ==
    ASSUME NEW r \in Runners, MayRaise(r)
    PROVE  Active(r) /\ run[r].pc # "done"
  BY DEF MayRaise, Refused, Active

LEMMA WorkerIsNotSeed == \A w \in Workers : w \in Runners /\ w # Seed
  BY ConstantsOK DEF Runners

LEMMA Retries ==
    ASSUME BaseInv, NEW w \in Workers, Retry(w)
    PROVE  BaseInv'
  <1>1. w \in Runners /\ run[w].msg \in Messages /\ run[w].msg.retries # MaxRetries
    BY WorkerIsNotSeed, MayRaiseActive, WorkerMessage DEF Retry, LastAttempt, BaseInv
  <1>2. RunsTyped'
    BY <1>1, RunnerEnds DEF BaseInv, Retry
  <1>3. JobsTyped'
    BY <1>1, RetriedTyped, MoreMessages DEF BaseInv, Retry, rows
  <1> QED
    BY <1>2, <1>3, StoresKept, RestKept DEF BaseInv, Retry, rows, graph, counters

LEMMA Takes ==
    ASSUME BaseInv, NEW w \in Workers, Take(w)
    PROVE  BaseInv'
  <1>1. PICK m \in queue :
           /\ queue' = queue \ {m}
           /\ run' = [run EXCEPT ![w] = [Idle EXCEPT !.pc = "start", !.msg = m, !.owned = TRUE,
                                                   !.source = m.source, !.job = m.job]]
    BY DEF Take
  <1> DEFINE x == [Idle EXCEPT !.pc = "start", !.msg = m, !.owned = TRUE,
                               !.source = m.source, !.job = m.job]
  <1>2. m \in Messages /\ w \in Runners
    BY <1>1, WorkerIsNotSeed DEF BaseInv, JobsTyped
  <1>3. x \in RunRecord
    BY <1>2 DEF Idle, RunRecord, PCs, Messages
  <1>4. RunFits(w, x)
    BY <1>2, WorkerIsNotSeed DEF Idle, RunFits, Messages
  <1>5. RunsTyped'
    BY <1>1, <1>2, <1>3, <1>4, OneRunner DEF BaseInv
  <1>6. JobsTyped'
    BY <1>1 DEF BaseInv, JobsTyped, Take, rows
  <1> QED
    BY <1>5, <1>6, StoresKept, RestKept DEF BaseInv, Take, rows, graph, counters

\* What a crash leaves in the queue.
LEMMA CrashQueue ==
    ASSUME BaseInv, NEW w \in Workers, Crash(w)
    PROVE  /\ w \in Runners /\ run[w].msg \in Messages
           /\ queue \subseteq queue' /\ queue' \subseteq Messages
           /\ run[w].owned => \E m \in queue' : m.job = run[w].msg.job
  <1>1. w \in Runners /\ run[w].msg \in Messages /\ crashes < MaxCrashes
    BY WorkerIsNotSeed, WorkerMessage DEF Crash, MayCrash, BaseInv
  <1>2. Again(run[w].msg) \in SUBSET Messages /\ Again(run[w].msg) # {}
        /\ \A n \in Again(run[w].msg) : n.job = run[w].msg.job
    BY <1>1, AgainTyped DEF BaseInv, Again
  <1>3. ~LastAttempt(w) => Retried(run[w].msg) \in SUBSET Messages
    BY <1>1, RetriedTyped, WorkerIsNotSeed DEF LastAttempt
  <1>4. PICK published :
           /\ published = {} \/ (~LastAttempt(w) /\ published = Retried(run[w].msg))
           /\ queue' = queue \cup published
                            \cup (IF run[w].owned THEN Again(run[w].msg) ELSE {})
    BY DEF Crash
  <1> QED
    BY <1>1, <1>2, <1>3, <1>4 DEF BaseInv, JobsTyped

LEMMA Crashes ==
    ASSUME BaseInv, NEW w \in Workers, Crash(w)
    PROVE  BaseInv'
  <1>1. RunsTyped'
    BY CrashQueue, RunnerEnds DEF BaseInv, Crash
  <1>2. JobsTyped'
    BY CrashQueue DEF BaseInv, JobsTyped, Crash, rows
  <1>3. RestTyped'
    BY ConstantsOK DEF BaseInv, RestTyped, Crash, MayCrash, rows
  <1> QED
    BY <1>1, <1>2, <1>3, StoresKept DEF BaseInv, Crash, rows, graph

LEMMA Redelivers ==
    ASSUME BaseInv, NEW w \in Workers, Redeliver(w)
    PROVE  BaseInv'
  <1> DEFINE x == [run[w] EXCEPT !.owned = FALSE]
  <1>1. w \in Runners /\ run[w].msg \in Messages /\ crashes < MaxCrashes /\ Active(w)
    BY WorkerIsNotSeed, WorkerMessage DEF Redeliver, MayCrash, BaseInv
  <1>2. JobsTyped'
    BY <1>1, AgainTyped, MoreMessages DEF BaseInv, Redeliver, rows
  <1>3. x \in RunRecord /\ RunFits(w, x)
    BY <1>1 DEF BaseInv, RunsTyped, RunRecord, RunFits, Active
  <1>4. run' = [run EXCEPT ![w] = x]
    BY DEF Redeliver, BaseInv, RunsTyped
  <1>5. RunsTyped'
    BY <1>1, <1>3, <1>4, OneRunner DEF BaseInv
  <1>6. RestTyped'
    BY <1>1, ConstantsOK DEF BaseInv, RestTyped, Redeliver, rows
  <1> QED
    BY <1>2, <1>5, <1>6, StoresKept DEF BaseInv, Redeliver, rows, graph

LEMMA SeedBegins ==
    ASSUME BaseInv, SeedIngests(Demo)
    PROVE  BaseInv'
  <1> DEFINE x == [Idle EXCEPT !.pc = "start", !.source = Demo]
  <1>1. Seed \in Runners /\ Seed \notin Workers
    BY ConstantsOK DEF Runners
  <1>2. x \in RunRecord
    BY DemoOK DEF Idle, RunRecord, PCs
  <1>3. RunFits(Seed, x)
    BY <1>1, DemoOK DEF Idle, RunFits
  <1>4. RunsTyped'
    BY <1>1, <1>2, <1>3, OneRunner DEF BaseInv, SeedIngests
  <1> QED
    BY <1>4, JobsKept, StoresKept, RestKept DEF BaseInv, SeedIngests, rows, graph, counters

-----------------------------------------------------------------------------
(* The seed script and the operator *)

LEMMA SeedsSource ==
    ASSUME BaseInv, SeedSource
    PROVE  BaseInv'
  <1>1. RestTyped'
    BY DEF BaseInv, RestTyped, SeedSource, counters
  <1> QED
    BY <1>1, JobsKept, RunsKept, StoresKept DEF BaseInv, SeedSource, graph

LEMMA Downgraded ==
    ASSUME BaseInv, OperatorDowngrades
    PROVE  BaseInv'
  <1>1. RestTyped'
    BY DEF BaseInv, RestTyped, OperatorDowngrades, counters
  <1>2. JobsTyped'
    BY NewJobTyped DEF BaseInv, JobsTyped, OperatorDowngrades, Quiet
  <1> QED
    BY <1>1, <1>2, RunsKept, StoresKept DEF BaseInv, OperatorDowngrades, graph

LEMMA AttemptStep ==
    ASSUME BaseInv, NEW r \in Runners, Pipeline(r) \/ Return(r) \/ GiveUp(r)
    PROVE  BaseInv'
  BY Starts, Reads, Upserts, Graphs, Progresses, Returns DEF Pipeline

LEMMA AdministerStep ==
    ASSUME BaseInv, Administer
    PROVE  BaseInv'
  BY CreateOrDelete, Syncs, Publishes, Schedules, Edits, Erases DEF Administer

LEMMA WorkerStep ==
    ASSUME BaseInv, NEW w \in Workers, Serve(w) \/ Lose(w)
    PROVE  BaseInv'
  BY WorkerIsNotSeed, AttemptStep, Retries, Takes, Crashes, Redelivers
     DEF Serve, Attempt, Lose

LEMMA SeedStep ==
    ASSUME BaseInv, SeedScript
    PROVE  BaseInv'
  <1>1. Seed \in Runners
    BY DEF Runners
  <1>2. CASE SeedUpgrades \/ SeedEnsures \/ SeedRoles \/ SeedUsers \/ SeedFinishes
    BY <1>2, AllKept DEF SeedUpgrades, SeedEnsures, SeedRoles, SeedUsers, SeedFinishes
  <1>3. CASE SeedSource
    BY <1>3, SeedsSource
  <1>4. CASE SeedStartsIngestion
    BY <1>4, SeedBegins DEF SeedStartsIngestion
  <1>5. CASE SeedRuns \/ SeedIngested
    BY <1>1, <1>5, AttemptStep DEF SeedRuns, SeedIngested
  <1>6. CASE SeedFails
    BY <1>1, <1>6, AttemptStep, AllKept DEF SeedFails
  <1> QED
    BY <1>2, <1>3, <1>4, <1>5, <1>6 DEF SeedScript

LEMMA BaseStep ==
    ASSUME BaseInv, [Next]_vars
    PROVE  BaseInv'
  <1>1. CASE SeedScript
    BY <1>1, SeedStep
  <1>2. CASE WorkerActs
    BY <1>2, WorkerStep DEF WorkerActs
  <1>3. CASE AdministratorActs
    BY <1>3, AdministerStep DEF AdministratorActs
  <1>4. CASE OperatorDowngrades
    BY <1>4, Downgraded
  <1>5. CASE AdministratorEdits \/ OperatorUpgrades \/ OperatorAlters
    BY <1>5, AllKept DEF AdministratorEdits, OperatorUpgrades, OperatorAlters
  <1>6. CASE UNCHANGED vars
    BY <1>6, AllKept DEF vars
  <1> QED
    BY <1>1, <1>2, <1>3, <1>4, <1>5, <1>6 DEF Next

LEMMA BaseAlways == Spec => []BaseInv
  BY BaseInit, BaseStep, PTL DEF Spec

\* Every variable of the platform keeps its type, a queued message is one the
\* broker may hold, and the graph has no edge without its two nodes.
THEOREM TypeCorrect == Spec => []TypeOK
  <1>1. BaseInv => TypeOK
    BY DEF BaseInv, JobsTyped, StoresTyped, RestTyped, JobRecord, TypeOK
  <1> QED
    BY <1>1, BaseAlways, PTL

-----------------------------------------------------------------------------
(* What a step can do to the runners and to the stores *)

LEMMA StepKinds ==
    ASSUME Next
    PROVE  \/ Administer
           \/ \E r \in Runners : Pipeline(r) \/ Return(r) \/ GiveUp(r)
           \/ \E w \in Workers : Take(w) \/ Retry(w) \/ Crash(w) \/ Redeliver(w)
           \/ SeedIngests(Demo) \/ SeedSource \/ OperatorDowngrades
           \/ UNCHANGED ivars
  <1>1. Seed \in Runners
    BY DEF Runners
  <1>2. CASE SeedScript
    BY <1>1, <1>2
       DEF SeedScript, SeedUpgrades, SeedEnsures, SeedRoles, SeedUsers, SeedStartsIngestion,
           SeedRuns, SeedIngested, SeedFinishes, SeedFails
  <1>3. CASE WorkerActs
    BY <1>3, WorkerIsNotSeed DEF WorkerActs, Serve, Attempt, Lose
  <1>4. CASE AdministratorActs \/ AdministratorEdits \/ OperatorUpgrades \/ OperatorAlters
    BY <1>4 DEF AdministratorActs, AdministratorEdits, OperatorUpgrades, OperatorAlters
  <1> QED
    BY <1>2, <1>3, <1>4 DEF Next

LEMMA StoreSteps ==
    ASSUME Next
    PROVE  /\ UNCHANGED driverUp
           /\ UNCHANGED file \/ \E d \in Docs : EditFile(d)
           /\ \/ UNCHANGED chunks
              \/ \E a \in Authors : EraseChunks(a)
              \/ \E r \in Runners : UpsertChunks(r)
           /\ \/ UNCHANGED <<documents, authored, persons>>
              \/ \E a \in Authors : ErasePerson(a)
              \/ \E r \in Runners : UpdateGraph(r)
           /\ \/ UNCHANGED erasure
              \/ \E a \in Authors :
                   EraseChunks(a) \/ ErasePerson(a) \/ EraseAudited(a) \/ EraseFails(a)
  <1>1. CASE Administer
    <2>1. CASE \E s \in Sources : CreateSource(s) \/ DeleteSource(s) \/ SyncNow(s)
      BY <2>1 DEF CreateSource, DeleteSource, SyncNow, graph, env
    <2>2. CASE (\E j \in Jobs : Publish(j) \/ PublishFails(j)) \/ ScheduledSync
      BY <2>2 DEF Publish, PublishFails, ScheduledSync, rows, graph, env
    <2>3. CASE \E a \in Authors :
                  EraseChunks(a) \/ ErasePerson(a) \/ EraseAudited(a) \/ EraseFails(a)
      BY <2>3 DEF EraseChunks, ErasePerson, EraseAudited, EraseFails, Erasing, env
    <2>4. CASE \E d \in Docs : EditFile(d)
      BY <2>4 DEF EditFile, rows, graph, env
    <2> QED
      BY <1>1, <2>1, <2>2, <2>3, <2>4 DEF Administer
  <1>2. CASE \E r \in Runners : Pipeline(r) \/ Return(r) \/ GiveUp(r)
    BY <1>2 DEF Pipeline, StartJob, ReadDocument, UpsertChunks, UpdateGraph, Progress,
                Complete, Return, GiveUp, rows, graph, env
  <1>3. CASE \E w \in Workers : Take(w) \/ Retry(w) \/ Crash(w) \/ Redeliver(w)
    BY <1>3 DEF Take, Retry, Crash, Redeliver, rows, graph, env
  <1>4. CASE SeedIngests(Demo) \/ SeedSource \/ OperatorDowngrades \/ UNCHANGED ivars
    BY <1>4 DEF SeedIngests, SeedSource, OperatorDowngrades, ivars, rows, graph, env
  <1> QED
    BY <1>1, <1>2, <1>3, <1>4, StepKinds

\* A runner begins, goes on, or ends; its source changes only at the ends.
Begins(r) ==
    /\ run[r].pc = "idle"
    /\ \E x \in RunRecord : x.pc = "start" /\ x.chunks = 0 /\ run' = [run EXCEPT ![r] = x]
Disowned(r) == run' = [run EXCEPT ![r].owned = FALSE]

LEMMA RunSteps ==
    ASSUME BaseInv, Next
    PROVE  \/ UNCHANGED run
           \/ \E r \in Runners : Begins(r) \/ Pipeline(r) \/ Ends(r) \/ Disowned(r)
  <1>1. CASE Administer
    BY <1>1 DEF Administer, CreateSource, DeleteSource, SyncNow, Publish, PublishFails,
        ScheduledSync, EraseChunks, ErasePerson, EraseAudited, EraseFails, Erasing, EditFile
  <1>2. CASE \E r \in Runners : Pipeline(r) \/ Return(r) \/ GiveUp(r)
    BY <1>2 DEF Return, GiveUp
  <1>3. CASE \E w \in Workers : Retry(w) \/ Crash(w) \/ Redeliver(w)
    BY <1>3, WorkerIsNotSeed DEF Retry, Crash, Redeliver, Disowned
  <1>4. CASE \E w \in Workers : Take(w)
    <2>1. PICK w \in Workers : Take(w)
      BY <1>4
    <2>2. PICK m \in queue :
            run' = [run EXCEPT ![w] = [Idle EXCEPT !.pc = "start", !.msg = m, !.owned = TRUE,
                                                   !.source = m.source, !.job = m.job]]
      BY <2>1 DEF Take
    <2>3. m \in Messages /\ run[w].pc = "idle" /\ w \in Runners
      BY <2>1, WorkerIsNotSeed DEF BaseInv, JobsTyped, Take, Active
    <2>4. [Idle EXCEPT !.pc = "start", !.msg = m, !.owned = TRUE,
                       !.source = m.source, !.job = m.job] \in RunRecord
      BY <2>3 DEF Idle, RunRecord, PCs, Messages
    <2> QED
      BY <2>2, <2>3, <2>4 DEF Begins, Idle
  <1>5. CASE SeedIngests(Demo)
    <2>1. [Idle EXCEPT !.pc = "start", !.source = Demo] \in RunRecord
      BY DemoOK DEF Idle, RunRecord, PCs
    <2> QED
      BY <1>5, <2>1 DEF SeedIngests, Begins, Active, Runners, Idle
  <1>6. CASE SeedSource \/ OperatorDowngrades \/ UNCHANGED ivars
    BY <1>6 DEF SeedSource, OperatorDowngrades, ivars
  <1> QED
    BY <1>1, <1>2, <1>3, <1>4, <1>5, <1>6, StepKinds

LEMMA HistoryGrows ==
    ASSUME Next
    PROVE  torn \subseteq torn' /\ edited \subseteq edited' /\ reingested \subseteq reingested'
           /\ redelivered \subseteq redelivered'
  BY DEF Next, Observe

-----------------------------------------------------------------------------
(* The two stores *)

\* What a step of the pipeline leaves alone.
LEMMA Goes ==
    ASSUME BaseInv, NEW r \in Runners, Pipeline(r)
    PROVE  /\ run \in [Runners -> RunRecord] /\ run' \in [Runners -> RunRecord]
           /\ \A q \in Runners \ {r} : run'[q] = run[q]
           /\ run[r].source \in Sources
           /\ run'[r].source = run[r].source /\ run'[r].msg = run[r].msg
           /\ run'[r].owned = run[r].owned
           /\ UpdateGraph(r) \/ run'[r].next = run[r].next
           /\ StartJob(r) \/ run'[r].job = run[r].job
           /\ run[r].pc # "idle" /\ run[r].pc # run'[r].pc
           /\ run'[r].pc \notin {"idle", "start"}
  <1>1. run \in [Runners -> RunRecord] /\ run' \in [Runners -> RunRecord]
    BY AttemptStep DEF BaseInv, RunsTyped
  <1>2. run[r].pc # "idle" /\ run[r].source \in Sources
    BY DEF BaseInv, RunsTyped, RunFits, Pipeline, StartJob, ReadDocument, UpsertChunks,
           UpdateGraph, Progress, Complete
  <1>3. CASE StartJob(r) \/ ReadDocument(r) \/ UpsertChunks(r)
    BY <1>1, <1>2, <1>3 DEF StartJob, ReadDocument, UpsertChunks, RunRecord
  <1>4. CASE UpdateGraph(r) \/ Progress(r) \/ Complete(r)
    BY <1>1, <1>2, <1>4 DEF UpdateGraph, Progress, Complete, RunRecord
  <1> QED
    BY <1>3, <1>4 DEF Pipeline

\* The attempt of r ends.
LEMMA Finishes ==
    ASSUME BaseInv, NEW r \in Runners, Ends(r)
    PROVE  run'[r] = Idle /\ \A q \in Runners \ {r} : run'[q] = run[q]
  BY DEF Ends, BaseInv, RunsTyped

\* A runner between the two stores leaves them by the graph or for good.
LEMMA LeavesGraph ==
    ASSUME BaseInv, Next, NEW r \in Runners, run[r].pc = "graph"
    PROVE  \/ run'[r].pc = "graph" /\ Document(r)' = Document(r)
           \/ UpdateGraph(r)
           \/ Document(r) \in torn'
  <1>1. CASE UNCHANGED run
    BY <1>1 DEF Document
  <1>2. ASSUME NEW q \in Runners, Begins(q)
        PROVE  run'[r].pc = "graph" /\ Document(r)' = Document(r)
    BY <1>2 DEF Begins, Document, BaseInv, RunsTyped
  <1>3. ASSUME NEW q \in Runners, Pipeline(q)
        PROVE  (run'[r].pc = "graph" /\ Document(r)' = Document(r)) \/ UpdateGraph(r)
    <2>1. CASE q = r
      BY <1>3, <2>1 DEF Pipeline, StartJob, ReadDocument, UpsertChunks, Progress, Complete
    <2>2. CASE q # r
      BY <1>3, <2>2, Goes DEF Document
    <2> QED
      BY <2>1, <2>2
  <1>4. ASSUME NEW q \in Runners, Ends(q)
        PROVE  (run'[r].pc = "graph" /\ Document(r)' = Document(r)) \/ Document(r) \in torn'
    <2>1. CASE q = r
      <3>1. r \in Ended
        BY <1>4, <2>1, Finishes DEF Ended
      <3> QED
        BY <3>1 DEF Next, Observe
    <2>2. CASE q # r
      BY <1>4, <2>2, Finishes DEF Document
    <2> QED
      BY <2>1, <2>2
  <1>5. ASSUME NEW q \in Runners, Disowned(q)
        PROVE  run'[r].pc = "graph" /\ Document(r)' = Document(r)
    BY <1>5 DEF Disowned, Document, BaseInv, RunsTyped, RunRecord
  <1> QED
    BY <1>1, <1>2, <1>3, <1>4, <1>5, RunSteps

LEMMA GraphKept ==
    ASSUME BaseInv, GraphFollows, Next
    PROVE  GraphFollows'
  <1> SUFFICES ASSUME NEW x \in Rows, chunks'[x] # None
               PROVE  \/ x[1] \in documents' \cup torn'
                      \/ \E r \in Runners : run'[r].pc = "graph" /\ Document(r)' = x[1]
    BY DEF GraphFollows
  <1>1. torn \subseteq torn' /\ documents \subseteq documents'
    BY StoreSteps, HistoryGrows DEF UpdateGraph, ErasePerson, Erasing
  <1>2. CASE chunks[x] # None
    <2>1. CASE x[1] \in documents \cup torn
      BY <1>1, <2>1
    <2>2. CASE \E r \in Runners : run[r].pc = "graph" /\ Document(r) = x[1]
      <3>1. PICK r \in Runners : run[r].pc = "graph" /\ Document(r) = x[1]
        BY <2>2
      <3>2. UpdateGraph(r) => Document(r) \in documents'
        BY DEF UpdateGraph
      <3> QED
        BY <3>1, <3>2, LeavesGraph
    <2> QED
      BY <1>2, <2>1, <2>2 DEF GraphFollows
  <1>3. CASE chunks[x] = None
    <2>1. PICK r \in Runners : UpsertChunks(r)
      BY <1>3, StoreSteps DEF EraseChunks
    <2>2. x[1] = Document(r)
      BY <1>3, <2>1 DEF UpsertChunks
    <2>3. run'[r].pc = "graph"
      BY <2>1 DEF UpsertChunks, BaseInv, RunsTyped, RunRecord
    <2>4. Document(r)' = Document(r)
      BY <2>1 DEF UpsertChunks, Document, BaseInv, RunsTyped, RunRecord
    <2> QED
      BY <2>2, <2>3, <2>4
  <1> QED
    BY <1>2, <1>3

\* A document with chunks is in the graph, or an attempt is between the two
\* stores or has ended there: the pipeline writes them one after the other.
THEOREM GraphFollowsHolds == Spec => []GraphFollows
  <1>1. Start => GraphFollows
    BY DEF Start, Init, GraphFollows
  <1>2. ASSUME GraphFollows, UNCHANGED vars PROVE GraphFollows'
    BY <1>2 DEF GraphFollows, Document, vars, ivars, rows, graph, history
  <1> QED
    BY <1>1, <1>2, GraphKept, BaseAlways, PTL DEF Spec

-----------------------------------------------------------------------------
(* The erasure of an author *)

\* What is gone stays gone from the moment its step is done.
ErasureInv ==
    \A a \in Authors \ reingested :
        /\ erasure[a] # "idle" => \A x \in Rows : Author[x[1]] = a => chunks[x] = None
        /\ erasure[a] \in {"person", "audited"} =>
             a \notin persons /\ \A d \in authored : Author[d] # a

\* An author whose document is written meanwhile is ingested again.
LEMMA WritesReingest ==
    ASSUME BaseInv, Next, NEW r \in Runners, UpsertChunks(r) \/ UpdateGraph(r),
           erasure[Author[Document(r)]] # "idle"
    PROVE  Author[Document(r)] \in reingested'
  <1>1. run[r].pc \in {"upsert", "graph"}
    BY DEF UpsertChunks, UpdateGraph
  <1>2. Author[Document(r)] \in Authors
    BY <1>1, AtDocument, ConstantsOK DEF BaseInv
  <1>3. run'[r].pc \notin {run[r].pc, "idle"}
    BY Goes DEF Pipeline
  <1> QED
    BY <1>1, <1>2, <1>3 DEF Next, Observe

LEMMA ErasureKept ==
    ASSUME BaseInv, ErasureInv, Next
    PROVE  ErasureInv'
  <1> SUFFICES ASSUME NEW a \in Authors, a \notin reingested'
               PROVE  /\ erasure'[a] # "idle" =>
                           \A x \in Rows : Author[x[1]] = a => chunks'[x] = None
                      /\ erasure'[a] \in {"person", "audited"} =>
                           a \notin persons' /\ \A d \in authored' : Author[d] # a
    BY DEF ErasureInv
  <1>1. a \notin reingested /\ erasure \in [Authors -> ErasureStates]
    BY HistoryGrows DEF BaseInv, RestTyped
  <1>2. \A r \in Runners : (UpsertChunks(r) \/ UpdateGraph(r)) /\ erasure[a] # "idle"
                            => Author[Document(r)] # a
    BY WritesReingest
  <1>3. ASSUME erasure'[a] # "idle", NEW x \in Rows, Author[x[1]] = a PROVE chunks'[x] = None
    <2>1. CASE erasure[a] # "idle"
      <3>1. chunks[x] = None
        BY <1>1, <1>3, <2>1 DEF ErasureInv
      <3> QED
        BY <1>2, <1>3, <2>1, <3>1, StoreSteps DEF EraseChunks, UpsertChunks
    <2>2. CASE erasure[a] = "idle"
      <3>1. PICK b \in Authors :
              EraseChunks(b) \/ ErasePerson(b) \/ EraseAudited(b) \/ EraseFails(b)
        BY <1>3, <2>2, StoreSteps
      <3>2. EraseChunks(a)
        BY <1>1, <1>3, <2>2, <3>1
           DEF EraseChunks, ErasePerson, EraseAudited, EraseFails, Erasing
      <3> QED
        BY <1>3, <3>2 DEF EraseChunks
    <2> QED
      BY <2>1, <2>2
  <1>4. ASSUME erasure'[a] \in {"person", "audited"}
        PROVE  a \notin persons' /\ \A d \in authored' : Author[d] # a
    <2>1. CASE ErasePerson(a)
      BY <2>1 DEF ErasePerson
    <2>2. CASE ~ErasePerson(a)
      <3>1. erasure[a] \in {"person", "audited"}
        BY <1>1, <1>4, <2>2, StoreSteps
           DEF EraseChunks, ErasePerson, EraseAudited, EraseFails, Erasing
      <3>2. a \notin persons /\ \A d \in authored : Author[d] # a
        BY <1>1, <3>1 DEF ErasureInv
      <3>3. \A r \in Runners : UpdateGraph(r) => Author[Document(r)] # a
        BY <1>2, <3>1
      <3> QED
        BY <3>2, <3>3, StoreSteps DEF ErasePerson, UpdateGraph
    <2> QED
      BY <2>1, <2>2
  <1> QED
    BY <1>3, <1>4

\* When the erasure of an author is in the audit log, nothing of the author is
\* in either store, unless documents were ingested since it began.
THEOREM ErasureHolds == Spec => []AuditedErasureHolds
  <1>1. Start => ErasureInv
    BY DEF Start, Init, ErasureInv
  <1>2. ASSUME ErasureInv, UNCHANGED vars PROVE ErasureInv'
    BY <1>2 DEF ErasureInv, vars, ivars, rows, graph, history
  <1>3. ErasureInv => AuditedErasureHolds
    BY DEF ErasureInv, AuditedErasureHolds
  <1> QED
    BY <1>1, <1>2, <1>3, ErasureKept, BaseAlways, PTL DEF Spec

-----------------------------------------------------------------------------
(* The rows of a document *)

\* What an attempt has read is what the file still is, unless it was edited.
ReadIsCurrent ==
    \A r \in Runners : run[r].pc = "upsert" /\ Document(r) \notin edited =>
        run[r].got = file[Document(r)]

LEMMA FileKept ==
    ASSUME BaseInv, Next, NEW d \in Docs, d \notin edited'
    PROVE  d \notin edited /\ file'[d] = file[d]
  BY DEF Next, Observe

LEMMA ReadKept ==
    ASSUME BaseInv, ReadIsCurrent, Next
    PROVE  ReadIsCurrent'
  <1> SUFFICES ASSUME NEW r \in Runners, run'[r].pc = "upsert", Document(r)' \notin edited'
               PROVE  run'[r].got = file'[Document(r)']
    BY DEF ReadIsCurrent
  <1>1. ASSUME run'[r] = run[r] PROVE run'[r].got = file'[Document(r)']
    <2>1. Document(r)' = Document(r) /\ Document(r) \in Docs
      BY <1>1, AtDocument DEF Document, BaseInv
    <2> QED
      BY <1>1, <2>1, FileKept DEF ReadIsCurrent
  <1>2. ASSUME Pipeline(r) PROVE run'[r].got = file'[Document(r)']
    <2>1. ReadDocument(r)
      BY <1>2 DEF Pipeline, StartJob, ReadDocument, UpsertChunks, UpdateGraph, Progress,
                  Complete, BaseInv, RunsTyped, RunRecord
    <2>2. /\ run'[r].got = file[Document(r)] /\ UNCHANGED file
          /\ Document(r)' = Document(r)
      BY <2>1 DEF ReadDocument, Document, BaseInv, RunsTyped, RunRecord
    <2> QED
      BY <2>2
  <1>3. ASSUME Disowned(r) PROVE run'[r].got = file'[Document(r)']
    <2>1. /\ run'[r].got = run[r].got /\ run[r].pc = "upsert"
          /\ Document(r)' = Document(r)
      BY <1>3 DEF Disowned, Document, BaseInv, RunsTyped, RunRecord
    <2>2. Document(r) \in Docs
      BY <2>1, AtDocument DEF BaseInv
    <2> QED
      BY <2>1, <2>2, FileKept DEF ReadIsCurrent
  <1>4. ~Ends(r) /\ ~Begins(r)
    BY IdleTyped DEF Ends, Begins, BaseInv, RunsTyped
  <1>5. ASSUME NEW q \in Runners, q # r, Begins(q) \/ Pipeline(q) \/ Ends(q) \/ Disowned(q)
        PROVE  run'[r] = run[r]
    BY <1>5, Goes DEF Begins, Ends, Disowned, BaseInv, RunsTyped
  <1> QED
    BY <1>1, <1>2, <1>3, <1>4, <1>5, RunSteps

\* The tag of a row, and what it may come from.
Fits(tag, x, c) ==
    /\ x[2] <= c.size
    /\ \/ tag = c.tag
       \/ c.tag = Untagged /\ tag = Engineering
       \/ c.tag = Blank /\ \E s \in Sources : x[1] \in ToSet(Files[s]) /\ tag = DefaultTag[s]

LEMMA UpsertFits ==
    ASSUME BaseInv, NEW r \in Runners, UpsertChunks(r), NEW x \in Rows, x[1] = Document(r),
           x[2] <= run[r].got.size
    PROVE  Fits(PermissionTag(run[r].got.tag, run[r].source), x, run[r].got)
  <1>1. /\ run[r].source \in Sources
        /\ run[r].next \in 1..Len(Files[run[r].source])
    BY AtDocument DEF BaseInv, UpsertChunks
  <1>2. x[1] \in ToSet(Files[run[r].source])
    BY <1>1, ConstantsOK DEF Document, ToSet
  <1> QED
    BY <1>1, <1>2, ConstantsOK DEF Fits, PermissionTag, TagOf

LEMMA MirrorKept ==
    ASSUME BaseInv, ReadIsCurrent, StoreMirrorsFiles, Next
    PROVE  StoreMirrorsFiles'
  <1> SUFFICES ASSUME NEW x \in Rows, chunks'[x] # None, x[1] \notin edited'
               PROVE  Fits(chunks'[x], x, file'[x[1]])
    BY DEF StoreMirrorsFiles, Fits
  <1>1. x[1] \in Docs /\ x[1] \notin edited /\ file'[x[1]] = file[x[1]]
    BY FileKept DEF Rows
  <1>2. CASE chunks'[x] = chunks[x]
    BY <1>1, <1>2 DEF StoreMirrorsFiles, Fits
  <1>3. CASE chunks'[x] # chunks[x]
    <2>1. PICK r \in Runners : UpsertChunks(r)
      BY <1>3, StoreSteps DEF EraseChunks
    <2>2. /\ x[1] = Document(r) /\ x[2] <= run[r].got.size
          /\ chunks'[x] = PermissionTag(run[r].got.tag, run[r].source)
      BY <1>3, <2>1 DEF UpsertChunks
    <2>3. run[r].got = file[x[1]]
      BY <1>1, <2>1, <2>2 DEF ReadIsCurrent, UpsertChunks
    <2> QED
      BY <1>1, <2>1, <2>2, <2>3, UpsertFits
  <1> QED
    BY <1>2, <1>3

\* The rows of a document that nobody edits are its chunks, with its own tag,
\* or the mock connector's, or that of its source.
THEOREM MirrorHolds == Spec => []StoreMirrorsFiles
  <1>1. Start => ReadIsCurrent /\ StoreMirrorsFiles
    BY IdleTyped DEF Start, Init, ReadIsCurrent, StoreMirrorsFiles
  <1>2. ASSUME ReadIsCurrent, StoreMirrorsFiles, UNCHANGED vars
        PROVE  ReadIsCurrent' /\ StoreMirrorsFiles'
    BY <1>2 DEF ReadIsCurrent, StoreMirrorsFiles, Document, vars, ivars, rows, history
  <1> QED
    BY <1>1, <1>2, ReadKept, MirrorKept, BaseAlways, PTL DEF Spec

-----------------------------------------------------------------------------
(* What the administrators changed *)

LEMMA SourceSteps ==
    ASSUME Next
    PROVE  \/ UNCHANGED source
           \/ SeedSource \/ OperatorDowngrades
           \/ \E s \in Sources : CreateSource(s) \/ DeleteSource(s)
  <1>1. CASE Administer
    BY <1>1 DEF Administer, SyncNow, Publish, PublishFails, ScheduledSync, EraseChunks,
                ErasePerson, EraseAudited, EraseFails, Erasing, EditFile, rows
  <1>2. CASE \E r \in Runners : Pipeline(r) \/ Return(r) \/ GiveUp(r)
    BY <1>2 DEF Pipeline, StartJob, ReadDocument, UpsertChunks, UpdateGraph, Progress,
                Complete, Return, GiveUp, rows
  <1>3. CASE \E w \in Workers : Take(w) \/ Retry(w) \/ Crash(w) \/ Redeliver(w)
    BY <1>3 DEF Take, Retry, Crash, Redeliver, rows
  <1>4. CASE SeedIngests(Demo) \/ UNCHANGED ivars
    BY <1>4 DEF SeedIngests, ivars, rows
  <1> QED
    BY <1>1, <1>2, <1>3, <1>4, StepKinds

\* Only the check of the source leads past it.
LEMMA PastTheStart ==
    ASSUME BaseInv, Next, NEW r \in Runners, run[r].pc \in {"idle", "start"},
           run'[r].pc \notin {"idle", "start"}
    PROVE  StartJob(r)
  <1>1. ASSUME NEW q \in Runners, Begins(q) \/ Ends(q) \/ Disowned(q)
        PROVE  run'[r].pc \in {"idle", "start"}
    BY <1>1, IdleTyped DEF Begins, Ends, Disowned, BaseInv, RunsTyped, RunRecord
  <1>2. PICK q \in Runners : Pipeline(q)
    BY <1>1, RunSteps
  <1>3. q = r
    BY <1>2, Goes
  <1> QED
    BY <1>2, <1>3 DEF Pipeline, ReadDocument, UpsertChunks, UpdateGraph, Progress, Complete

\* Running the script again undoes no edit of a role or a user and brings no
\* deleted source back.
THEOREM SeedKeepsChangesHolds == Spec => SeedKeepsChanges
  <1>1. ASSUME BaseInv, [Next]_vars, seedStep # 0
        PROVE  /\ roles = "edited" => roles' = "edited"
               /\ users = "edited" => users' = "edited"
               /\ source[Demo] = "deleted" =>
                    /\ source'[Demo] = "deleted"
                    /\ run[Seed].pc = "start" => run'[Seed].pc \in {"idle", "start"}
    <2>1. CASE UNCHANGED vars
      BY <2>1 DEF vars, ivars, rows, demo
    <2>2. CASE Next
      <3>1. roles = "edited" => roles' = "edited"
        BY <1>1, <2>2
           DEF Next, SeedScript, SeedUpgrades, SeedEnsures, SeedRoles, SeedUsers, SeedSource,
               SeedStartsIngestion, SeedRuns, SeedIngested, SeedFinishes, SeedFails, WorkerActs,
               AdministratorActs, AdministratorEdits, OperatorDowngrades, OperatorUpgrades,
               OperatorAlters, Quiet, demo
      <3>2. users = "edited" => users' = "edited"
        BY <1>1, <2>2
           DEF Next, SeedScript, SeedUpgrades, SeedEnsures, SeedRoles, SeedUsers, SeedSource,
               SeedStartsIngestion, SeedRuns, SeedIngested, SeedFinishes, SeedFails, WorkerActs,
               AdministratorActs, AdministratorEdits, OperatorDowngrades, OperatorUpgrades,
               OperatorAlters, Quiet, demo
      <3>3. ASSUME source[Demo] = "deleted" PROVE source'[Demo] = "deleted"
        <4>1. UNCHANGED source \/ SeedSource \/ OperatorDowngrades
                \/ \E s \in Sources : CreateSource(s) \/ DeleteSource(s)
          BY <2>2, SourceSteps
        <4> QED
          BY <1>1, <3>3, <4>1, DemoOK
             DEF SeedSource, OperatorDowngrades, Quiet, CreateSource, DeleteSource,
                 BaseInv, RestTyped
      <3>4. ASSUME source[Demo] = "deleted", run[Seed].pc = "start"
            PROVE  run'[Seed].pc \in {"idle", "start"}
        <4>1. Seed \in Runners
          BY DEF Runners
        <4>2. run[Seed].source = Demo
          BY <1>1, <3>4, <4>1 DEF BaseInv, RunsTyped, RunFits
        <4> QED
          BY <1>1, <2>2, <3>4, <4>1, <4>2, PastTheStart DEF StartJob, Refused
      <3> QED
        BY <3>1, <3>2, <3>3, <3>4
    <2> QED
      BY <1>1, <2>1, <2>2
  <1> QED
    BY <1>1, BaseAlways, PTL DEF Spec, SeedKeepsChanges

-----------------------------------------------------------------------------
(* Who holds a job: sync_now before it publishes, a message, a runner *)

LEMMA JobSteps ==
    ASSUME Next
    PROVE  \/ UNCHANGED job \/ OperatorDowngrades
           \/ \E s \in Sources : SyncNow(s)
           \/ \E r \in Runners : StartJob(r) \/ Progress(r) \/ Complete(r)
  <1>1. CASE Administer
    BY <1>1 DEF Administer, CreateSource, DeleteSource, Publish, PublishFails, ScheduledSync,
                EraseChunks, ErasePerson, EraseAudited, EraseFails, Erasing, EditFile, rows
  <1>2. CASE \E r \in Runners : Pipeline(r) \/ Return(r) \/ GiveUp(r)
    BY <1>2 DEF Pipeline, ReadDocument, UpsertChunks, UpdateGraph, Return, GiveUp, rows
  <1>3. CASE \E w \in Workers : Take(w) \/ Retry(w) \/ Crash(w) \/ Redeliver(w)
    BY <1>3 DEF Take, Retry, Crash, Redeliver, rows
  <1>4. CASE SeedIngests(Demo) \/ SeedSource \/ UNCHANGED ivars
    BY <1>4 DEF SeedIngests, SeedSource, ivars, rows
  <1> QED
    BY <1>1, <1>2, <1>3, <1>4, StepKinds

LEMMA PublishingSteps ==
    ASSUME Next
    PROVE  \/ UNCHANGED publishing
           \/ \E s \in Sources : SyncNow(s)
           \/ \E j \in publishing :
                publishing' = publishing \ {j} /\ (Publish(j) \/ PublishFails(j))
  <1>1. CASE Administer
    BY <1>1 DEF Administer, CreateSource, DeleteSource, Publish, PublishFails, ScheduledSync,
                EraseChunks, ErasePerson, EraseAudited, EraseFails, Erasing, EditFile
  <1>2. CASE \E r \in Runners : Pipeline(r) \/ Return(r) \/ GiveUp(r)
    BY <1>2 DEF Pipeline, StartJob, ReadDocument, UpsertChunks, UpdateGraph, Progress,
                Complete, Return, GiveUp
  <1>3. CASE \E w \in Workers : Take(w) \/ Retry(w) \/ Crash(w) \/ Redeliver(w)
    BY <1>3 DEF Take, Retry, Crash, Redeliver
  <1>4. CASE SeedIngests(Demo) \/ SeedSource \/ OperatorDowngrades \/ UNCHANGED ivars
    BY <1>4 DEF SeedIngests, SeedSource, OperatorDowngrades, ivars
  <1> QED
    BY <1>1, <1>2, <1>3, <1>4, StepKinds

\* Worker w hands its message on.
HandsOn(w, m) ==
    /\ Active(w) /\ m.job = run[w].msg.job /\ m.source = run[w].msg.source
    /\ (Retry(w) /\ m \in Retried(run[w].msg)) \/ Crash(w) \/ Redeliver(w)

LEMMA MessageSteps ==
    ASSUME BaseInv, Next, NEW m \in queue'
    PROVE  \/ m \in queue
           \/ \E j \in publishing : Publish(j) /\ m = Message(job[j].source, j)
           \/ m.job = NoJob
           \/ \E w \in Workers : HandsOn(w, m)
  <1>1. CASE Administer
    BY <1>1 DEF Administer, CreateSource, DeleteSource, SyncNow, Publish, PublishFails,
                ScheduledSync, EraseChunks, ErasePerson, EraseAudited, EraseFails, Erasing,
                EditFile, Message
  <1>2. CASE \E r \in Runners : Pipeline(r) \/ Return(r) \/ GiveUp(r)
    BY <1>2 DEF Pipeline, StartJob, ReadDocument, UpsertChunks, UpdateGraph, Progress,
                Complete, Return, GiveUp
  <1>3. CASE \E w \in Workers : Take(w)
    BY <1>3 DEF Take
  <1>4. CASE \E w \in Workers : Retry(w)
    <2>1. PICK w \in Workers : Retry(w)
      BY <1>4
    <2>2. Active(w) /\ run[w].msg \in Messages /\ run[w].msg.retries # MaxRetries
      BY <2>1, WorkerIsNotSeed, MayRaiseActive, WorkerMessage DEF Retry, LastAttempt, BaseInv
    <2> QED
      BY <2>1, <2>2, RetriedTyped DEF Retry, HandsOn
  <1>5. CASE \E w \in Workers : Crash(w)
    <2>1. PICK w \in Workers : Crash(w)
      BY <1>5
    <2>2. Active(w) /\ run[w].msg \in Messages /\ crashes < MaxCrashes
      BY <2>1, WorkerMessage DEF Crash, MayCrash, BaseInv
    <2>3. \A n \in Again(run[w].msg) : n.job = run[w].msg.job /\ n.source = run[w].msg.source
      BY <2>2, AgainTyped DEF BaseInv
    <2>4. ~LastAttempt(w) => \A n \in Retried(run[w].msg) :
                n.job = run[w].msg.job /\ n.source = run[w].msg.source
      BY <2>2, RetriedTyped, WorkerIsNotSeed DEF LastAttempt
    <2> QED
      BY <2>1, <2>2, <2>3, <2>4 DEF Crash, HandsOn
  <1>6. CASE \E w \in Workers : Redeliver(w)
    <2>1. PICK w \in Workers : Redeliver(w)
      BY <1>6
    <2>2. Active(w) /\ run[w].msg \in Messages /\ crashes < MaxCrashes
      BY <2>1, WorkerMessage DEF Redeliver, MayCrash, BaseInv
    <2> QED
      BY <2>1, <2>2, AgainTyped DEF Redeliver, HandsOn, BaseInv
  <1>7. CASE SeedIngests(Demo) \/ SeedSource \/ OperatorDowngrades \/ UNCHANGED ivars
    BY <1>7 DEF SeedIngests, SeedSource, OperatorDowngrades, ivars
  <1> QED
    BY <1>1, <1>2, <1>3, <1>4, <1>5, <1>6, <1>7, StepKinds

\* Runner r takes a message.
TakesUp(r, m) ==
    /\ Take(r) /\ queue' = queue \ {m}
    /\ run'[r].pc = "start" /\ run'[r].msg = m
    /\ run'[r].source = m.source /\ run'[r].job = m.job

LEMMA HolderSteps ==
    ASSUME BaseInv, Next, NEW r \in Runners
    PROVE  \/ run'[r] = run[r]
           \/ run'[r] = Idle /\ Ends(r)
           \/ /\ Active(r) /\ run'[r].pc # "idle"
              /\ run'[r].source = run[r].source /\ run'[r].msg = run[r].msg
              /\ run'[r].job = run[r].job \/ StartJob(r)
           \/ r \in Workers /\ \E m \in queue : TakesUp(r, m)
           \/ r = Seed /\ ~Active(r) /\ run'[r].job = NoJob /\ run'[r].pc = "start"
  <1>1. CASE Administer \/ SeedSource \/ OperatorDowngrades \/ UNCHANGED ivars
    BY <1>1 DEF Administer, CreateSource, DeleteSource, SyncNow, Publish, PublishFails,
                ScheduledSync, EraseChunks, ErasePerson, EraseAudited, EraseFails, Erasing,
                EditFile, SeedSource, OperatorDowngrades, ivars
  <1>2. ASSUME NEW q \in Runners, Ends(q)
        PROVE  run'[r] = run[r] \/ (run'[r] = Idle /\ Ends(r))
    BY <1>2, Finishes
  <1>3. CASE \E q \in Runners : Return(q) \/ GiveUp(q)
    BY <1>2, <1>3 DEF Return, GiveUp
  <1>4. CASE \E w \in Workers : Retry(w) \/ Crash(w)
    BY <1>2, <1>4, WorkerIsNotSeed DEF Retry, Crash
  <1>5. CASE \E q \in Runners : Pipeline(q)
    BY <1>5, Goes DEF Active
  <1>6. CASE \E w \in Workers : Take(w)
    <2>1. PICK w \in Workers : Take(w)
      BY <1>6
    <2>2. PICK m \in queue :
            /\ queue' = queue \ {m}
            /\ run' = [run EXCEPT ![w] = [Idle EXCEPT !.pc = "start", !.msg = m, !.owned = TRUE,
                                                   !.source = m.source, !.job = m.job]]
      BY <2>1 DEF Take
    <2>3. CASE w = r
      BY <2>1, <2>2, <2>3 DEF TakesUp, Idle, BaseInv, RunsTyped
    <2>4. CASE w # r
      BY <2>2, <2>4 DEF BaseInv, RunsTyped
    <2> QED
      BY <2>3, <2>4
  <1>7. CASE \E w \in Workers : Redeliver(w)
    BY <1>7 DEF Redeliver, MayCrash, Active, BaseInv, RunsTyped, RunRecord
  <1>8. CASE SeedIngests(Demo)
    BY <1>8 DEF SeedIngests, Idle, BaseInv, RunsTyped
  <1> QED
    BY <1>1, <1>3, <1>4, <1>5, <1>6, <1>7, <1>8, StepKinds

\* A job that is held is a row, of the source of the holder.
Held(j, s) == j \in Jobs /\ job[j].status # "free" /\ job[j].source = s

JobsFit ==
    \A j \in Jobs : /\ job[j].status # "failed"
                    /\ job[j].status = "free" => job[j].source = None
PublishingHeld == \A j \in publishing : job[j].status # "free"
QueueHeld == \A m \in queue : m.job # NoJob => Held(m.job, m.source)
RunsHeld == \A r \in Runners : run[r].job # NoJob => Held(run[r].job, run[r].source)
WorkersFit ==
    \A w \in Workers : Active(w) =>
        /\ run[w].msg.source = run[w].source
        /\ run[w].msg.job # NoJob => run[w].job = run[w].msg.job

HoldersInv == JobsFit /\ PublishingHeld /\ QueueHeld /\ RunsHeld /\ WorkersFit

LEMMA NewIdNotHeld ==
    ASSUME HoldersInv, Free # {}
    PROVE  /\ NewId \notin publishing
           /\ \A m \in queue : m.job # NewId
           /\ \A r \in Runners : run[r].job # NewId
  <1>1. NewId \in Jobs /\ job[NewId].status = "free"
    BY NewIdIsFree DEF Free
  <1>2. NewId # NoJob
    BY <1>1, ConstantsOK DEF Jobs, NoJob
  <1> QED
    BY <1>1, <1>2 DEF HoldersInv, PublishingHeld, QueueHeld, RunsHeld, Held

\* What a report leaves of a job.
LEMMA ReportSteps ==
    ASSUME BaseInv, NEW r \in Runners, Progress(r) \/ Complete(r)
    PROVE  /\ run[r].job \in Jobs
           /\ \A j \in Jobs : job'[j].source = job[j].source
           /\ \A j \in Jobs \ {run[r].job} : job'[j] = job[j]
           /\ job'[run[r].job].chunks = run[r].chunks
           /\ job'[run[r].job].status = IF Complete(r) THEN "completed" ELSE job[run[r].job].status
  <1>1. run[r].job \in Jobs /\ run[r].pc \in {"progress", "read"}
    BY DEF Progress, Complete, BaseInv, RunsTyped, RunFits
  <1>2. job \in [Jobs -> JobRecord]
    BY DEF BaseInv, JobsTyped
  <1>3. CASE Progress(r)
    <2>1. ~Complete(r)
      BY <1>3 DEF Progress, Complete
    <2> QED
      BY <1>1, <1>2, <1>3, <2>1 DEF Progress, Report, JobRecord
  <1>4. CASE Complete(r)
    BY <1>1, <1>2, <1>4 DEF Complete, Report, JobRecord
  <1> QED
    BY <1>3, <1>4

LEMMA StartSteps ==
    ASSUME BaseInv, HoldersInv, NEW r \in Runners, StartJob(r)
    PROVE  /\ run'[r].job \in Jobs /\ run'[r].source = run[r].source /\ run'[r].msg = run[r].msg
           /\ job'[run'[r].job].status = "running" /\ job'[run'[r].job].source = run[r].source
           /\ \A j \in Jobs \ {run'[r].job} : job'[j] = job[j]
           /\ IF run[r].job = NoJob
              THEN Free # {} /\ run'[r].job = NewId /\ job'[NewId].chunks = 0
              ELSE run'[r].job = run[r].job /\ job'[run[r].job].chunks = job[run[r].job].chunks
  <1>1. job \in [Jobs -> JobRecord] /\ run \in [Runners -> RunRecord]
    BY DEF BaseInv, JobsTyped, RunsTyped
  <1>2. CASE run[r].job = NoJob
    <2>1. Free # {} /\ NewId \in Jobs
      BY <1>2, NewIdIsFree DEF StartJob
    <2>2. job' = [job EXCEPT ![NewId] =
                    [NewJob EXCEPT !.status = "running", !.source = run[r].source]]
      BY <1>2 DEF StartJob
    <2>3. run' = [run EXCEPT ![r].pc = "read", ![r].job = NewId]
      BY <1>2 DEF StartJob
    <2>4. run'[r].job = NewId /\ run'[r].source = run[r].source /\ run'[r].msg = run[r].msg
      BY <1>1, <2>3 DEF RunRecord
    <2>5. /\ job'[NewId] = [NewJob EXCEPT !.status = "running", !.source = run[r].source]
          /\ \A j \in Jobs \ {NewId} : job'[j] = job[j]
      BY <1>1, <2>1, <2>2
    <2> QED
      BY <1>2, <2>1, <2>4, <2>5 DEF NewJob
  <1>3. CASE run[r].job # NoJob
    <2>1. run[r].job \in Jobs
      BY <1>1, <1>3 DEF RunRecord
    <2>2. /\ job'[run[r].job].status = "running" /\ job'[run[r].job].source = run[r].source
          /\ job'[run[r].job].chunks = job[run[r].job].chunks
          /\ \A j \in Jobs \ {run[r].job} : job'[j] = job[j]
      BY <1>1, <1>3, <2>1 DEF StartJob, JobRecord
    <2>3. run'[r].job = run[r].job /\ run'[r].source = run[r].source /\ run'[r].msg = run[r].msg
      BY <1>1, <1>3 DEF StartJob, RunRecord
    <2> QED
      BY <1>3, <2>1, <2>2, <2>3
  <1> QED
    BY <1>2, <1>3

LEMMA SyncSteps ==
    ASSUME BaseInv, NEW s \in Sources, SyncNow(s)
    PROVE  /\ Free # {} /\ NewId \in Jobs
           /\ job'[NewId].status = "pending" /\ job'[NewId].source = s
           /\ job'[NewId].chunks = 0
           /\ \A j \in Jobs \ {NewId} : job'[j] = job[j]
           /\ publishing' = publishing \cup {NewId} /\ UNCHANGED <<queue, run>>
  <1>1. Free # {} /\ NewId \in Jobs
    BY SomeFree, NewIdIsFree DEF SyncNow
  <1> QED
    BY <1>1 DEF SyncNow, BaseInv, JobsTyped, NewJob

LEMMA HeldKept ==
    ASSUME BaseInv, HoldersInv, Next, ~OperatorDowngrades, NEW j, NEW s, Held(j, s)
    PROVE  Held(j, s)'
  <1>1. CASE UNCHANGED job
    BY <1>1 DEF Held
  <1>2. ASSUME NEW t \in Sources, SyncNow(t) PROVE Held(j, s)'
    BY <1>2, SyncSteps, NewIdIsFree DEF Held, Free
  <1>3. ASSUME NEW r \in Runners, StartJob(r) PROVE Held(j, s)'
    <2>1. CASE j = run'[r].job
      <3>1. run[r].job = j
        BY <1>3, <2>1, StartSteps, NewIdIsFree DEF Held, Free
      <3>2. run[r].source = s
        BY <1>3, <2>1, <3>1, StartSteps, ConstantsOK DEF HoldersInv, RunsHeld, Held, Jobs, NoJob
      <3> QED
        BY <1>3, <2>1, <3>2, StartSteps DEF Held
    <2>2. CASE j # run'[r].job
      BY <1>3, <2>2, StartSteps DEF Held
    <2> QED
      BY <2>1, <2>2
  <1>4. ASSUME NEW r \in Runners, Progress(r) \/ Complete(r) PROVE Held(j, s)'
    BY <1>4, ReportSteps DEF Held
  <1> QED
    BY <1>1, <1>2, <1>3, <1>4, JobSteps

LEMMA HoldersKept ==
    ASSUME BaseInv, HoldersInv, Next
    PROVE  HoldersInv'
  <1>1. JobsFit'
    <2>1. ASSUME NEW r \in Runners, StartJob(r), NEW j \in Jobs
          PROVE  job'[j].status # "failed" /\ (job'[j].status = "free" => job'[j].source = None)
      BY <2>1, StartSteps DEF HoldersInv, JobsFit
    <2>2. ASSUME NEW s \in Sources, SyncNow(s), NEW j \in Jobs
          PROVE  job'[j].status # "failed" /\ (job'[j].status = "free" => job'[j].source = None)
      BY <2>2, SyncSteps DEF HoldersInv, JobsFit
    <2>3. ASSUME NEW r \in Runners, Progress(r) \/ Complete(r), NEW j \in Jobs
          PROVE  job'[j].status # "failed" /\ (job'[j].status = "free" => job'[j].source = None)
      BY <2>3, ReportSteps DEF HoldersInv, JobsFit
    <2>4. CASE OperatorDowngrades
      BY <2>4 DEF OperatorDowngrades, HoldersInv, JobsFit, FreeJob, NewJob
    <2> QED
      BY <2>1, <2>2, <2>3, <2>4, JobSteps DEF HoldersInv, JobsFit
  <1>2. CASE OperatorDowngrades
    <2>1. /\ queue' = {} /\ publishing' = {}
          /\ \A r \in Runners : run'[r] = Idle
      BY <1>2 DEF OperatorDowngrades, Quiet, Active, BaseInv, RunsTyped, RunFits
    <2>2. PublishingHeld' /\ QueueHeld'
      BY <2>1 DEF PublishingHeld, QueueHeld
    <2>3. RunsHeld' /\ WorkersFit'
      BY <2>1, IdleTyped, WorkerIsNotSeed DEF RunsHeld, WorkersFit, Active
    <2> QED
      BY <1>1, <2>2, <2>3 DEF HoldersInv
  <1>3. CASE ~OperatorDowngrades
    <2>1. PublishingHeld'
      <3>1. \A j \in publishing : Held(j, job[j].source)
        BY DEF HoldersInv, PublishingHeld, Held, BaseInv, JobsTyped
      <3>2. \A j \in publishing : job'[j].status # "free"
        BY <1>3, <3>1, HeldKept DEF Held
      <3>3. \A s \in Sources : SyncNow(s) => publishing' = publishing \cup {NewId}
                                               /\ job'[NewId].status = "pending"
        BY SyncSteps
      <3> QED
        BY <3>2, <3>3, PublishingSteps DEF PublishingHeld
    <2>2. ASSUME NEW m \in queue', m.job # NoJob PROVE Held(m.job, m.source)'
      <3>1. Held(m.job, m.source)
        <4>1. CASE m \in queue
          BY <2>2, <4>1 DEF HoldersInv, QueueHeld
        <4>2. ASSUME NEW j \in publishing, m = Message(job[j].source, j)
              PROVE  Held(m.job, m.source)
          BY <4>2 DEF HoldersInv, PublishingHeld, Held, BaseInv, JobsTyped, Message
        <4>3. ASSUME NEW w \in Workers, HandsOn(w, m) PROVE Held(m.job, m.source)
          BY <2>2, <4>3, WorkerIsNotSeed DEF HandsOn, HoldersInv, RunsHeld, WorkersFit
        <4> QED
          BY <2>2, <4>1, <4>2, <4>3, MessageSteps
      <3>2. Held(m.job, m.source)'
        BY <1>3, <3>1, HeldKept
      <3> QED
        BY <3>2
    <2>3. ASSUME NEW r \in Runners, run'[r].job # NoJob PROVE Held(run[r].job, run[r].source)'
      <3>1. CASE StartJob(r)
        BY <3>1, StartSteps DEF Held
      <3>2. CASE ~StartJob(r)
        <4>1. Held(run'[r].job, run'[r].source)
          BY <2>3, <3>2, HolderSteps, IdleTyped DEF HoldersInv, QueueHeld, RunsHeld, TakesUp
        <4> QED
          BY <1>3, <4>1, HeldKept DEF Held
      <3> QED
        BY <3>1, <3>2
    <2>4. ASSUME NEW w \in Workers, run'[w].pc # "idle"
          PROVE  /\ run'[w].msg.source = run'[w].source
                 /\ run'[w].msg.job # NoJob => run'[w].job = run'[w].msg.job
      <3>1. CASE StartJob(w)
        <4>1. Active(w)
          BY <3>1 DEF StartJob, Active
        <4> QED
          BY <3>1, <4>1, StartSteps, WorkerIsNotSeed DEF HoldersInv, WorkersFit, Active
      <3>2. CASE ~StartJob(w)
        BY <2>4, <3>2, HolderSteps, WorkerIsNotSeed, IdleTyped
           DEF HoldersInv, WorkersFit, Active, TakesUp
      <3> QED
        BY <3>1, <3>2
    <2>5. QueueHeld'
      BY <2>2 DEF QueueHeld
    <2>6. RunsHeld'
      BY <2>3 DEF RunsHeld
    <2>7. WorkersFit'
      BY <2>4 DEF WorkersFit, Active
    <2> QED
      BY <1>1, <2>1, <2>5, <2>6, <2>7 DEF HoldersInv
  <1> QED
    BY <1>2, <1>3

LEMMA HoldersAlways == Spec => []HoldersInv
  <1>1. Start => HoldersInv
    BY IdleTyped, WorkerIsNotSeed
       DEF Start, Init, HoldersInv, JobsFit, PublishingHeld, QueueHeld, RunsHeld, WorkersFit,
           FreeJob, NewJob, Active
  <1>2. ASSUME HoldersInv, UNCHANGED vars PROVE HoldersInv'
    BY <1>2 DEF HoldersInv, JobsFit, PublishingHeld, QueueHeld, RunsHeld, WorkersFit, Held,
                Active, vars, ivars, rows
  <1> QED
    BY <1>1, <1>2, HoldersKept, BaseAlways, PTL DEF Spec

\* Once a source is deleted no attempt newly passes its check, and no job of it
\* changes its status but by an attempt of that job that was past it: for any
\* number of workers, retries and redeliveries.
THEOREM DeletedIsQuietHolds == Spec => DeletedIsQuiet
  <1>1. ASSUME BaseInv, HoldersInv, Next, NEW s \in Sources,
               source[s] = "deleted", source'[s] = "deleted"
        PROVE  /\ \A r \in Runners : Ingests(r, s)' => Ingests(r, s)
               /\ \A j \in Jobs : job[j].source = s /\ job'[j].status # job[j].status =>
                    \E r \in Runners : Ingests(r, s) /\ run[r].job = j
    <2>1. \A r \in Runners : StartJob(r) => run[r].source # s
      BY <1>1 DEF StartJob, Refused
    <2>2. ASSUME NEW r \in Runners, run'[r].source = s, run'[r].pc # "start"
          PROVE  run[r].source = s /\ run[r].pc # "start"
      <3>1. run'[r].source # None
        BY <2>2, ConstantsOK
      <3>2. CASE run'[r] = run[r]
        BY <2>2, <3>2
      <3>3. CASE Active(r) /\ run'[r].source = run[r].source /\ run'[r].pc # "idle"
        <4>1. ~StartJob(r)
          BY <2>1, <2>2, <3>3
        <4> QED
          BY <1>1, <2>2, <3>3, <4>1, PastTheStart
      <3>4. run'[r] # Idle
        BY <3>1, IdleTyped
      <3> QED
        BY <1>1, <2>2, <3>2, <3>3, <3>4, HolderSteps DEF TakesUp
    <2>3. ASSUME NEW j \in Jobs, job[j].source = s, job'[j].status # job[j].status
          PROVE  \E r \in Runners : Ingests(r, s) /\ run[r].job = j
      <3>1. job[j].status # "free"
        BY <1>1, <2>3, ConstantsOK DEF HoldersInv, JobsFit
      <3>2. ASSUME NEW r \in Runners, StartJob(r) PROVE FALSE
        <4>1. run'[r].job # j
          <5>1. CASE run[r].job = NoJob
            BY <1>1, <3>1, <3>2, <5>1, StartSteps, NewIdIsFree DEF Free
          <5>2. CASE run[r].job # NoJob
            BY <1>1, <2>1, <2>3, <3>2, <5>2, StartSteps DEF HoldersInv, RunsHeld, Held
          <5> QED
            BY <5>1, <5>2
        <4> QED
          BY <1>1, <2>3, <3>2, <4>1, StartSteps
      <3>3. ASSUME NEW t \in Sources, SyncNow(t) PROVE FALSE
        BY <1>1, <2>3, <3>1, <3>3, SyncSteps, NewIdIsFree DEF Free
      <3>4. ASSUME NEW r \in Runners, Progress(r) \/ Complete(r)
            PROVE  Ingests(r, s) /\ run[r].job = j
        <4>1. run[r].job \in Jobs /\ run[r].job # NoJob /\ run[r].pc # "start"
          BY <1>1, <3>4, ReportSteps, ConstantsOK DEF Progress, Complete, Jobs, NoJob
        <4>2. run[r].job = j
          BY <1>1, <2>3, <3>4, ReportSteps
        <4> QED
          BY <1>1, <2>3, <4>1, <4>2 DEF HoldersInv, RunsHeld, Held, Ingests
      <3>5. ~OperatorDowngrades
        BY <1>1, <2>3, <3>1, ConstantsOK DEF OperatorDowngrades
      <3> QED
        BY <1>1, <2>3, <3>2, <3>3, <3>4, <3>5, JobSteps
    <2> QED
      BY <2>2, <2>3 DEF Ingests
  <1>2. ASSUME UNCHANGED vars, NEW s \in Sources
        PROVE  /\ \A r \in Runners : Ingests(r, s)' => Ingests(r, s)
               /\ \A j \in Jobs : job'[j].status = job[j].status
    BY <1>2 DEF Ingests, vars, ivars, rows
  <1>3. BaseInv /\ HoldersInv /\ [Next]_vars =>
            \A s \in Sources :
              (source[s] = "deleted" /\ source'[s] = "deleted") =>
                /\ \A r \in Runners : Ingests(r, s)' => Ingests(r, s)
                /\ \A j \in Jobs : job[j].source = s /\ job'[j].status # job[j].status =>
                    \E r \in Runners : Ingests(r, s) /\ run[r].job = j
    BY <1>1, <1>2
  <1> QED
    BY <1>3, BaseAlways, HoldersAlways, PTL DEF Spec, DeletedIsQuiet

-----------------------------------------------------------------------------
(* No task is lost *)

\* Somebody will still work on the job, and not merely return from it.
Waits(j) ==
    \/ j \in publishing
    \/ \E m \in queue : m.job = j
    \/ \E r \in Runners : run[r].job = j /\ run[r].pc # "done"

WaitsInv ==
    \A j \in Jobs : job[j].status \in {"pending", "running"} => Waits(j) \/ j \in gaveUp

LEMMA EndSteps ==
    ASSUME BaseInv, Next, NEW r \in Runners, Ends(r), run[r].pc \notin {"idle", "done"}
    PROVE  \/ Retry(r) /\ UNCHANGED crashes
           \/ GiveUp(r) /\ UNCHANGED crashes
           \/ Crash(r) /\ crashes' # crashes
  <1>1. run'[r] # run[r] /\ run'[r].pc = "idle"
    BY Finishes, IdleTyped
  <1>2. CASE Administer \/ SeedSource \/ OperatorDowngrades \/ UNCHANGED ivars
    BY <1>1, <1>2 DEF Administer, CreateSource, DeleteSource, SyncNow, Publish, PublishFails,
                ScheduledSync, EraseChunks, ErasePerson, EraseAudited, EraseFails, Erasing,
                EditFile, SeedSource, OperatorDowngrades, ivars
  <1>3. ASSUME NEW q \in Runners, Ends(q) PROVE q = r
    BY <1>1, <1>3, Finishes
  <1>4. CASE \E q \in Runners : Return(q) \/ GiveUp(q)
    BY <1>3, <1>4 DEF Return, GiveUp, counters
  <1>5. CASE \E w \in Workers : Retry(w)
    BY <1>3, <1>5, WorkerIsNotSeed DEF Retry, counters
  <1>6. CASE \E w \in Workers : Crash(w)
    BY <1>3, <1>6, WorkerIsNotSeed DEF Crash, BaseInv, RestTyped
  <1>7. CASE \E q \in Runners : Pipeline(q)
    BY <1>1, <1>7, Goes
  <1>8. CASE \E w \in Workers : Take(w) \/ Redeliver(w)
    <2>1. ASSUME NEW w \in Workers, Redeliver(w) PROVE run'[r] = run[r] \/ run'[r].pc = run[r].pc
      BY <2>1 DEF Redeliver, BaseInv, RunsTyped, RunRecord
    <2>2. ASSUME NEW w \in Workers, Take(w) PROVE run'[r] = run[r] \/ run'[r].pc = "start"
      BY <2>2 DEF Take, Idle, BaseInv, RunsTyped
    <2> QED
      BY <1>1, <1>8, <2>1, <2>2
  <1>9. CASE SeedIngests(Demo)
    BY <1>1, <1>9 DEF SeedIngests, Idle, BaseInv, RunsTyped
  <1> QED
    BY <1>2, <1>4, <1>5, <1>6, <1>7, <1>8, <1>9, StepKinds

\* A job that r leaves unfinished is in the queue again or given up.
LEMMA LeavesUnfinished ==
    ASSUME BaseInv, HoldersInv, Next, NEW r \in Runners, Ends(r), run[r].pc \notin {"idle", "done"},
           NEW j \in Jobs, run[r].job = j, job'[j].status # "free"
    PROVE  (\E m \in queue' : m.job = j) \/ j \in gaveUp'
  <1>1. r \in Ended /\ j # NoJob
    BY Finishes, ConstantsOK DEF Ended, Jobs, NoJob
  <1>2. CASE OwnJob(r)
    BY <1>1, <1>2 DEF Next, Observe
  <1>3. CASE ~OwnJob(r)
    <2>1. /\ r \in Workers /\ r # Seed /\ run[r].msg \in Messages
          /\ run[r].msg.job = j
      BY <1>3, WorkerMessage DEF OwnJob, Runners, BaseInv, Active, HoldersInv, WorkersFit
    <2>2. CASE LastAttempt(r) /\ crashes' = crashes
      BY <1>1, <2>2 DEF Next, Observe
    <2>3. CASE crashes' # crashes
      <3>1. Crash(r)
        BY <1>1, <2>1, <2>3, EndSteps DEF Retry, GiveUp, counters
      <3>2. CASE run[r].owned
        BY <2>1, <3>1, <3>2, CrashQueue
      <3>3. CASE ~run[r].owned
        BY <1>1, <2>3, <3>3 DEF Next, Observe
      <3> QED
        BY <3>2, <3>3
    <2>4. CASE ~LastAttempt(r) /\ crashes' = crashes
      <3>1. Retry(r)
        BY <1>1, <2>1, <2>4, EndSteps DEF GiveUp
      <3>2. run[r].msg.retries # MaxRetries
        BY <2>1, <2>4 DEF LastAttempt
      <3>3. Retried(run[r].msg) # {} /\ \A n \in Retried(run[r].msg) : n.job = j
        BY <2>1, <3>2, RetriedTyped DEF Retried
      <3> QED
        BY <3>1, <3>3 DEF Retry
    <2> QED
      BY <2>2, <2>3, <2>4
  <1> QED
    BY <1>2, <1>3

LEMMA Completes ==
    ASSUME BaseInv, Next, NEW r \in Runners, run[r].pc # "done", run'[r].pc = "done"
    PROVE  Complete(r)
  <1>1. ASSUME NEW q \in Runners, Begins(q) \/ Ends(q) \/ Disowned(q)
        PROVE  run'[r].pc # "done"
    BY <1>1, IdleTyped DEF Begins, Ends, Disowned, BaseInv, RunsTyped, RunRecord
  <1>2. PICK q \in Runners : Pipeline(q)
    BY <1>1, RunSteps
  <1>3. q = r
    BY <1>2, Goes
  <1> QED
    BY <1>2, <1>3
       DEF Pipeline, StartJob, ReadDocument, UpsertChunks, UpdateGraph, Progress,
           BaseInv, RunsTyped, RunRecord

\* A message leaves the queue for a worker.
LEMMA QueueLoses ==
    ASSUME BaseInv, Next, NEW m \in queue, m \notin queue'
    PROVE  \E w \in Workers : TakesUp(w, m)
  <1>1. CASE Administer \/ SeedSource \/ OperatorDowngrades \/ UNCHANGED ivars
    BY <1>1 DEF Administer, CreateSource, DeleteSource, SyncNow, Publish, PublishFails,
                ScheduledSync, EraseChunks, ErasePerson, EraseAudited, EraseFails, Erasing,
                EditFile, SeedSource, OperatorDowngrades, ivars
  <1>2. CASE \E r \in Runners : Pipeline(r) \/ Return(r) \/ GiveUp(r)
    BY <1>2 DEF Pipeline, StartJob, ReadDocument, UpsertChunks, UpdateGraph, Progress,
                Complete, Return, GiveUp
  <1>3. CASE \E w \in Workers : Retry(w) \/ Crash(w) \/ Redeliver(w)
    BY <1>3 DEF Retry, Crash, Redeliver
  <1>4. CASE \E w \in Workers : Take(w)
    <2>1. PICK w \in Workers : Take(w)
      BY <1>4
    <2>2. PICK n \in queue :
            /\ queue' = queue \ {n}
            /\ run' = [run EXCEPT ![w] = [Idle EXCEPT !.pc = "start", !.msg = n, !.owned = TRUE,
                                                   !.source = n.source, !.job = n.job]]
      BY <2>1 DEF Take
    <2>3. m = n
      BY <2>2
    <2> QED
      BY <2>1, <2>2, <2>3, WorkerIsNotSeed DEF TakesUp, Idle, BaseInv, RunsTyped
  <1>5. CASE SeedIngests(Demo)
    BY <1>5 DEF SeedIngests
  <1> QED
    BY <1>1, <1>2, <1>3, <1>4, <1>5, StepKinds

LEMMA WaitsKept ==
    ASSUME BaseInv, HoldersInv, WaitsInv, Next
    PROVE  WaitsInv'
  <1> SUFFICES ASSUME NEW j \in Jobs, job'[j].status \in {"pending", "running"}
               PROVE  Waits(j)' \/ j \in gaveUp'
    BY DEF WaitsInv
  <1>1. j # NoJob /\ job'[j].status # "free"
    BY ConstantsOK DEF Jobs, NoJob
  <1>2. CASE job[j].status \in {"pending", "running"}
    <2>1. CASE j \in gaveUp
      BY <1>1, <2>1 DEF Next, Observe
    <2>2. CASE j \in publishing
      <3>1. \A s \in Sources : SyncNow(s) => publishing \subseteq publishing'
        BY SyncSteps
      <3>2. Publish(j) => Message(job[j].source, j) \in queue'
        BY DEF Publish
      <3>3. PublishFails(j) /\ j \notin publishing' => j \in gaveUp'
        BY <1>1, <2>2 DEF Next, Observe, PublishFails
      <3> QED
        BY <2>2, <3>1, <3>2, <3>3, PublishingSteps DEF Waits, Message
    <2>3. ASSUME NEW m \in queue, m.job = j PROVE Waits(j)'
      <3>1. CASE m \in queue'
        BY <2>3, <3>1 DEF Waits
      <3>2. CASE m \notin queue'
        BY <2>3, <3>2, QueueLoses, WorkerIsNotSeed DEF TakesUp, Waits
      <3> QED
        BY <3>1, <3>2
    <2>4. ASSUME NEW r \in Runners, run[r].job = j, run[r].pc # "done"
          PROVE  Waits(j)' \/ j \in gaveUp'
      <3>1. Active(r)
        BY <1>1, <2>4, IdleTyped DEF Active, BaseInv, RunsTyped, RunFits
      <3>2. CASE Ends(r)
        BY <1>1, <2>4, <3>1, <3>2, LeavesUnfinished DEF Active, Waits
      <3>3. CASE ~Ends(r)
        <4>1. run'[r].job = j
          BY <1>1, <2>4, <3>1, <3>3, HolderSteps, StartSteps DEF TakesUp, Take
        <4>2. run'[r].pc # "done"
          BY <2>4, Completes, ReportSteps
        <4> QED
          BY <4>1, <4>2 DEF Waits
      <3> QED
        BY <3>2, <3>3
    <2> QED
      BY <1>2, <2>1, <2>2, <2>3, <2>4 DEF WaitsInv, Waits
  <1>3. CASE job[j].status \notin {"pending", "running"}
    <2>1. ASSUME NEW s \in Sources, SyncNow(s) PROVE Waits(j)'
      BY <1>3, <2>1, SyncSteps DEF Waits
    <2>2. ASSUME NEW r \in Runners, StartJob(r) PROVE Waits(j)'
      <3>1. j = run'[r].job
        BY <1>3, <2>2, StartSteps
      <3>2. run'[r].pc = "read"
        BY <2>2 DEF StartJob, BaseInv, RunsTyped, RunRecord
      <3> QED
        BY <3>1, <3>2 DEF Waits
    <2>3. ASSUME NEW r \in Runners, Progress(r) \/ Complete(r) PROVE FALSE
      BY <1>3, <2>3, ReportSteps
    <2>4. CASE OperatorDowngrades
      BY <1>1, <1>3, <2>4 DEF OperatorDowngrades, FreeJob, NewJob
    <2> QED
      BY <1>3, <2>1, <2>2, <2>3, <2>4, JobSteps
  <1> QED
    BY <1>2, <1>3

\* A job that is neither completed nor held by anybody who will work on it was
\* given up: for any number of workers, retries and losses.
THEOREM JobsAccountedHolds == Spec => []JobsAccounted
  <1>1. Start => WaitsInv
    BY DEF Start, Init, WaitsInv, FreeJob, NewJob
  <1>2. ASSUME WaitsInv, UNCHANGED vars PROVE WaitsInv'
    BY <1>2 DEF WaitsInv, Waits, vars, ivars, rows, history
  <1>3. HoldersInv /\ WaitsInv => JobsAccounted
    BY DEF HoldersInv, JobsFit, WaitsInv, Waits, JobsAccounted, Pending
  <1> QED
    BY <1>1, <1>2, <1>3, WaitsKept, BaseAlways, HoldersAlways, PTL DEF Spec

-----------------------------------------------------------------------------
(* A completed job stays completed *)

\* A job whose message was not delivered again has one holder, and none but a
\* runner on its way back once it is completed.
HolderOf(j) ==
    /\ \A m \in queue : m.job = j =>
         /\ \A n \in queue : n.job = j => n = m
         /\ j \notin publishing /\ \A r \in Runners : run[r].job # j
    /\ \A r \in Runners : run[r].job = j =>
         /\ \A q \in Runners : run[q].job = j => q = r
         /\ j \notin publishing
    /\ job[j].status = "completed" =>
         /\ j \notin publishing /\ \A m \in queue : m.job # j
         /\ \A r \in Runners : run[r].job = j => run[r].pc = "done"

SingleInv == \A j \in Jobs \ redelivered : HolderOf(j)

LEMMA Fresh ==
    ASSUME BaseInv, HoldersInv, NEW j \in Jobs,
           \/ \E s \in Sources : SyncNow(s) /\ j = NewId
           \/ \E r \in Runners : StartJob(r) /\ j = NewId /\ Free # {}
    PROVE  /\ j \notin publishing /\ (\A m \in queue : m.job # j)
           /\ \A r \in Runners : run[r].job # j
           /\ job[j].status = "free"
  BY SyncSteps, NewIdNotHeld, NewIdIsFree DEF Free

LEMMA NewPublishing ==
    ASSUME BaseInv, Next, NEW j \in publishing'
    PROVE  j \in publishing \/ \E s \in Sources : SyncNow(s) /\ j = NewId
  BY PublishingSteps, SyncSteps

\* No message of such a job but the first and a retry.
LEMMA NewMessage ==
    ASSUME BaseInv, HoldersInv, Next, NEW j \in Jobs, j \notin redelivered',
           NEW m \in queue', m.job = j
    PROVE  \/ m \in queue
           \/ j \in publishing /\ Publish(j) /\ m = Message(job[j].source, j)
           \/ \E w \in Workers :
                 /\ Active(w) /\ Retry(w) /\ run[w].job = j /\ run[w].pc # "done"
                 /\ m \in Retried(run[w].msg)
  <1>1. j # NoJob
    BY ConstantsOK DEF Jobs, NoJob
  <1>2. ASSUME NEW w \in Workers, HandsOn(w, m)
        PROVE  Retry(w) /\ run[w].job = j /\ run[w].pc # "done"
    <2>1. run[w].msg.job = j /\ run[w].job = j
      BY <1>1, <1>2 DEF HandsOn, HoldersInv, WorkersFit
    <2>2. CASE Crash(w) \/ Redeliver(w)
      <3>1. crashes' # crashes
        BY <2>2 DEF Crash, Redeliver, BaseInv, RestTyped
      <3>2. run'[w] # run[w]
        BY <1>2, <2>2, WorkerIsNotSeed, Finishes, IdleTyped
           DEF Crash, Redeliver, HandsOn, Active, BaseInv, RunsTyped, RunRecord
      <3>3. run[w].msg.job \in redelivered'
        BY <3>1, <3>2 DEF Next, Observe
      <3> QED
        BY <2>1, <3>3
    <2>3. CASE Retry(w)
      BY <2>1, <2>3, MayRaiseActive, WorkerIsNotSeed DEF Retry, MayRaise, Refused
    <2> QED
      BY <1>2, <2>2, <2>3 DEF HandsOn
  <1>3. ASSUME NEW w \in Workers, HandsOn(w, m), Retry(w) PROVE m \in Retried(run[w].msg)
    <2>1. ~Crash(w) /\ ~Redeliver(w)
      BY <1>3 DEF Retry, Crash, Redeliver, counters, BaseInv, RestTyped
    <2> QED
      BY <1>3, <2>1 DEF HandsOn
  <1>4. \A i \in Jobs : m = Message(job[i].source, i) => i = j
    BY DEF Message
  <1> QED
    BY <1>1, <1>2, <1>3, <1>4, MessageSteps DEF HandsOn, BaseInv, JobsTyped

LEMMA NewRunner ==
    ASSUME BaseInv, HoldersInv, Next, NEW j \in Jobs, NEW r \in Runners, run'[r].job = j
    PROVE  \/ run[r].job = j /\ ~Ends(r) /\ ~Begins(r)
           \/ StartJob(r) /\ j = NewId /\ Free # {}
           \/ r \in Workers /\ \E m \in queue : TakesUp(r, m) /\ m.job = j
  <1>1. j # NoJob
    BY ConstantsOK DEF Jobs, NoJob
  <1>2. ~Ends(r)
    BY <1>1, Finishes, IdleTyped
  <1>3. run[r].job = j => run[r].pc # "idle"
    BY <1>1, IdleTyped DEF BaseInv, RunsTyped, RunFits
  <1> QED
    BY <1>1, <1>2, <1>3, HolderSteps, StartSteps DEF TakesUp, Begins

LEMMA DoneStays ==
    ASSUME BaseInv, Next, NEW r \in Runners, run[r].pc = "done"
    PROVE  run'[r].pc \in {"done", "idle"}
  <1>1. ASSUME NEW q \in Runners, Begins(q) \/ Ends(q) \/ Disowned(q)
        PROVE  run'[r].pc \in {"done", "idle"}
    BY <1>1, IdleTyped DEF Begins, Ends, Disowned, BaseInv, RunsTyped, RunRecord
  <1>2. ASSUME NEW q \in Runners, Pipeline(q) PROVE run'[r] = run[r]
    <2>1. q # r
      BY <1>2
         DEF Pipeline, StartJob, ReadDocument, UpsertChunks, UpdateGraph, Progress, Complete
    <2> QED
      BY <1>2, <2>1, Goes
  <1> QED
    BY <1>1, <1>2, RunSteps

\* The same facts, for a step of which j is not delivered again.
LEMMA SingleKept ==
    ASSUME BaseInv, HoldersInv, SingleInv, Next
    PROVE  SingleInv'
  <1> SUFFICES ASSUME NEW j \in Jobs, j \notin redelivered'
               PROVE  HolderOf(j)'
    BY DEF SingleInv
  <1>1. HolderOf(j)
    BY HistoryGrows DEF SingleInv
  <1> DEFINE Fresher == \/ \E s \in Sources : SyncNow(s) /\ j = NewId
                        \/ \E r \in Runners : StartJob(r) /\ j = NewId /\ Free # {}
             Retrying(w, m) == /\ w \in Workers /\ Active(w) /\ Retry(w) /\ run[w].job = j
                               /\ run[w].pc # "done" /\ m \in Retried(run[w].msg)
             Taking(r, m) == r \in Workers /\ m \in queue /\ TakesUp(r, m) /\ m.job = j
  <1>2. Fresher => /\ j \notin publishing /\ (\A m \in queue : m.job # j)
                   /\ \A r \in Runners : run[r].job # j
    BY Fresh
  <1>3. \A m \in queue' : m.job = j =>
            \/ m \in queue
            \/ j \in publishing /\ Publish(j) /\ m = Message(job[j].source, j)
            \/ \E w : Retrying(w, m)
    BY NewMessage
  <1>4. \A r \in Runners : run'[r].job = j =>
            \/ run[r].job = j /\ ~Ends(r) /\ ~Begins(r)
            \/ StartJob(r) /\ Fresher
            \/ \E m : Taking(r, m)
    BY NewRunner
  <1>5. j \in publishing' => j \in publishing \/ (Fresher /\ \E s \in Sources : SyncNow(s))
    BY NewPublishing
  <1>6. \A w, m : Retrying(w, m) => w \in Runners /\ Ends(w) /\ Retried(run[w].msg) = {m}
    BY WorkerIsNotSeed DEF Retry, Retried
  <1>7. \A r, m : Taking(r, m) => r \in Runners /\ Take(r) /\ m \notin queue' /\ ~Active(r)
    BY WorkerIsNotSeed DEF TakesUp, Take
  <1>8. \A r, q \in Runners : StartJob(r) /\ StartJob(q) => q = r
    <2>1. \A r \in Runners : StartJob(r) => run[r].pc = "start" /\ run'[r].pc = "read"
      BY DEF StartJob, BaseInv, RunsTyped, RunRecord
    <2> QED
      BY <2>1, Goes DEF Pipeline
  <1>9. \A r, q \in Workers : Take(r) /\ run'[q].pc # run[q].pc => q = r
    BY WorkerIsNotSeed DEF Take, BaseInv, RunsTyped
  <1> HIDE DEF Fresher, Retrying, Taking
  <1>10. ASSUME NEW m \in queue', m.job = j
         PROVE  /\ \A n \in queue' : n.job = j => n = m
                /\ j \notin publishing' /\ \A r \in Runners : run'[r].job # j
    <2>1. ASSUME NEW n \in queue', n.job = j PROVE n = m
      <3>1. CASE m \in queue \/ n \in queue
        BY <1>1, <1>3, <1>6, <1>10, <2>1, <3>1 DEF HolderOf, Retrying
      <3>2. CASE j \in publishing
        BY <1>1, <1>3, <1>6, <1>10, <2>1, <3>2 DEF HolderOf, Retrying
      <3>3. CASE m \notin queue /\ n \notin queue /\ j \notin publishing
        <4>1. PICK v : Retrying(v, m)
          BY <1>3, <1>10, <3>3
        <4>2. PICK w : Retrying(w, n)
          BY <1>3, <2>1, <3>3
        <4>3. v = w
          BY <1>1, <1>6, <4>1, <4>2 DEF HolderOf, Retrying
        <4> QED
          BY <1>6, <4>1, <4>2, <4>3
      <3> QED
        BY <3>1, <3>2, <3>3
    <2>2. j \notin publishing'
      <3>1. ~Fresher
        BY <1>2, <1>3, <1>6, <1>10 DEF Retrying
      <3> QED
        BY <1>1, <1>3, <1>5, <1>6, <1>10, <3>1 DEF HolderOf, Retrying, Publish
    <2>3. ASSUME NEW r \in Runners, run'[r].job = j PROVE FALSE
      <3>1. ~Fresher
        BY <1>2, <1>3, <1>6, <1>10 DEF Retrying
      <3>2. CASE run[r].job = j /\ ~Ends(r)
        BY <1>1, <1>3, <1>6, <1>10, <3>2 DEF HolderOf, Retrying
      <3>3. ASSUME NEW n, Taking(r, n) PROVE FALSE
        BY <1>1, <1>3, <1>6, <1>7, <1>10, <3>3 DEF HolderOf, Retrying, Taking
      <3> QED
        BY <1>4, <2>3, <3>1, <3>2, <3>3
    <2> QED
      BY <2>1, <2>2, <2>3
  <1>11. ASSUME NEW r \in Runners, run'[r].job = j
         PROVE  /\ \A q \in Runners : run'[q].job = j => q = r
                /\ j \notin publishing'
    <2>1. ASSUME NEW q \in Runners, run'[q].job = j PROVE q = r
      <3>1. CASE run[r].job = j /\ ~Ends(r)
        BY <1>1, <1>2, <1>4, <2>1, <3>1 DEF HolderOf, Taking
      <3>2. CASE StartJob(r) /\ Fresher
        BY <1>2, <1>4, <1>8, <2>1, <3>2 DEF Taking
      <3>3. ASSUME NEW m, Taking(r, m) PROVE q = r
        <4>1. PICK n : Taking(q, n)
          BY <1>1, <1>2, <1>4, <2>1, <3>3 DEF HolderOf, Taking
        <4> QED
          BY <1>7, <1>9, <3>3, <4>1 DEF Taking, TakesUp, Active
      <3> QED
        BY <1>4, <1>11, <3>1, <3>2, <3>3
    <2>2. j \notin publishing'
      <3>1. ~(StartJob(r) /\ \E s \in Sources : SyncNow(s))
        BY Goes DEF Pipeline, SyncNow
      <3> QED
        BY <1>1, <1>2, <1>4, <1>5, <1>11, <3>1 DEF HolderOf, Taking
    <2> QED
      BY <2>1, <2>2
  <1>12. ASSUME job'[j].status = "completed"
         PROVE  /\ j \notin publishing' /\ \A m \in queue' : m.job # j
                /\ \A r \in Runners : run'[r].job = j => run'[r].pc = "done"
    <2>1. \/ job[j].status = "completed"
          \/ \E q \in Runners : Complete(q) /\ run[q].job = j /\ run[q].pc # "done"
      <3>1. \A q \in Runners : Complete(q) => run[q].pc # "done"
        BY DEF Complete
      <3> QED
        BY <1>12, <3>1, JobSteps, StartSteps, SyncSteps, ReportSteps
           DEF OperatorDowngrades, FreeJob, NewJob
    <2>2. CASE job[j].status = "completed"
      <3>1. /\ j \notin publishing /\ (\A m \in queue : m.job # j)
            /\ \A r \in Runners : run[r].job = j => run[r].pc = "done"
        BY <1>1, <2>2 DEF HolderOf
      <3>2. ~Fresher
        BY <2>2, Fresh DEF Fresher
      <3>3. j \notin publishing' /\ \A m \in queue' : m.job # j
        BY <1>3, <1>5, <1>6, <3>1, <3>2 DEF Retrying
      <3>4. ASSUME NEW r \in Runners, run'[r].job = j PROVE run'[r].pc = "done"
        <4>1. run[r].job = j
          BY <1>4, <3>1, <3>2, <3>4 DEF Taking
        <4>2. run'[r].pc # "idle"
          <5>1. run'[r].pc = "idle" => run'[r] = Idle
            BY BaseStep DEF BaseInv, RunsTyped, RunFits
          <5>2. j # NoJob
            BY ConstantsOK DEF Jobs, NoJob
          <5> QED
            BY <3>4, <5>1, <5>2, IdleTyped
        <4> QED
          BY <3>1, <4>1, <4>2, DoneStays
      <3> QED
        BY <3>3, <3>4
    <2>3. ASSUME NEW q \in Runners, Complete(q), run[q].job = j
          PROVE  /\ j \notin publishing' /\ \A m \in queue' : m.job # j
                 /\ \A r \in Runners : run'[r].job = j => run'[r].pc = "done"
      <3>1. run'[q].job = j /\ run'[q].pc = "done"
        BY <2>3 DEF Complete, BaseInv, RunsTyped, RunRecord
      <3> QED
        BY <1>10, <1>11, <3>1
    <2> QED
      BY <2>1, <2>2, <2>3
  <1> QED
    BY <1>10, <1>11, <1>12 DEF HolderOf

\* A completed job stays completed, unless its message was delivered again.
THEOREM CompletedIsFinalHolds == Spec => CompletedIsFinal
  <1>1. Start => SingleInv
    BY IdleTyped, ConstantsOK DEF Start, Init, SingleInv, HolderOf, FreeJob, NewJob, Jobs, NoJob
  <1>2. ASSUME SingleInv, UNCHANGED vars PROVE SingleInv'
    BY <1>2 DEF SingleInv, HolderOf, vars, ivars, rows, history
  <1>3. ASSUME BaseInv, HoldersInv, SingleInv, Next, NEW j \in Jobs, j \notin redelivered,
               job[j].status = "completed", job'[j].status \notin {"completed", "free"}
        PROVE  FALSE
    <2>1. HolderOf(j)
      BY <1>3 DEF SingleInv
    <2>2. \A r \in Runners : ~StartJob(r)
      <3>1. ASSUME NEW r \in Runners, StartJob(r) PROVE FALSE
        <4>1. j = run'[r].job
          BY <1>3, <3>1, StartSteps
        <4>2. run[r].job = j
          BY <1>3, <3>1, <4>1, StartSteps, NewIdIsFree DEF Free
        <4> QED
          BY <1>3, <2>1, <3>1, <4>2 DEF HolderOf, StartJob
      <3> QED
        BY <3>1
    <2>3. \A s \in Sources : SyncNow(s) => job'[j] = job[j]
      BY <1>3, SyncSteps, NewIdIsFree DEF Free
    <2>4. \A r \in Runners : Progress(r) \/ Complete(r) => job'[j].status = "completed"
      BY <1>3, ReportSteps
    <2>5. OperatorDowngrades => job'[j].status \in {"completed", "free"}
      BY <1>3 DEF OperatorDowngrades, FreeJob, NewJob
    <2> QED
      BY <1>3, <2>2, <2>3, <2>4, <2>5, JobSteps
  <1>4. BaseInv /\ HoldersInv /\ SingleInv /\ [Next]_vars =>
            \A j \in Jobs :
              (job[j].status = "completed" /\ job'[j].status \notin {"completed", "free"}) =>
                  j \in redelivered
    BY <1>3 DEF vars, ivars, rows
  <1> QED
    BY <1>1, <1>2, <1>4, SingleKept, BaseAlways, HoldersAlways, PTL DEF Spec, CompletedIsFinal

-----------------------------------------------------------------------------
(* The counts of a job *)

Erased(s) == \E d \in ToSet(Files[s]) : erasure[Author[d]] # "idle"

\* The stored chunks of the first n documents of s.
Stored(s, n) ==
    {x \in Rows : chunks[x] # None /\ \E i \in 1..Len(Files[s]) : i <= n /\ x[1] = Files[s][i]}

\* What an attempt has counted is stored, and so is the document it is at.
CountsInv ==
    \A r \in Runners :
        /\ run[r].pc \in {"idle", "start"} => run[r].chunks = 0
        /\ Active(r) /\ ~Erased(run[r].source) =>
             /\ run[r].chunks <= Cardinality(Stored(run[r].source, run[r].next - 1))
             /\ run[r].pc = "graph" =>
                  \A k \in 1..run[r].got.size : chunks[<<Document(r), k>>] # None

LEMMA FilesTyped ==
    ASSUME NEW s \in Sources
    PROVE  /\ Files[s] \in Seq(Docs) /\ Len(Files[s]) \in Nat /\ ToSet(Files[s]) \subseteq Docs
           /\ \A i \in 1..Len(Files[s]) : Files[s][i] \in ToSet(Files[s])
           /\ \A i, k \in 1..Len(Files[s]) : Files[s][i] = Files[s][k] => i = k
  BY ConstantsOK DEF ToSet, IsInjective

RowsOf(s) == {x \in Rows : x[1] \in ToSet(Files[s])}

LEMMA RowsFinite ==
    ASSUME NEW s \in Sources
    PROVE  IsFiniteSet(RowsOf(s))
  <1>1. Files[s] \in Surjection(1..Len(Files[s]), ToSet(Files[s]))
    <2>1. DOMAIN Files[s] = 1..Len(Files[s])
      BY FilesTyped
    <2>2. Files[s] \in [1..Len(Files[s]) -> ToSet(Files[s])]
      BY FilesTyped, <2>1
    <2>3. \A d \in ToSet(Files[s]) : \E i \in 1..Len(Files[s]) : Files[s][i] = d
      BY <2>1 DEF ToSet
    <2> QED
      BY <2>2, <2>3 DEF Surjection
  <1>2. IsFiniteSet(1..Len(Files[s])) /\ IsFiniteSet(1..MaxSize)
    BY FilesTyped, ConstantsOK, FS_Interval
  <1>3. IsFiniteSet(ToSet(Files[s]))
    BY <1>1, <1>2, FS_Surjection
  <1>4. IsFiniteSet(ToSet(Files[s]) \X (1..MaxSize))
    BY <1>2, <1>3, FS_Product
  <1>5. RowsOf(s) \in SUBSET (ToSet(Files[s]) \X (1..MaxSize))
    BY DEF RowsOf, Rows
  <1> QED
    BY <1>4, <1>5, FS_Subset

LEMMA StoredRows ==
    ASSUME NEW s \in Sources
    PROVE  StoredChunks(s) \subseteq RowsOf(s) /\ \A n : Stored(s, n) \subseteq StoredChunks(s)
  BY FilesTyped DEF StoredChunks, Stored, RowsOf

\* Unless an author of it is erased, nothing stored of a source goes.
LEMMA StoredGrows ==
    ASSUME BaseInv, Next, NEW s \in Sources, ~Erased(s)'
    PROVE  /\ ~Erased(s)
           /\ StoredChunks(s) \subseteq StoredChunks(s)'
           /\ \A n : Stored(s, n) \subseteq Stored(s, n)'
  <1>1. ASSUME NEW d \in ToSet(Files[s]), erasure[Author[d]] # "idle" PROVE FALSE
    <2>1. erasure'[Author[d]] # "idle"
      BY <1>1, StoreSteps, FilesTyped, ConstantsOK
         DEF EraseChunks, ErasePerson, EraseAudited, EraseFails, Erasing, BaseInv, RestTyped
    <2> QED
      BY <1>1, <2>1 DEF Erased
  <1>2. ASSUME NEW x \in Rows, x[1] \in ToSet(Files[s]), chunks[x] # None
        PROVE  chunks'[x] # None
    <2>1. ASSUME NEW a \in Authors, EraseChunks(a) PROVE chunks'[x] = chunks[x]
      <3>1. erasure'[a] # "idle"
        BY <2>1 DEF EraseChunks, Erasing, BaseInv, RestTyped
      <3>2. Author[x[1]] # a
        BY <1>2, <3>1 DEF Erased
      <3> QED
        BY <2>1, <3>2 DEF EraseChunks
    <2> QED
      BY <1>2, <2>1, StoreSteps DEF UpsertChunks
  <1>3. \A n : Stored(s, n) \subseteq StoredChunks(s)
    BY StoredRows
  <1> QED
    BY <1>1, <1>2, <1>3 DEF Erased, StoredChunks, Stored

LEMMA StoredCards ==
    ASSUME BaseInv, Next, NEW s \in Sources, ~Erased(s)'
    PROVE  /\ Cardinality(StoredChunks(s)) <= Cardinality(StoredChunks(s)')
           /\ Cardinality(StoredChunks(s)') \in Nat
           /\ \A n : /\ Cardinality(Stored(s, n)) <= Cardinality(Stored(s, n)')
                    /\ Cardinality(Stored(s, n)') \in Nat
  <1>1. /\ StoredChunks(s)' \in SUBSET RowsOf(s)
        /\ \A n : Stored(s, n)' \in SUBSET RowsOf(s)
    BY FilesTyped DEF StoredChunks, Stored, RowsOf
  <1>2. /\ IsFiniteSet(StoredChunks(s)') /\ \A n : IsFiniteSet(Stored(s, n)')
    BY <1>1, RowsFinite, FS_Subset
  <1> QED
    BY <1>2, StoredGrows, FS_Subset, FS_CardinalityType

LEMMA StoredOfNext ==
    ASSUME NEW s \in Sources, NEW n \in 1..Len(Files[s]), NEW k \in 0..MaxSize,
           \A i \in 1..k : chunks[<<Files[s][n], i>>] # None
    PROVE  Cardinality(Stored(s, n)) >= Cardinality(Stored(s, n - 1)) + k
  <1> DEFINE d == Files[s][n]
             D == {d} \X (1..k)
  <1>1. IsFiniteSet(D) /\ Cardinality(D) = k
    <2>1. IsFiniteSet({d}) /\ Cardinality({d}) = 1
      BY FS_Singleton
    <2>2. IsFiniteSet(1..k) /\ Cardinality(1..k) = k
      BY ConstantsOK, FS_Interval
    <2>3. Cardinality(D) = 1 * k
      BY <2>1, <2>2, FS_Product
    <2>4. k \in Nat
      BY ConstantsOK
    <2>5. IsFiniteSet(D)
      BY <2>1, <2>2, FS_Product
    <2> HIDE DEF D
    <2> QED
      BY <2>3, <2>4, <2>5
  <1>2. /\ IsFiniteSet(Stored(s, n)) /\ IsFiniteSet(Stored(s, n - 1))
        /\ Cardinality(Stored(s, n)) \in Nat /\ Cardinality(Stored(s, n - 1)) \in Nat
    BY StoredRows, RowsFinite, FS_Subset, FS_CardinalityType
  <1>3. D \subseteq Stored(s, n)
    BY FilesTyped, ConstantsOK DEF Stored, Rows
  <1>4. Stored(s, n - 1) \subseteq Stored(s, n)
    BY FilesTyped DEF Stored
  <1>5. Stored(s, n - 1) \cap D = {}
    BY FilesTyped DEF Stored
  <1>6. Cardinality(Stored(s, n - 1) \cup D) = Cardinality(Stored(s, n - 1)) + k
    <2>1. Cardinality(Stored(s, n - 1) \cap D) = 0
      BY <1>5, FS_EmptySet
    <2>2. Cardinality(Stored(s, n - 1) \cup D)
            = Cardinality(Stored(s, n - 1)) + k - Cardinality(Stored(s, n - 1) \cap D)
      <3> HIDE DEF D
      <3> QED
        BY <1>1, <1>2, FS_Union
    <2> QED
      BY <1>2, <2>1, <2>2
  <1>7. Cardinality(Stored(s, n - 1) \cup D) <= Cardinality(Stored(s, n))
    BY <1>2, <1>3, <1>4, FS_Subset
  <1> QED
    BY <1>2, <1>6, <1>7

LEMMA CardsTyped ==
    ASSUME NEW s \in Sources
    PROVE  /\ Cardinality(StoredChunks(s)) \in Nat
           /\ \A n : Cardinality(Stored(s, n)) \in Nat
                    /\ Cardinality(Stored(s, n)) <= Cardinality(StoredChunks(s))
  BY StoredRows, RowsFinite, FS_Subset, FS_CardinalityType

\* The counts of one runner.
Counted(r) ==
    /\ run[r].pc \in {"idle", "start"} => run[r].chunks = 0
    /\ Active(r) /\ ~Erased(run[r].source) =>
         /\ run[r].chunks <= Cardinality(Stored(run[r].source, run[r].next - 1))
         /\ run[r].pc = "graph" =>
              \A k \in 1..run[r].got.size : chunks[<<Document(r), k>>] # None

LEMMA CountsOfPipeline ==
    ASSUME BaseInv, Next, NEW r \in Runners, Pipeline(r), Counted(r),
           NEW s \in Sources, s = run[r].source, ~Erased(s)'
    PROVE  Counted(r)'
  <1>1. /\ run[r] \in RunRecord /\ Active(r) /\ run \in [Runners -> RunRecord]
        /\ run'[r].source = s /\ run'[r].pc \notin {"idle", "start"}
    BY Goes DEF Active
  <1>2. ~Erased(s) /\ \A n : /\ Cardinality(Stored(s, n)) <= Cardinality(Stored(s, n)')
                            /\ Cardinality(Stored(s, n)) \in Nat
                            /\ Cardinality(Stored(s, n)') \in Nat
    BY StoredGrows, StoredCards, CardsTyped
  <1>3. PICK n \in Nat : n = run'[r].next - 1
    <2>1. run'[r] \in RunRecord /\ run'[r].next > 0
      BY BaseStep DEF BaseInv, RunsTyped, RunFits
    <2> QED
      BY <2>1 DEF RunRecord
  <1>4. /\ run[r].chunks <= Cardinality(Stored(s, run[r].next - 1))
        /\ run[r].pc = "graph" =>
              \A k \in 1..run[r].got.size : chunks[<<Document(r), k>>] # None
    BY <1>1, <1>2 DEF Counted
  <1>5. SUFFICES /\ run'[r].chunks <= Cardinality(Stored(s, n)')
                 /\ run'[r].pc = "graph" =>
                      \A k \in 1..run'[r].got.size : chunks'[<<Document(r)', k>>] # None
    BY <1>1, <1>3 DEF Counted, Stored, Erased, Active
  <1>6. CASE UpdateGraph(r)
    <2>1. /\ run[r].got \in Contents /\ run[r].next \in 1..Len(Files[s]) /\ run[r].pc = "graph"
          /\ run[r].got.size \in 0..MaxSize /\ run[r].chunks \in Nat
      BY <1>1, <1>6, AtDocument, ContentsOK DEF UpdateGraph, BaseInv, RunRecord
    <2>2. /\ run'[r].next = run[r].next + 1 /\ run'[r].pc # "graph"
          /\ run'[r].chunks = run[r].chunks + run[r].got.size /\ UNCHANGED chunks
      BY <1>1, <1>6 DEF UpdateGraph, RunRecord, rows
    <2>3. n = run[r].next
      BY <1>3, <2>1, <2>2
    <2>4. Cardinality(Stored(s, n)) >= Cardinality(Stored(s, n - 1)) + run[r].got.size
      BY <1>4, <2>1, <2>3, StoredOfNext DEF Document
    <2> QED
      BY <1>2, <1>4, <2>1, <2>2, <2>3, <2>4
  <1>7. CASE ~UpdateGraph(r)
    <2>1. run'[r].next = run[r].next /\ run'[r].chunks = run[r].chunks
      <3>1. run'[r].next = run[r].next
        BY <1>7, Goes
      <3>2. run'[r].chunks = run[r].chunks
        BY <1>1, <1>7 DEF Pipeline, StartJob, ReadDocument, UpsertChunks, Progress, Complete,
                          RunRecord
      <3> QED
        BY <3>1, <3>2
    <2>2. Document(r)' = Document(r)
      BY <1>1, <2>1 DEF Document
    <2>3. run[r].chunks \in Nat
      BY <1>1 DEF RunRecord
    <2>4. run'[r].chunks <= Cardinality(Stored(s, n)')
      BY <1>2, <1>3, <1>4, <2>1, <2>3
    <2>5. CASE UpsertChunks(r)
      <3>1. /\ run'[r].got = run[r].got /\ run[r].got \in Contents /\ Document(r) \in Docs
            /\ PermissionTag(run[r].got.tag, s) \in Tags /\ run[r].got.size \in 0..MaxSize
        BY <1>1, <2>5, AtDocument, PermissionTagTyped, ContentsOK
           DEF UpsertChunks, BaseInv, RunRecord
      <3>2. ASSUME NEW k \in 1..run[r].got.size PROVE chunks'[<<Document(r), k>>] # None
        <4>1. <<Document(r), k>> \in Rows /\ k <= run[r].got.size
          BY <3>1, ConstantsOK DEF Rows
        <4> QED
          BY <2>5, <3>1, <4>1, ConstantsOK DEF UpsertChunks
      <3> QED
        BY <2>2, <2>4, <3>1, <3>2
    <2>6. CASE ReadDocument(r)
      <3>1. run'[r].pc = "graph" => run'[r].got.size = 0
        BY <1>1, <2>6 DEF ReadDocument, RunRecord
      <3> QED
        BY <2>4, <3>1
    <2>7. CASE StartJob(r) \/ Progress(r) \/ Complete(r)
      <3>1. run'[r].pc # "graph"
        BY <1>1, <2>7 DEF StartJob, Progress, Complete, RunRecord
      <3> QED
        BY <2>4, <3>1
    <2> QED
      BY <1>7, <2>5, <2>6, <2>7 DEF Pipeline
  <1> QED
    BY <1>6, <1>7

LEMMA CountsKept ==
    ASSUME BaseInv, HoldersInv, CountsInv, Next
    PROVE  CountsInv'
  <1> SUFFICES ASSUME NEW r \in Runners PROVE Counted(r)'
    BY DEF CountsInv, Counted
  <1>1. Counted(r) /\ run \in [Runners -> RunRecord]
    BY DEF CountsInv, Counted, BaseInv, RunsTyped
  <1> DEFINE Same == /\ run'[r].pc = run[r].pc /\ run'[r].source = run[r].source
                     /\ run'[r].next = run[r].next /\ run'[r].chunks = run[r].chunks
                     /\ run'[r].got = run[r].got
  <1>2. CASE Same
    <2>1. CASE Active(r) /\ ~Erased(run[r].source)'
      <3>1. PICK s \in Sources : s = run[r].source
        BY <2>1 DEF BaseInv, RunsTyped, RunFits, Active
      <3>2. PICK n \in Nat : n = run[r].next - 1
        BY <1>1 DEF BaseInv, RunsTyped, RunFits, RunRecord
      <3>3. ~Erased(s)'
        BY <1>2, <2>1, <3>1 DEF Erased
      <3>4. /\ ~Erased(s) /\ Stored(s, n) \subseteq Stored(s, n)'
            /\ StoredChunks(s) \subseteq StoredChunks(s)'
            /\ Cardinality(Stored(s, n)) <= Cardinality(Stored(s, n)')
            /\ Cardinality(Stored(s, n)) \in Nat /\ Cardinality(Stored(s, n)') \in Nat
        BY <3>3, StoredGrows, StoredCards, CardsTyped
      <3>5. run[r].chunks <= Cardinality(Stored(s, n)')
        BY <1>1, <2>1, <3>1, <3>2, <3>4 DEF Counted, RunRecord
      <3>6. ASSUME run[r].pc = "graph", NEW k \in 1..run[r].got.size
            PROVE  chunks'[<<Document(r), k>>] # None
        <4>1. /\ <<Document(r), k>> \in Rows /\ Document(r) \in ToSet(Files[s])
          <5>1. /\ run[r].got.size \in 0..MaxSize /\ Document(r) \in Docs
                /\ run[r].next \in 1..Len(Files[s])
            BY <3>1, <3>6, AtDocument, ContentsOK DEF BaseInv
          <5> QED
            BY <3>1, <5>1, FilesTyped, ConstantsOK DEF Rows, Document
        <4>2. chunks[<<Document(r), k>>] # None
          BY <1>1, <2>1, <3>1, <3>4, <3>6 DEF Counted
        <4>3. <<Document(r), k>> \in StoredChunks(s)'
          BY <3>4, <4>1, <4>2 DEF StoredChunks
        <4> QED
          BY <4>3 DEF StoredChunks
      <3>7. Document(r)' = Document(r)
        BY <1>2 DEF Document
      <3> QED
        BY <1>1, <1>2, <2>1, <3>1, <3>2, <3>5, <3>6, <3>7 DEF Counted, Stored
    <2>2. CASE ~Active(r) \/ Erased(run[r].source)'
      BY <1>1, <1>2, <2>2 DEF Counted, Active
    <2> QED
      BY <2>1, <2>2
  <1>3. CASE run'[r].pc = "idle"
    <2>1. run'[r].chunks = 0
      <3>1. run'[r] = Idle
        BY <1>3, BaseStep DEF BaseInv, RunsTyped, RunFits
      <3> QED
        BY <3>1 DEF Idle
    <2> QED
      BY <1>3, <2>1 DEF Counted, Active
  <1>4. CASE Begins(r)
    <2>1. run'[r].pc = "start" /\ run'[r].chunks = 0
      BY <1>1, <1>4 DEF Begins
    <2>2. PICK s \in Sources : s = run'[r].source
      BY <2>1, BaseStep DEF BaseInv, RunsTyped, RunFits
    <2>3. PICK n \in Int : n = run'[r].next - 1
      BY BaseStep DEF BaseInv, RunsTyped, RunRecord
    <2>4. ~Erased(s)' => 0 <= Cardinality(Stored(s, n)')
      BY StoredCards
    <2> QED
      BY <2>1, <2>2, <2>3, <2>4 DEF Counted, Stored, Erased
  <1>5. CASE Pipeline(r)
    <2>1. PICK s \in Sources : s = run[r].source
      BY <1>5, Goes
    <2>2. run'[r].source = s /\ run'[r].pc \notin {"idle", "start"}
      BY <1>5, <2>1, Goes
    <2>3. CASE ~Erased(s)'
      BY <1>1, <1>5, <2>1, <2>3, CountsOfPipeline
    <2>4. CASE Erased(s)'
      BY <2>2, <2>4 DEF Counted, Erased
    <2> QED
      BY <2>3, <2>4
  <1>6. ASSUME NEW q \in Runners, Begins(q) \/ Pipeline(q) \/ Ends(q) \/ Disowned(q)
        PROVE  Same \/ run'[r].pc = "idle" \/ (q = r /\ (Begins(q) \/ Pipeline(q)))
    <2>1. CASE q # r
      BY <1>1, <1>6, <2>1, Goes DEF Begins, Ends, Disowned
    <2>2. CASE q = r
      BY <1>1, <1>6, <2>2, IdleTyped DEF Ends, Disowned, RunRecord
    <2> QED
      BY <2>1, <2>2
  <1> QED
    BY <1>2, <1>3, <1>4, <1>5, <1>6, RunSteps

LEMMA CountsAreBackedKept ==
    ASSUME BaseInv, HoldersInv, CountsInv, CountsAreBacked, Next
    PROVE  CountsAreBacked'
  <1> SUFFICES ASSUME NEW j \in Jobs, NEW s, s = job'[j].source, s # None,
                      job'[j].status # "free", ~Erased(s)'
               PROVE  Cardinality(StoredChunks(s)') >= job'[j].chunks
    BY DEF CountsAreBacked, Erased, StoredChunks
  <1>1. s \in Sources /\ job'[j].chunks \in Nat
    BY BaseStep DEF BaseInv, JobsTyped, JobRecord
  <1>2. /\ ~Erased(s) /\ Cardinality(StoredChunks(s)) <= Cardinality(StoredChunks(s)')
        /\ Cardinality(StoredChunks(s)) \in Nat /\ Cardinality(StoredChunks(s)') \in Nat
    BY <1>1, StoredGrows, StoredCards, CardsTyped
  <1>3. CASE /\ job'[j].chunks = job[j].chunks /\ job[j].source = s /\ job[j].status # "free"
    BY <1>1, <1>2, <1>3 DEF CountsAreBacked, Erased
  <1>4. CASE job'[j].chunks = 0
    BY <1>2, <1>4
  <1>5. ASSUME NEW r \in Runners, StartJob(r)
        PROVE  \/ job'[j].chunks = 0
               \/ job'[j].chunks = job[j].chunks /\ job[j].source = s /\ job[j].status # "free"
    <2>1. CASE j # run'[r].job
      BY <1>5, <2>1, StartSteps
    <2>2. CASE j = run'[r].job /\ run[r].job = NoJob
      BY <1>5, <2>2, StartSteps
    <2>3. CASE j = run'[r].job /\ run[r].job # NoJob
      BY <1>5, <2>3, StartSteps DEF HoldersInv, RunsHeld, Held
    <2> QED
      BY <2>1, <2>2, <2>3
  <1>6. ASSUME NEW t \in Sources, SyncNow(t) PROVE job'[j].chunks = 0 \/ job'[j] = job[j]
    BY <1>6, SyncSteps
  <1>7. ASSUME NEW r \in Runners, Progress(r) \/ Complete(r)
        PROVE  job'[j] = job[j] \/ Cardinality(StoredChunks(s)) >= job'[j].chunks
    <2>1. CASE run[r].job # j
      BY <1>7, <2>1, ReportSteps
    <2>2. CASE run[r].job = j
      <3>1. run[r].source = s /\ Active(r)
        <4>1. j # NoJob
          BY ConstantsOK DEF Jobs, NoJob
        <4> QED
          BY <1>7, <2>2, <4>1, ReportSteps
             DEF HoldersInv, RunsHeld, Held, Progress, Complete, Active
      <3>2. job'[j].chunks = run[r].chunks /\ run[r].chunks \in Nat
        BY <1>7, <2>2, ReportSteps DEF BaseInv, RunsTyped, RunRecord
      <3>3. run[r].chunks <= Cardinality(Stored(s, run[r].next - 1))
        BY <1>2, <3>1 DEF CountsInv
      <3>4. /\ Cardinality(Stored(s, run[r].next - 1)) <= Cardinality(StoredChunks(s))
            /\ Cardinality(Stored(s, run[r].next - 1)) \in Nat
        BY <1>1, CardsTyped
      <3> QED
        BY <1>2, <3>2, <3>3, <3>4
    <2> QED
      BY <2>1, <2>2
  <1>8. ASSUME OperatorDowngrades PROVE job'[j] = job[j] \/ job'[j].chunks = 0
    BY <1>8 DEF OperatorDowngrades, FreeJob, NewJob
  <1>9. CASE Cardinality(StoredChunks(s)) >= job'[j].chunks
    BY <1>1, <1>2, <1>9
  <1> QED
    BY <1>3, <1>4, <1>5, <1>6, <1>7, <1>8, <1>9, JobSteps

\* The chunks that a job reports were stored and are still there, whatever was
\* retried, delivered twice or ingested elsewhere meanwhile: only an erasure of
\* one of its authors takes some away.
THEOREM CountsAreBackedHolds == Spec => []CountsAreBacked
  <1>1. Start => CountsInv /\ CountsAreBacked
    BY IdleTyped DEF Start, Init, CountsInv, CountsAreBacked, FreeJob, NewJob, Idle, Active
  <1>2. ASSUME CountsInv, CountsAreBacked, UNCHANGED vars PROVE CountsInv' /\ CountsAreBacked'
    BY <1>2 DEF CountsInv, CountsAreBacked, StoredChunks, Stored, Erased, Active, Document,
                vars, ivars, rows
  <1> QED
    BY <1>1, <1>2, CountsKept, CountsAreBackedKept, BaseAlways, HoldersAlways, PTL DEF Spec

-----------------------------------------------------------------------------
(* The schema: the database has the objects of its revision and those of no *)
(* other, and of the columns nothing adds all or none.                      *)

SchemaInv ==
    /\ AtRevision(revision, objects)
    /\ ByHand \subseteq objects \/ ByHand \cap objects = {}

LEMMA BeyondRevisions ==
    /\ \A o \in ByHand : o[1] \in {"column", "fits"} /\ o[2] \in InitialTables
    /\ \A k \in Ensuring : Ensured[k] \cap ByHand = {}
    /\ \A k \in Ensuring : \A o \in Ensured[k] :
         o[1] = "column" \/ o = Table("document_chunks")
    /\ \A k \in 1..4 : \A o \in Made[k] :
         o[1] \in {"table", "index"} /\ o # Table("document_chunks")
  <1>1. \A o \in ByHand : o[1] \in {"column", "fits"} /\ o[2] \in InitialTables
    BY DEF ByHand, RoleColumns, UserColumns, SessionColumns, Misfits, Column, InitialTables
  <1>2. Ensuring = 1..5
    BY DEF Ensuring, Ensured
  <1>3. \A k \in Ensuring : Ensured[k] \cap ByHand = {}
    BY <1>2 DEF Ensured, ByHand, RoleColumns, UserColumns, SessionColumns, Misfits, Column, Table
  <1>4. \A k \in Ensuring : \A o \in Ensured[k] :
            o[1] = "column" \/ o = Table("document_chunks")
    BY <1>2 DEF Ensured, Column, Table
  <1>5. \A k \in 1..4 : \A o \in Made[k] :
            o[1] \in {"table", "index"} /\ o # Table("document_chunks")
    BY DEF Made, IdentityMade, ContentMade, IndexesMade, ConversationsMade, Table, Index
  <1> QED
    BY <1>1, <1>3, <1>4, <1>5

LEMMA MoreObjects ==
    ASSUME NEW r, NEW O, NEW D, AtRevision(r, O), \A k \in 1..4 : Made[k] \cap D = {}
    PROVE  AtRevision(r, O \cup D)
  BY DEF AtRevision

LEMMA Upgraded ==
    ASSUME SchemaInv, Upgrade
    PROVE  /\ SchemaInv' /\ objects \subseteq objects'
           /\ ByHand \cap objects = {} => ByHand \cap objects' = {}
  <1>1. revision \in 0..4 /\ revision' = 4
    BY UpgradesTyped DEF SchemaInv, AtRevision, Upgrade
  <1>2. PICK P : /\ Yields(PendingOps, objects, P) /\ AtRevision(4, P) /\ objects \subseteq P
                 /\ P \subseteq objects \cup UNION {Made[k] : k \in 1..4}
    BY <1>1, PendingUp DEF SchemaInv
  <1>3. objects' = P
    BY <1>2 DEF Upgrade, Yields
  <1>4. ByHand \cap objects = {} => ByHand \cap P = {}
    BY <1>2, BeyondRevisions
  <1>5. AtRevision(revision, objects)'
    BY <1>1, <1>2, <1>3
  <1> QED
    BY <1>2, <1>3, <1>4, <1>5 DEF SchemaInv

LEMMA DowngradedSchema ==
    ASSUME SchemaInv, Downgrade
    PROVE  /\ SchemaInv'
           /\ revision # 1 /\ ByHand \subseteq objects => ByHand \subseteq objects'
           /\ ByHand \cap objects = {} => ByHand \cap objects' = {}
  <1>1. revision \in 1..4 /\ revision' = revision - 1
    BY DEF SchemaInv, AtRevision, Downgrade
  <1>2. PICK P : /\ Yields(Downgrades[revision], objects, P) /\ AtRevision(revision - 1, P)
                 /\ P \subseteq objects
                 /\ revision = 1 => \A o \in P : o[2] \notin InitialTables
                 /\ revision # 1 => \A o \in objects \ P :
                        o[2] \in ConversationTableNames \/ o[1] = "index"
    BY <1>1, RevisionDown DEF SchemaInv
  <1>3. objects' = P
    BY <1>2 DEF Downgrade, Yields
  <1>4. revision = 1 => ByHand \cap P = {}
    BY <1>2, BeyondRevisions
  <1>5. revision # 1 /\ ByHand \subseteq objects => ByHand \subseteq P
    BY <1>2, BeyondRevisions, MadeOf
  <1>6. AtRevision(revision, objects)'
    BY <1>1, <1>2, <1>3
  <1> QED
    BY <1>2, <1>3, <1>4, <1>5, <1>6 DEF SchemaInv

LEMMA EnsuredSchema ==
    ASSUME SchemaInv, NEW k \in Ensuring, Ensure(k)
    PROVE  /\ SchemaInv' /\ objects \subseteq objects'
           /\ ByHand \cap objects = {} => ByHand \cap objects' = {}
  <1>1. \A l \in 1..4 : Made[l] \cap Ensured[k] = {}
    BY BeyondRevisions
  <1>2. revision' = revision /\ objects' = objects \cup Ensured[k]
    BY DEF Ensure
  <1>3. AtRevision(revision, objects)'
    BY <1>1, <1>2, MoreObjects DEF SchemaInv
  <1> QED
    BY <1>2, <1>3, BeyondRevisions DEF SchemaInv

LEMMA AlteredSchema ==
    ASSUME SchemaInv, AlterByHand
    PROVE  SchemaInv' /\ ByHand \subseteq objects'
  <1>1. \A l \in 1..4 : Made[l] \cap ByHand = {}
    BY BeyondRevisions
  <1>2. revision' = revision /\ objects' = objects \cup ByHand
    BY DEF AlterByHand
  <1>3. AtRevision(revision, objects)'
    BY <1>1, <1>2, MoreObjects DEF SchemaInv
  <1> QED
    BY <1>2, <1>3 DEF SchemaInv

LEMMA SchemaKinds ==
    ASSUME Next
    PROVE  \/ SeedUpgrades \/ SeedEnsures \/ OperatorUpgrades \/ OperatorDowngrades
           \/ OperatorAlters \/ UNCHANGED schema
  BY DEF Next, SeedScript, SeedRoles, SeedUsers, SeedSource, SeedStartsIngestion, SeedRuns,
         SeedIngested, SeedFinishes, SeedFails, WorkerActs, AdministratorActs, AdministratorEdits

LEMMA SchemaStep ==
    ASSUME SchemaInv, [Next]_vars
    PROVE  SchemaInv'
  <1>1. CASE UNCHANGED schema
    BY <1>1 DEF schema, SchemaInv
  <1>2. CASE SeedUpgrades \/ OperatorUpgrades
    BY <1>2, Upgraded DEF SeedUpgrades, OperatorUpgrades
  <1>3. CASE SeedEnsures
    BY <1>3, EnsuredSchema DEF SeedEnsures
  <1>4. CASE OperatorDowngrades
    BY <1>4, DowngradedSchema DEF OperatorDowngrades
  <1>5. CASE OperatorAlters
    BY <1>5, AlteredSchema DEF OperatorAlters
  <1>6. UNCHANGED vars => UNCHANGED schema
    BY DEF vars
  <1> QED
    BY <1>1, <1>2, <1>3, <1>4, <1>5, <1>6, SchemaKinds

LEMMA SchemaAlways == Spec => []SchemaInv
  <1>1. Start => SchemaInv
    BY DEF Start, Initially, SchemaInv, AtRevision
  <1> QED
    BY <1>1, SchemaStep, PTL DEF Spec

\* Whatever migrations, the script and columns added by hand have made of the
\* database, the missing revisions can be run and the last one taken back, and
\* no table refers to one that is gone.
THEOREM MigrationsApplyHolds == Spec => MigrationsApply
  <1>1. ASSUME SchemaInv
        PROVE  Migratable
    <2>1. revision \in 0..4
      BY <1>1 DEF SchemaInv, AtRevision
    <2>2. Migrated(PendingOps, objects) # {}
      BY <1>1, <2>1, PendingUp DEF SchemaInv, Yields
    <2>3. ASSUME revision > 0
          PROVE  Migrated(Downgrades[revision], objects) # {}
      BY <1>1, <2>1, <2>3, RevisionDown DEF SchemaInv, Yields
    <2>4. \A fk \in ForeignKeys : HasTable(fk[1], objects) => HasTable(fk[2], objects)
      BY <1>1, KeysHold DEF SchemaInv
    <2> QED
      BY <2>2, <2>3, <2>4 DEF Migratable
  <1> QED
    BY <1>1, SchemaAlways, PTL DEF MigrationsApply

-----------------------------------------------------------------------------
(* The seed script on the tables of the revisions *)

SeedInv ==
    ByHand \cap objects = {} => roles = "none" /\ users = "none" /\ seedStep <= RolesStep

LEMMA SeedWaits ==
    ASSUME SchemaInv, SeedInv, Next
    PROVE  SeedInv'
  <1>1. Column("roles", "permissions") \in ByHand /\ ByHand # {}
    BY DEF ByHand, RoleColumns
  <1>2. Ensuring = 1..5 /\ RolesStep = 6
    BY DEF Ensuring, RolesStep, Ensured
  <1>3. CASE SeedUpgrades
    BY <1>1, <1>2, <1>3, Upgraded DEF SeedUpgrades, SeedAt, SeedInv, demo, SchemaInv
  <1>4. CASE OperatorUpgrades
    BY <1>1, <1>2, <1>4, Upgraded DEF OperatorUpgrades, SeedInv, demo, script, SchemaInv
  <1>5. CASE SeedEnsures
    <2>1. PICK k \in Ensuring : seedStep = k /\ Ensure(k) /\ seedStep' = k + 1
      BY <1>5 DEF SeedEnsures, SeedAt
    <2>2. ByHand \cap objects' = {} => ByHand \cap objects = {}
      BY <2>1, EnsuredSchema
    <2> QED
      BY <1>2, <1>5, <2>1, <2>2 DEF SeedEnsures, SeedInv, demo
  <1>6. CASE OperatorDowngrades
    <2>1. ByHand \cap objects' = {} => ByHand \cap objects = {} \/ revision = 1
      BY <1>1, <1>6, DowngradedSchema DEF OperatorDowngrades, SchemaInv
    <2> QED
      BY <1>2, <1>6, <2>1 DEF OperatorDowngrades, Quiet, SeedInv, script
  <1>7. CASE OperatorAlters
    BY <1>1, <1>7, AlteredSchema DEF OperatorAlters, SeedInv
  <1>8. CASE UNCHANGED schema
    <2>1. SUFFICES ASSUME ByHand \cap objects = {}
                   PROVE  roles' = "none" /\ users' = "none" /\ seedStep' <= RolesStep
      BY <1>8 DEF SeedInv, schema
    <2>2. roles = "none" /\ users = "none" /\ seedStep <= 6
      BY <1>2, <2>1 DEF SeedInv
    <2>3. ~Has({Column("roles", "permissions")}) /\ ~Serving
      BY <1>1, <2>1 DEF Has, Serving
    <2>4. CASE SeedScript
      BY <1>2, <2>2, <2>3, <2>4
         DEF SeedScript, SeedUpgrades, SeedEnsures, SeedRoles, SeedUsers, SeedSource,
             SeedStartsIngestion, SeedRuns, SeedIngested, SeedFinishes, SeedFails, SeedAt,
             SeedEnds, UsersStep, SourceStep, IngestStep, FinishStep, demo, script
    <2>5. CASE ~SeedScript
      BY <1>2, <2>2, <2>3, <2>5
         DEF Next, WorkerActs, AdministratorActs, AdministratorEdits, OperatorDowngrades,
             OperatorUpgrades, OperatorAlters, Quiet, demo, script
    <2> QED
      BY <2>4, <2>5
  <1> QED
    BY <1>3, <1>4, <1>5, <1>6, <1>7, <1>8, SchemaKinds

\* Where nobody has added the columns the models need, the script stops at the
\* roles, and no demo row is ever there.
THEOREM SeedNeedsColumnsHolds == Spec => []SeedNeedsColumns
  <1>1. Start => SeedInv
    BY DEF Start, SeedInv, RolesStep, Ensured
  <1>2. ASSUME SchemaInv, SeedInv, [Next]_vars
        PROVE  SeedInv'
    BY <1>2, SeedWaits DEF vars, schema, demo, script, SeedInv
  <1>3. SchemaInv /\ SeedInv => SeedNeedsColumns
    BY DEF SchemaInv, SeedInv, SeedNeedsColumns, Has
  <1> QED
    BY <1>1, <1>2, <1>3, SchemaAlways, PTL DEF Spec
=============================================================================
