------------------------------ MODULE Platform ------------------------------
(***************************************************************************)
(* The data platform as a whole: the sources and the workers of Ingestion  *)
(* on the database of Schema, and the seed script, which migrates the      *)
(* database, adds columns, inserts the demo rows and ingests the demo      *)
(* source, each step committed on its own.                                 *)
(***************************************************************************)
EXTENDS Ingestion, Schema

CONSTANTS
    Demo,        \* SEED_SOURCE_ID
    MinChunks,   \* the seed script wants more rows than this (200)
    MinPersons,  \* ... and more nodes of authors than this (4)
    Disturbances \* the kinds of disturbance a behaviour may have, together

ASSUME DemoOK == Demo \in Sources /\ MinChunks \in Nat /\ MinPersons \in Nat

VARIABLES
    seedStep,    \* what the seed script is at; 0: it does not run
    seedResult,  \* how its last run ended
    roles, users \* the demo rows: "none", "seeded" or "edited"

demo == <<roles, users>>
script == <<seedStep, seedResult>>

\* History: what has happened.  No action reads it.
VARIABLES
    gaveUp,      \* jobs whose task was not published, failed for good, whose
                 \* only attempt failed, or whose worker was lost when the
                 \* message was no longer its own
    redelivered, \* jobs whose message was delivered again
    edited,      \* documents that were edited
    torn,        \* documents whose attempt ended between the two stores
    reingested   \* authors ingested after the beginning of their erasure

history == <<gaveUp, redelivered, edited, torn, reingested>>
vars == <<ivars, schema, script, demo, history>>

Start ==
    /\ Init /\ Initially
    /\ allowed \in Disturbances
    /\ seedStep = 0 /\ seedResult = "none"
    /\ roles = "none" /\ users = "none"
    /\ gaveUp = {} /\ redelivered = {} /\ edited = {} /\ torn = {} /\ reingested = {}

-----------------------------------------------------------------------------
(* The seed script *)

Ensuring == 1..Len(Ensured)
RolesStep == Len(Ensured) + 1
UsersStep == RolesStep + 1
SourceStep == UsersStep + 1
IngestStep == SourceStep + 1
FinishStep == IngestStep + 1

SeedAt(step) == seedStep = step /\ seedStep' = step + 1 /\ UNCHANGED seedResult
SeedEnds(result) == seedStep' = 0 /\ seedResult' = result

\* Bound: the script starts while there are jobs left.
SeedUpgrades ==
    /\ SeedAt(0) /\ Cardinality(Free) > Reserve
    /\ Upgrade
    /\ UNCHANGED <<ivars, demo>>

SeedEnsures ==
    /\ seedStep \in Ensuring /\ SeedAt(seedStep)
    /\ Ensure(seedStep)
    /\ UNCHANGED <<ivars, demo>>

\* A mutant: a conflict updates the row.
SeedRolesAgain ==
    /\ SeedAt(RolesStep)
    /\ Has({Column("roles", "permissions")})
    /\ roles' = "seeded"
    /\ UNCHANGED <<ivars, schema, users>>

SeedRoles ==
    /\ SeedAt(RolesStep)
    /\ Has({Column("roles", "permissions")})
    /\ roles' = IF roles = "none" THEN "seeded" ELSE roles
    /\ UNCHANGED <<ivars, schema, users>>

SeedUsers ==
    /\ SeedAt(UsersStep)
    /\ Has(UserColumns)
    /\ users' = IF users = "none" THEN "seeded" ELSE users
    /\ UNCHANGED <<ivars, schema, roles>>

\* A row that was deleted is a conflict too: nothing is inserted.
SeedSource ==
    /\ SeedAt(SourceStep)
    /\ source' = [source EXCEPT ![Demo] = IF @ = "none" THEN "active" ELSE @]
    /\ UNCHANGED <<job, chunks, graph, file, publishing, queue, run, erasure, env,
                   counters, schema, demo>>

SeedStartsIngestion ==
    /\ seedStep = IngestStep
    /\ SeedIngests(Demo)
    /\ UNCHANGED <<schema, script, demo>>

SeedRuns ==
    /\ Pipeline(Seed)
    /\ UNCHANGED <<schema, script, demo>>

SeedIngested ==
    /\ SeedAt(IngestStep)
    /\ Return(Seed)
    /\ UNCHANGED <<schema, demo>>

SeedFinishes ==
    /\ seedStep = FinishStep
    /\ SeedEnds(IF Cardinality({x \in Rows : chunks[x] # None}) > MinChunks
                  /\ Cardinality(persons) > MinPersons
                THEN "completed" ELSE "failed")
    /\ UNCHANGED <<ivars, schema, demo>>

SeedFails ==
    /\ SeedEnds("failed")
    /\ \/ /\ seedStep # 0 /\ ~Active(Seed)
          /\ \/ "error" \in allowed
             \/ seedStep = RolesStep /\ ~Has({Column("roles", "permissions")})
             \/ seedStep = UsersStep /\ ~Has(UserColumns)
          /\ UNCHANGED ivars
       \/ GiveUp(Seed)
    /\ UNCHANGED <<schema, demo>>

SeedScript ==
    \/ SeedUpgrades \/ SeedEnsures \/ SeedRoles \/ SeedUsers \/ SeedSource
    \/ SeedStartsIngestion \/ SeedRuns \/ SeedIngested \/ SeedFinishes \/ SeedFails

-----------------------------------------------------------------------------
(* The operator, the administrators and the workers *)

Quiet ==
    /\ seedStep = 0 /\ queue = {} /\ publishing = {}
    /\ \A r \in Runners : ~Active(r)

\* With the tables of the first revision go the rows; document_chunks, which no
\* revision knows, and the graph stay.
OperatorDowngrades ==
    /\ "downgrade" \in allowed /\ Quiet
    /\ Downgrade
    /\ source' = [s \in Sources |-> IF revision = 1 THEN "none" ELSE source[s]]
    /\ job' = [j \in Jobs |-> IF revision = 1 THEN FreeJob ELSE job[j]]
    /\ roles' = IF revision = 1 THEN "none" ELSE roles
    /\ users' = IF revision = 1 THEN "none" ELSE users
    /\ UNCHANGED <<chunks, graph, file, publishing, queue, run, erasure, env, counters, script>>

OperatorUpgrades ==
    /\ seedStep = 0 /\ revision < Latest
    /\ Upgrade
    /\ UNCHANGED <<ivars, script, demo>>

OperatorAlters ==
    /\ ~Has(ByHand)
    /\ AlterByHand
    /\ UNCHANGED <<ivars, script, demo>>

\* Nobody can log in, and no source be created, on the tables of the revisions.
Serving == Has(ByHand \cup UNION ToSet(Ensured))

AdministratorEdits ==
    /\ "manage" \in allowed /\ Serving
    /\ \/ roles = "seeded" /\ roles' = "edited" /\ UNCHANGED users
       \/ users = "seeded" /\ users' = "edited" /\ UNCHANGED roles
    /\ UNCHANGED <<ivars, schema, script>>

AdministratorActs ==
    /\ Serving
    /\ Administer
    /\ UNCHANGED <<schema, script, demo>>

WorkerActs ==
    /\ \E w \in Workers : Serve(w) \/ Lose(w)
    /\ UNCHANGED <<schema, script, demo>>

-----------------------------------------------------------------------------
(* The specification *)

Ended == {r \in Runners : run[r].pc \notin {"idle", "done"} /\ run'[r] = Idle}
OwnJob(r) == r = Seed \/ run[r].msg.job = NoJob

Observe ==
    /\ gaveUp' = {j \in gaveUp \cup {j \in publishing \ publishing' : queue' = queue}
                        \cup {run[r].job : r \in {r \in Ended : OwnJob(r)}}
                        \cup {run[w].job : w \in {w \in Ended :
                                 crashes' # crashes /\ ~run[w].owned}}
                        \cup {run[r].job : r \in {r \in Ended :
                                 LastAttempt(r) /\ crashes' = crashes}} :
                    j # NoJob /\ job'[j].status # "free"}
    /\ redelivered' = redelivered \cup
            {run[w].msg.job : w \in {w \in Workers : crashes' # crashes /\ run'[w] # run[w]}}
    /\ edited' = edited \cup {d \in Docs : file'[d] # file[d]}
    /\ torn' = torn \cup {Document(r) : r \in {r \in Ended : run[r].pc = "graph"}}
    /\ reingested' = reingested \cup
            {a \in Authors : erasure[a] # "idle" /\ \E r \in Runners :
                /\ run[r].pc \in {"upsert", "graph"} /\ Author[Document(r)] = a
                /\ run'[r].pc \notin {run[r].pc, "idle"}}

Next ==
    /\ \/ SeedScript \/ WorkerActs
       \/ AdministratorActs \/ AdministratorEdits
       \/ OperatorDowngrades \/ OperatorUpgrades \/ OperatorAlters
    /\ Observe

Spec == Start /\ [][Next]_vars

-----------------------------------------------------------------------------
(* Properties *)

JobStates == {"free", "pending", "running", "completed", "failed"}

TypeOK ==
    /\ source \in [Sources -> {"none", "active", "deleted"}]
    /\ file \in [Docs -> Contents]
    /\ \A j \in Jobs : /\ job[j].status \in JobStates
                       /\ job[j].source \in Sources \cup {None}
                       /\ job[j].docs \in Nat /\ job[j].chunks \in Nat
    /\ chunks \in [Rows -> Tags \cup {None}]
    /\ queue \subseteq Messages
    /\ publishing \subseteq Jobs
    /\ documents \subseteq Docs /\ authored \subseteq documents
    /\ \A d \in authored : Author[d] \in persons

\* The chunks a job reports were stored and are still there, however many
\* attempts, retries and redeliveries have written to the job and the store:
\* only an erasure takes some away.
StoredChunks(s) == {x \in Rows : x[1] \in ToSet(Files[s]) /\ chunks[x] # None}
CountsAreBacked ==
    \A j \in Jobs : job[j].status # "free" /\ job[j].source # None =>
        \/ Cardinality(StoredChunks(job[j].source)) >= job[j].chunks
        \/ \E d \in ToSet(Files[job[j].source]) : erasure[Author[d]] # "idle"

\* Somebody will still work on the job.
Pending(j) ==
    \/ j \in publishing
    \/ \E m \in queue : m.job = j
    \/ \E r \in Runners : run[r].job = j

\* No task is lost: a job that is neither completed nor waiting for anybody is
\* one whose task was never published or has failed for good.
JobsAccounted ==
    \A j \in Jobs : job[j].status \in {"pending", "running", "failed"} =>
        Pending(j) \/ j \in gaveUp

\* A completed job stays completed, unless its message was delivered again.
CompletedIsFinal ==
    [][\A j \in Jobs :
        (job[j].status = "completed" /\ job'[j].status \notin {"completed", "free"}) =>
            j \in redelivered]_vars

\* The rows of a document are its chunks, under its own tag, as long as nobody
\* edits it: a document without a tag is readable with the tag of the mock
\* connector, and one with a blank tag with that of a source it is a file of.
StoreMirrorsFiles ==
    \A x \in Rows : chunks[x] # None /\ x[1] \notin edited =>
        /\ x[2] <= file[x[1]].size
        /\ \/ chunks[x] = file[x[1]].tag
           \/ file[x[1]].tag = Untagged /\ chunks[x] = Engineering
           \/ file[x[1]].tag = Blank /\ \E s \in Sources :
                x[1] \in ToSet(Files[s]) /\ chunks[x] = DefaultTag[s]

\* An attempt past the check of its source.
Ingests(r, s) == run[r].source = s /\ run[r].pc # "start"

\* Once a source is deleted, only the attempts go on that are past its check: no
\* other one passes it, and no job of the source changes its status but by an
\* attempt of that job which does, whatever is queued, retried or delivered again.
DeletedIsQuiet ==
    [][\A s \in Sources :
        (source[s] = "deleted" /\ source'[s] = "deleted") =>
            /\ \A r \in Runners : Ingests(r, s)' => Ingests(r, s)
            /\ \A j \in Jobs : job[j].source = s /\ job'[j].status # job[j].status =>
                    \E r \in Runners : Ingests(r, s) /\ run[r].job = j]_vars

\* The audit row of an erasure is true: no chunk, edge or node of the author is
\* left, except what was ingested since the erasure began.
AuditedErasureHolds ==
    \A a \in Authors : erasure[a] = "audited" /\ a \notin reingested =>
        /\ \A x \in Rows : Author[x[1]] = a => chunks[x] = None
        /\ \A d \in authored : Author[d] # a
        /\ a \notin persons

\* A document with chunks is in the graph, unless an attempt is between the two
\* stores or has ended there.
GraphFollows ==
    \A x \in Rows : chunks[x] # None =>
        \/ x[1] \in documents \cup torn
        \/ \E r \in Runners : run[r].pc = "graph" /\ Document(r) = x[1]

\* Every revision can be upgraded and downgraded from every state that
\* migrations, the script and columns added by hand lead to, and no table is
\* left that refers to one that is gone.
Migratable ==
    /\ Migrated(PendingOps, objects) # {}
    /\ revision > 0 => Migrated(Downgrades[revision], objects) # {}
    /\ \A fk \in ForeignKeys : HasTable(fk[1], objects) => HasTable(fk[2], objects)

MigrationsApply == [][schema' # schema => Migratable']_vars

\* Running the script again leaves alone what administrators have changed: the
\* roles and users they edited and the demo source they deleted, which is not
\* ingested again.
SeedKeepsChanges ==
    [][seedStep # 0 =>
        /\ roles = "edited" => roles' = "edited"
        /\ users = "edited" => users' = "edited"
        /\ source[Demo] = "deleted" =>
             /\ source'[Demo] = "deleted"
             /\ run[Seed].pc = "start" => run'[Seed].pc \in {"idle", "start"}]_vars

\* On a database that only Alembic and the script have touched the script never
\* gets past the roles: nothing is ever seeded.  This is why SeedWorks is false.
SeedNeedsColumns ==
    ~Has(ByHand) => roles = "none" /\ users = "none" /\ seedStep <= RolesStep

-----------------------------------------------------------------------------
(* What documents say, and the code does not do *)

\* "On exception: status=failed, retry": when the last attempt of a task raises,
\* its job is marked failed.
FailureIsRecorded ==
    [][\A w \in Workers :
        (/\ run[w].pc \notin {"idle", "done"} /\ run[w].msg.job # NoJob
         /\ run'[w] = Idle /\ crashes' = crashes /\ LastAttempt(w)) =>
            job'[run[w].msg.job].status = "failed"]_vars

\* "make seed works": the script, which migrates the database itself, does not
\* fail where nothing disturbs it.
SeedWorks == allowed = {} => seedResult # "failed"
=============================================================================
