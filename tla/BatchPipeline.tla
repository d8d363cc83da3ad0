--------------------------- MODULE BatchPipeline ---------------------------
(***************************************************************************)
(* The path of an uploaded batch of diplomas through the system:           *)
(*                                                                         *)
(*   gateway   Upload -> PublishRawTasks -> topic diplomas.raw_tasks       *)
(*   engine    KafkaConsumer.consume -> DiplomaProcessor.process           *)
(*             -> PostgreSQL, topic diplomas.processing_results            *)
(*   gateway   ResultConsumer.Start -> ApplyProcessingResult -> PostgreSQL *)
(*                                                                         *)
(* One action is one statement, transaction or broker call: between two of *)
(* them every other process may run.  The engines are the members of one   *)
(* consumer group over a topic of one partition; a record of a batch is a  *)
(* Task, a diploma number is a pair (vuz_id, diploma_number), and salts,   *)
(* signatures and QR tokens are abstracted to the hash they carry.         *)
(***************************************************************************)
EXTENDS Naturals, Sequences, FiniteSets

CONSTANTS
    University,   \* ids of universities (vuz_id)
    Batch,        \* ids of batches
    Task,         \* the uploaded records: one per (batch_id, record_index)
    Number,       \* diploma numbers, each scoped to its university
    Hash,         \* SHA-256 values of the uploaded diplomas
    Engine,       \* running instances of the cryptography engine
    BatchVuz,     \* batch -> the university that uploaded it
    NumberVuz,    \* diploma number -> its university
    TaskBatch,    \* record -> its batch
    TaskNumber,   \* record -> its diploma number
    TaskHash,     \* record -> the hash of its fields
    Chunks,       \* batch -> the produce requests its tasks are split into
    MaxAttempts,  \* writer attempts per produce request (MaxAttempts: 3)
    FaultKinds,   \* which faults the environment may inject
    MaxFaults,    \* how many of them in one behaviour (bound)
    None          \* no hash, no task, no owner

ASSUME DataAssumption ==
    /\ BatchVuz \in [Batch -> University]
    /\ NumberVuz \in [Number -> University]
    /\ TaskBatch \in [Task -> Batch]
    /\ TaskNumber \in [Task -> Number]
    /\ TaskHash \in [Task -> Hash]
    /\ \A t \in Task : NumberVuz[TaskNumber[t]] = BatchVuz[TaskBatch[t]]
    \* the number is hashed, and SHA-256 does not collide
    /\ \A t, s \in Task : TaskHash[t] = TaskHash[s] => TaskNumber[t] = TaskNumber[s]
    /\ None \notin Hash \cup Task \cup Engine
    /\ IsFiniteSet(Task)

TasksOf(b) == {t \in Task : TaskBatch[t] = b}

\* parseRecords refuses an empty upload; the writer sends every task.
ASSUME UploadAssumption ==
    /\ \A b \in Batch : TasksOf(b) # {}
    /\ \A b \in Batch : Chunks[b] \in Seq(Seq(TasksOf(b)))
    /\ \A t \in Task : \E i \in DOMAIN Chunks[TaskBatch[t]] :
          \E j \in DOMAIN Chunks[TaskBatch[t]][i] : Chunks[TaskBatch[t]][i][j] = t

ASSUME BoundAssumption ==
    /\ MaxAttempts \in Nat \ {0}
    /\ MaxFaults \in Nat

VARIABLES
    (* PostgreSQL *)
    live,         \* universities that exist
    keyed,        \* universities with a row in university_signing_keys
    batch,        \* batches: status and processed_records
    results,      \* batch_results: the row of each record
    hash,         \* diploma_hashes: the hash registered for each number
    diploma,      \* diploma_hashes: the status of each number
    (* gateway: upload requests and the Kafka writer they share *)
    upload,       \* where each upload request is
    queue,        \* produce requests the writer has not finished
    attempts,     \* failed attempts of the request at the head of queue
    unpublished,  \* batches with a request the writer gave up
    (* Kafka: raw tasks and the consumer group of the engines *)
    rawLog,       \* diplomas.raw_tasks, never truncated
    committed,    \* committed offset of the group
    owner,        \* the engine the partition is assigned to
    position,     \* fetch position of the owner
    (* engines *)
    engine,       \* the message each engine handles, and how far it is
    (* Kafka: results and the gateway's consumer *)
    resLog,       \* diplomas.processing_results
    gateway,      \* the result consumer: message, positions
    faults        \* faults injected so far

dbVars     == <<live, keyed, batch, results, hash, diploma>>
uploadVars == <<upload, queue, attempts, unpublished>>
topicVars  == <<rawLog, committed, owner, position>>
vars == <<dbVars, uploadVars, topicVars, engine, resLog, gateway, faults>>

-----------------------------------------------------------------------------
(* Values *)

BatchRow == [status : {"absent", "processing", "completed", "failed"},
             processed : Nat]

Outcome == {"none", "ok", "error"}

EngineState ==
    [pc   : {"fetch", "identify", "register", "check", "persist", "send", "commit"},
     task : Task \cup {None},
     res  : Outcome,
     off  : Nat]

Idle == [pc |-> "fetch", task |-> None, res |-> "none", off |-> 0]

\* A produce request of the writer, and those of a batch.
Request == [batch : Batch, tasks : Seq(Task)]

Requests(b) == [i \in DOMAIN Chunks[b] |-> [batch |-> b, tasks |-> Chunks[b][i]]]

Result == [task : Task, res : {"ok", "error"}]

GatewayState ==
    [pc : {"fetch", "apply", "commit"}, pos : Nat, committed : Nat]

\* A fault of one of the kinds under study, while the budget lasts.
Fault(kind) ==
    /\ kind \in FaultKinds
    /\ faults < MaxFaults
    /\ faults' = faults + 1

-----------------------------------------------------------------------------
(* What the tables say of a record *)

TaskVuz(t) == BatchVuz[TaskBatch[t]]

Present(b) == batch[b].status # "absent"

\* The row of a record exists, or its university was deleted with all its rows.
Decided(t) == results[t] # "none" \/ TaskVuz(t) \notin live

Registered(t) == diploma[TaskNumber[t]] # "absent" /\ hash[TaskNumber[t]] = TaskHash[t]

-----------------------------------------------------------------------------
(* Administration and university requests that touch the same tables *)

\* SigningKeyService.Upsert, for this module: from now on there is a key.
UpsertSigningKey(u) ==
    /\ u \in live
    /\ keyed' = keyed \cup {u}
    /\ UNCHANGED <<live, batch, results, hash, diploma, uploadVars, topicVars,
                   engine, resLog, gateway, faults>>

\* UniversityRepository.DeleteCascade: one transaction over every table.
DeleteCascade(u) ==
    /\ u \in live
    /\ live' = live \ {u}
    /\ keyed' = keyed \ {u}
    /\ batch' = [b \in Batch |-> IF BatchVuz[b] = u
                                 THEN [status |-> "absent", processed |-> 0]
                                 ELSE batch[b]]
    /\ results' = [t \in Task |-> IF TaskVuz(t) = u THEN "none" ELSE results[t]]
    /\ hash' = [n \in Number |-> IF NumberVuz[n] = u THEN None ELSE hash[n]]
    /\ diploma' = [n \in Number |-> IF NumberVuz[n] = u THEN "absent" ELSE diploma[n]]
    /\ UNCHANGED <<uploadVars, topicVars, engine, resLog, gateway, faults>>

\* The UPDATE does not look at the current status: a second revocation matches.
MarkDiplomaRevoked(n) ==
    /\ diploma[n] # "absent"
    /\ diploma' = [diploma EXCEPT ![n] = "revoked"]
    /\ UNCHANGED <<live, keyed, batch, results, hash, uploadVars, topicVars,
                   engine, resLog, gateway, faults>>

-----------------------------------------------------------------------------
(* DiplomaService.Upload *)

\* One transaction; the foreign key needs the university.
CreateBatchWithRecords(b) ==
    /\ upload[b] = "idle"
    /\ BatchVuz[b] \in live
    /\ batch' = [batch EXCEPT ![b] = [status |-> "processing", processed |-> 0]]
    /\ upload' = [upload EXCEPT ![b] = "created"]
    /\ UNCHANGED <<live, keyed, results, hash, diploma, queue, attempts, unpublished,
                   topicVars, engine, resLog, gateway, faults>>

\* WriteMessages hands every task to the writer and waits.
PublishRawTasks(b) ==
    /\ upload[b] = "created"
    /\ upload' = [upload EXCEPT ![b] = "publishing"]
    /\ queue' = queue \o Requests(b)
    /\ UNCHANGED <<dbVars, attempts, unpublished, topicVars, engine, resLog, gateway, faults>>

\* The writer ends with the request at the head of its queue ...
Dequeue ==
    /\ queue' = Tail(queue)
    /\ attempts' = 0

\* ... after an acknowledgement, ...
WriterDeliver ==
    /\ queue # <<>>
    /\ rawLog' = rawLog \o Head(queue).tasks
    /\ Dequeue
    /\ UNCHANGED <<dbVars, upload, unpublished, committed, owner, position, engine,
                   resLog, gateway, faults>>

\* Mutant: one attempt too many.
AttemptFailed_OneMore ==
    \/ /\ attempts + 1 <= MaxAttempts
       /\ attempts' = attempts + 1
       /\ UNCHANGED <<queue, unpublished>>
    \/ /\ attempts + 1 > MaxAttempts
       /\ Dequeue
       /\ unpublished' = unpublished \cup {Head(queue).batch}

\* ... or when an attempt fails and it was the last one.
AttemptFailed ==
    \/ /\ attempts + 1 < MaxAttempts
       /\ attempts' = attempts + 1
       /\ UNCHANGED <<queue, unpublished>>
    \/ /\ attempts + 1 >= MaxAttempts
       /\ Dequeue
       /\ unpublished' = unpublished \cup {Head(queue).batch}

\* The broker refuses the request, or stores it and the acknowledgement is lost.
WriterError ==
    /\ queue # <<>>
    /\ Fault("broker")
    /\ AttemptFailed
    /\ \/ UNCHANGED rawLog
       \/ rawLog' = rawLog \o Head(queue).tasks
    /\ UNCHANGED <<dbVars, upload, committed, owner, position, engine, resLog, gateway>>

\* WriteMessages returns once the writer has ended with every request of b, ...
Flushed(b) == \A i \in DOMAIN queue : queue[i].batch # b

\* Mutant: the error of a request that was given up is lost.
PublishSucceeds_Partial(b) ==
    /\ upload[b] = "publishing"
    /\ Flushed(b)
    /\ upload' = [upload EXCEPT ![b] = "accepted"]
    /\ UNCHANGED <<dbVars, queue, attempts, unpublished, topicVars, engine, resLog,
                   gateway, faults>>

PublishSucceeds(b) ==
    /\ upload[b] = "publishing"
    /\ Flushed(b)
    /\ b \notin unpublished
    /\ upload' = [upload EXCEPT ![b] = "accepted"]
    /\ UNCHANGED <<dbVars, queue, attempts, unpublished, topicVars, engine, resLog,
                   gateway, faults>>

\* ... with an error ...
PublishFails(b) ==
    /\ upload[b] = "publishing"
    /\ Flushed(b)
    /\ b \in unpublished
    /\ upload' = [upload EXCEPT ![b] = "failing"]
    /\ UNCHANGED <<dbVars, queue, attempts, unpublished, topicVars, engine, resLog,
                   gateway, faults>>

\* ... or at the 15 s timeout of its context, with the writer still at work.
PublishTimeout(b) ==
    /\ upload[b] = "publishing"
    /\ ~Flushed(b)
    /\ Fault("timeout")
    /\ upload' = [upload EXCEPT ![b] = "failing"]
    /\ UNCHANGED <<dbVars, queue, attempts, unpublished, topicVars, engine, resLog, gateway>>

\* FailBatch overwrites the status whatever it is; Upload ignores its error
\* (the request's context may be cancelled by then).
FailBatch(b) ==
    /\ upload[b] = "failing"
    /\ upload' = [upload EXCEPT ![b] = "rejected"]
    /\ \/ /\ batch' = IF Present(b)
                     THEN [batch EXCEPT ![b] = [status |-> "failed",
                                                processed |-> batch[b].processed]]
                     ELSE batch
          /\ UNCHANGED faults
       \/ Fault("db") /\ UNCHANGED batch
    /\ UNCHANGED <<live, keyed, results, hash, diploma, queue, attempts, unpublished,
                   topicVars, engine, resLog, gateway>>

\* The gateway process dies: requests, writer and consumer start anew.
GatewayCrash ==
    /\ Fault("gateway")
    /\ upload' = [b \in Batch |-> IF upload[b] \in {"created", "publishing", "failing"}
                                  THEN "lost" ELSE upload[b]]
    /\ queue' = <<>>
    /\ attempts' = 0
    /\ gateway' = [pc |-> "fetch", pos |-> gateway.committed, committed |-> gateway.committed]
    /\ UNCHANGED <<dbVars, unpublished, topicVars, engine, resLog>>

-----------------------------------------------------------------------------
(* The consumer group of the engines *)

\* Mutant: a member starts at the end of the topic (auto.offset.reset).
Assign_Latest(e) ==
    /\ owner = None
    /\ owner' = e
    /\ position' = Len(rawLog)
    /\ UNCHANGED <<dbVars, uploadVars, rawLog, committed, engine, resLog, gateway, faults>>

\* A free partition is given to a member, which starts at the committed offset.
Assign(e) ==
    /\ owner = None
    /\ owner' = e
    /\ position' = committed
    /\ UNCHANGED <<dbVars, uploadVars, rawLog, committed, engine, resLog, gateway, faults>>

\* A rebalance gives the partition to e while its owner still handles a message:
\* a member joined, or the owner missed max.poll.interval.ms.
Takeover(e) ==
    /\ owner \notin {None, e}
    /\ Fault("takeover")
    /\ owner' = e
    /\ position' = committed
    /\ UNCHANGED <<dbVars, uploadVars, rawLog, committed, engine, resLog, gateway>>

\* The process dies (a crash, or main exits ten seconds after the signal with
\* the handler unfinished) and loses the message it handles.
EngineCrash(e) ==
    /\ Fault("engine")
    /\ engine[e] # Idle \/ owner = e
    /\ engine' = [engine EXCEPT ![e] = Idle]
    /\ owner' = IF owner = e THEN None ELSE owner
    /\ UNCHANGED <<dbVars, uploadVars, rawLog, committed, position, resLog, gateway>>

-----------------------------------------------------------------------------
(* KafkaConsumer.consume and DiplomaProcessor.process, one call at a time *)

\* e goes on with its message at pc, with the result res.
Continue(e, pc, res) ==
    engine' = [engine EXCEPT ![e] = [pc |-> pc, task |-> engine[e].task,
                                     res |-> res, off |-> engine[e].off]]

Goto(e, pc) == Continue(e, pc, engine[e].res)

\* process_inner ends: an Err becomes ProcessingResult::error.
ProcessedAs(e, res) == Continue(e, "check", res)

\* Mutant: the offset is committed as soon as the message is read.
Fetch_AutoCommit(e) ==
    /\ owner = e
    /\ engine[e].pc = "fetch"
    /\ position < Len(rawLog)
    /\ position' = position + 1
    /\ committed' = position + 1
    /\ engine' = [engine EXCEPT ![e] = [pc |-> "identify", task |-> rawLog[position + 1],
                                        res |-> "none", off |-> position + 1]]
    /\ UNCHANGED <<dbVars, uploadVars, rawLog, owner, resLog, gateway, faults>>

Fetch(e) ==
    /\ owner = e
    /\ engine[e].pc = "fetch"
    /\ position < Len(rawLog)
    /\ position' = position + 1
    /\ engine' = [engine EXCEPT ![e] = [pc |-> "identify", task |-> rawLog[position + 1],
                                        res |-> "none", off |-> position + 1]]
    /\ UNCHANGED <<dbVars, uploadVars, rawLog, committed, owner, resLog, gateway, faults>>

\* Mutant: any existing row of the number will do.
Identify_AnyHash(e) ==
    LET t == engine[e].task
        n == TaskNumber[t]
    IN  /\ engine[e].pc = "identify"
        /\ \/ /\ TaskVuz(t) \notin keyed
              /\ ProcessedAs(e, "error")
           \/ /\ TaskVuz(t) \in keyed
              /\ diploma[n] = "absent"
              /\ Goto(e, "register")
           \/ /\ TaskVuz(t) \in keyed
              /\ diploma[n] # "absent"
              /\ ProcessedAs(e, "ok")
        /\ UNCHANGED <<dbVars, uploadVars, topicVars, resLog, gateway, faults>>

\* get_university_key, then get_diploma_by_vuz_and_number.  One step: only
\* DeleteCascade could part the two, and then Register is refused just the same.
Identify(e) ==
    LET t == engine[e].task
        n == TaskNumber[t]
    IN  /\ engine[e].pc = "identify"
        /\ \/ /\ TaskVuz(t) \notin keyed
              /\ ProcessedAs(e, "error")
           \/ /\ TaskVuz(t) \in keyed
              /\ diploma[n] = "absent"
              /\ Goto(e, "register")
           \/ /\ TaskVuz(t) \in keyed
              /\ diploma[n] # "absent"
              /\ ProcessedAs(e, IF Registered(t) THEN "ok" ELSE "error")
        /\ UNCHANGED <<dbVars, uploadVars, topicVars, resLog, gateway, faults>>

\* The row insert_diploma_hash adds, if the keys of the table allow it.
InsertHash(t) ==
    /\ hash' = [hash EXCEPT ![TaskNumber[t]] = TaskHash[t]]
    /\ diploma' = [diploma EXCEPT ![TaskNumber[t]] = "active"]

\* Mutant: ON CONFLICT DO UPDATE.
CanInsertHash_Upsert(t) == TaskVuz(t) \in live

CanInsertHash(t) == diploma[TaskNumber[t]] = "absent" /\ TaskVuz(t) \in live

\* insert_diploma_hash, in a statement of its own: a plain INSERT, so a row that
\* appeared since Identify is an error, whatever its hash.
Register(e) ==
    LET t == engine[e].task IN
    /\ engine[e].pc = "register"
    /\ \/ /\ CanInsertHash(t)
          /\ InsertHash(t)
          /\ ProcessedAs(e, "ok")
       \/ /\ ~CanInsertHash(t)
          /\ ProcessedAs(e, "error")
          /\ UNCHANGED <<hash, diploma>>
    /\ UNCHANGED <<live, keyed, batch, results, uploadVars, topicVars, resLog, gateway, faults>>

\* A query of process_inner fails, before or after its effect.
InnerError(e) ==
    LET t == engine[e].task IN
    /\ engine[e].pc \in {"identify", "register"}
    /\ Fault("db")
    /\ ProcessedAs(e, "error")
    /\ \/ UNCHANGED <<hash, diploma>>
       \/ engine[e].pc = "register" /\ CanInsertHash(t) /\ InsertHash(t)
    /\ UNCHANGED <<live, keyed, batch, results, uploadVars, topicVars, resLog, gateway>>

\* persist_processing_result: SELECT ... FOR UPDATE locks nothing if there is no row.
CheckPersisted(e) ==
    /\ engine[e].pc = "check"
    /\ Goto(e, IF results[engine[e].task] = "none" THEN "persist" ELSE "send")
    /\ UNCHANGED <<dbVars, uploadVars, topicVars, resLog, gateway, faults>>

\* Mutant: the last record does not complete the batch.
Counted_OffByOne(b, rows) ==
    LET done  == batch[b].processed + 1
        final == IF \E t \in TasksOf(b) : rows[t] = "error" THEN "failed" ELSE "completed"
    IN  [status |-> IF done > Cardinality(TasksOf(b)) THEN final ELSE batch[b].status,
         processed |-> done]

\* The row of the batch once the row of one of its records is inserted: the
\* counter, and the final status when it reaches total_records.
Counted(b, rows) ==
    LET done  == batch[b].processed + 1
        final == IF \E t \in TasksOf(b) : rows[t] = "error" THEN "failed" ELSE "completed"
    IN  [status |-> IF done >= Cardinality(TasksOf(b)) THEN final ELSE batch[b].status,
         processed |-> done]

InsertRow(t, row) ==
    /\ results' = [results EXCEPT ![t] = row]
    /\ batch' = [batch EXCEPT ![TaskBatch[t]] =
                    Counted(TaskBatch[t], [results EXCEPT ![t] = row])]

\* Mutant: ON CONFLICT DO UPDATE, and the counter moves again.
CanInsertRow_Upsert(t) == Present(TaskBatch[t])

CanInsertRow(t) == results[t] = "none" /\ Present(TaskBatch[t])

\* The rest of the transaction.  A row inserted meanwhile violates
\* UNIQUE(batch_id, record_index), a deleted batch the foreign key: the handler
\* returns Err and consume goes on to the next message without a commit.
Persist(e) ==
    LET t == engine[e].task IN
    /\ engine[e].pc = "persist"
    /\ \/ /\ CanInsertRow(t)
          /\ InsertRow(t, engine[e].res)
          /\ Goto(e, "send")
       \/ /\ ~CanInsertRow(t)
          /\ engine' = [engine EXCEPT ![e] = Idle]
          /\ UNCHANGED <<batch, results>>
    /\ UNCHANGED <<live, keyed, hash, diploma, uploadVars, topicVars, resLog, gateway, faults>>

\* Mutant: the error of the transaction is only logged and the result goes out.
PersistError_Sends(e) ==
    /\ engine[e].pc \in {"check", "persist"}
    /\ Fault("db")
    /\ Goto(e, "send")
    /\ UNCHANGED <<batch, results>>
    /\ UNCHANGED <<live, keyed, hash, diploma, uploadVars, topicVars, resLog, gateway>>

\* The transaction fails (before its commit, or the answer to it is lost).
PersistError(e) ==
    LET t == engine[e].task IN
    /\ engine[e].pc \in {"check", "persist"}
    /\ Fault("db")
    /\ engine' = [engine EXCEPT ![e] = Idle]
    /\ \/ UNCHANGED <<batch, results>>
       \/ engine[e].pc = "persist" /\ CanInsertRow(t) /\ InsertRow(t, engine[e].res)
    /\ UNCHANGED <<live, keyed, hash, diploma, uploadVars, topicVars, resLog, gateway>>

\* send_result: a failure is only logged.
SendResult(e) ==
    /\ engine[e].pc = "send"
    /\ Goto(e, "commit")
    /\ \/ /\ resLog' = Append(resLog, [task |-> engine[e].task, res |-> engine[e].res])
          /\ UNCHANGED faults
       \/ /\ Fault("broker")
          /\ UNCHANGED resLog
    /\ UNCHANGED <<dbVars, uploadVars, topicVars, gateway>>

\* commit_message, asynchronous: the broker takes it from the owner only.
CommitMessage(e) ==
    /\ engine[e].pc = "commit"
    /\ engine' = [engine EXCEPT ![e] = Idle]
    /\ \/ /\ committed' = IF owner = e THEN engine[e].off ELSE committed
          /\ UNCHANGED faults
       \/ /\ Fault("broker")
          /\ UNCHANGED committed
    /\ UNCHANGED <<dbVars, uploadVars, rawLog, owner, position, resLog, gateway>>

-----------------------------------------------------------------------------
(* ResultConsumer.Start and DiplomaRepository.ApplyProcessingResult *)

GatewayGoto(pc) ==
    gateway' = [pc |-> pc, pos |-> gateway.pos, committed |-> gateway.committed]

GatewayFetch ==
    /\ gateway.pc = "fetch"
    /\ gateway.pos < Len(resLog)
    /\ gateway' = [pc |-> "apply", pos |-> gateway.pos + 1, committed |-> gateway.committed]
    /\ UNCHANGED <<dbVars, uploadVars, topicVars, engine, resLog, faults>>

\* The row ApplyProcessingResult stores; readable: the QR payload decodes to a
\* diploma number of the same university.
AppliedRow(r, readable) ==
    IF /\ r.res = "ok"
       /\ readable
       /\ diploma[TaskNumber[r.task]] = "absent" \/ Registered(r.task)
    THEN "ok" ELSE "error"

\* The whole transaction: a record that has a row is skipped; inserts that the
\* foreign keys refuse roll back and leave the message uncommitted.
ApplyProcessingResult(readable) ==
    LET r == resLog[gateway.pos]
        t == r.task
        row == AppliedRow(r, readable)
    IN  /\ gateway.pc = "apply"
        /\ IF CanInsertRow(t)
           THEN /\ InsertRow(t, row)
                /\ IF row = "ok" /\ diploma[TaskNumber[t]] = "absent"
                   THEN InsertHash(t) ELSE UNCHANGED <<hash, diploma>>
           ELSE UNCHANGED <<batch, results, hash, diploma>>
        /\ GatewayGoto(IF results[t] # "none" \/ CanInsertRow(t) THEN "commit" ELSE "fetch")
        /\ UNCHANGED <<live, keyed, uploadVars, topicVars, engine, resLog, faults>>

\* The database is unreachable: the message is skipped without a commit.
ApplyError ==
    /\ gateway.pc = "apply"
    /\ Fault("db")
    /\ GatewayGoto("fetch")
    /\ UNCHANGED <<dbVars, uploadVars, topicVars, engine, resLog>>

GatewayCommit ==
    /\ gateway.pc = "commit"
    /\ \/ /\ gateway' = [pc |-> "fetch", pos |-> gateway.pos, committed |-> gateway.pos]
          /\ UNCHANGED faults
       \/ /\ Fault("broker")
          /\ GatewayGoto("fetch")
    /\ UNCHANGED <<dbVars, uploadVars, topicVars, engine, resLog>>

-----------------------------------------------------------------------------

Init ==
    /\ live = University
    /\ keyed = {}
    /\ batch = [b \in Batch |-> [status |-> "absent", processed |-> 0]]
    /\ results = [t \in Task |-> "none"]
    /\ hash = [n \in Number |-> None]
    /\ diploma = [n \in Number |-> "absent"]
    /\ upload = [b \in Batch |-> "idle"]
    /\ queue = <<>>
    /\ attempts = 0
    /\ unpublished = {}
    /\ rawLog = <<>>
    /\ committed = 0
    /\ owner = None
    /\ position = 0
    /\ engine = [e \in Engine |-> Idle]
    /\ resLog = <<>>
    /\ gateway = [pc |-> "fetch", pos |-> 0, committed |-> 0]
    /\ faults = 0

\* What an engine does when nothing goes wrong, and what may go wrong.
EngineStep(e) ==
    \/ Assign(e)
    \/ Fetch(e)
    \/ Identify(e)
    \/ Register(e)
    \/ CheckPersisted(e)
    \/ Persist(e)
    \/ SendResult(e)
    \/ CommitMessage(e)

EngineFault(e) ==
    \/ Takeover(e)
    \/ EngineCrash(e)
    \/ InnerError(e)
    \/ PersistError(e)

\* An upload request once it is there.
UploadStep(b) ==
    \/ PublishRawTasks(b)
    \/ PublishSucceeds(b)
    \/ PublishFails(b)
    \/ FailBatch(b)

ResultStep ==
    \/ GatewayFetch
    \/ \E readable \in BOOLEAN : ApplyProcessingResult(readable)
    \/ GatewayCommit

Next ==
    \/ \E u \in University : UpsertSigningKey(u) \/ DeleteCascade(u)
    \/ \E n \in Number : MarkDiplomaRevoked(n)
    \/ \E b \in Batch : CreateBatchWithRecords(b) \/ UploadStep(b) \/ PublishTimeout(b)
    \/ WriterDeliver
    \/ WriterError
    \/ GatewayCrash
    \/ \E e \in Engine : EngineStep(e) \/ EngineFault(e)
    \/ ResultStep
    \/ ApplyError

Spec == Init /\ [][Next]_vars

\* Every process that is up keeps running: requests and the writer are goroutines,
\* an engine that died is restarted (restart: unless-stopped) and the group gives
\* it the free partition.  Nothing forces a request, a key or a fault to happen.
Fairness ==
    /\ WF_vars(WriterDeliver)
    /\ \A b \in Batch : WF_vars(UploadStep(b))
    /\ \A e \in Engine : WF_vars(EngineStep(e))
    /\ WF_vars(ResultStep)

FairSpec == Spec /\ Fairness

-----------------------------------------------------------------------------
(* Properties *)

\* Every variable has its type; the writer never counts more failed attempts
\* than MaxAttempts allows before it gives a request up.
TypeOK ==
    /\ live \in SUBSET University
    /\ keyed \in SUBSET University
    /\ batch \in [Batch -> BatchRow]
    /\ results \in [Task -> Outcome]
    /\ hash \in [Number -> Hash \cup {None}]
    /\ diploma \in [Number -> {"absent", "active", "revoked"}]
    /\ upload \in [Batch -> {"idle", "created", "publishing", "failing",
                             "accepted", "rejected", "lost"}]
    /\ queue \in Seq(Request)
    /\ attempts \in 0 .. (MaxAttempts - 1)
    /\ unpublished \in SUBSET Batch
    /\ rawLog \in Seq(Task)
    /\ committed \in Nat
    /\ owner \in Engine \cup {None}
    /\ position \in Nat
    /\ engine \in [Engine -> EngineState]
    /\ resLog \in Seq(Result)
    /\ gateway \in GatewayState
    /\ faults \in Nat

RowsOf(b)   == {t \in TasksOf(b) : results[t] # "none"}
ErrorsOf(b) == {t \in TasksOf(b) : results[t] = "error"}

\* processed_records counts the rows of batch_results, whatever is redelivered,
\* raced by a second engine or cut by a crash; a batch that is gone has no rows.
CountersMatchRows ==
    \A b \in Batch : IF Present(b) THEN batch[b].processed = Cardinality(RowsOf(b))
                                   ELSE RowsOf(b) = {}

\* The status a university reads is the truth about the rows: "processing" while
\* a row is missing, "completed" only if every record succeeded, and "failed"
\* without a failed record only after an upload that was refused.
StatusMatchesRows ==
    \A b \in Batch :
        /\ batch[b].status = "processing" => RowsOf(b) # TasksOf(b)
        /\ batch[b].status = "completed" => RowsOf(b) = TasksOf(b) /\ ErrorsOf(b) = {}
        /\ batch[b].status = "failed" /\ upload[b] # "rejected" =>
              RowsOf(b) = TasksOf(b) /\ ErrorsOf(b) # {}

\* A record reported "ok" is a diploma that pubver can verify: its number is
\* registered, with the hash of this very record, although the hash and the row
\* are written in two transactions with other engines in between.
OkRowRegistered ==
    \A t \in Task : results[t] = "ok" => Registered(t)

\* "Commits offset only after successful processing (at-least-once delivery)"
\* (cryptography-engine-rs/README.md:282): no message before the committed offset
\* is one whose record still waits for its row.
NoTaskSkipped ==
    \A i \in 1 .. Len(rawLog) : i <= committed => Decided(rawLog[i])

\* The writer splits a batch into produce requests that fail one by one, retries
\* them, and may store one whose acknowledgement is lost; a dying gateway drops
\* the rest.  Still, an upload that was answered 202 has every record in the topic.
AcceptedIsPublished ==
    \A b \in Batch : upload[b] = "accepted" =>
        \A t \in TasksOf(b) : \E i \in 1 .. Len(rawLog) : rawLog[i] = t

\* A record of an accepted upload that has no row yet is always on the way to it:
\* the owner of the partition holds its message or has not read it yet, and while
\* nobody owns the partition the message is after the committed offset, where the
\* next owner starts.  No crash and no rebalance leaves it where nobody looks.
WorkIsInHand ==
    \A b \in Batch : upload[b] = "accepted" =>
        \A t \in TasksOf(b) : ~Decided(t) =>
            \E i \in 1 .. Len(rawLog) :
                /\ rawLog[i] = t
                /\ \/ owner = None /\ committed < i
                   \/ \E e \in Engine :
                         /\ owner = e
                         /\ \/ position < i
                            \/ engine[e].pc # "fetch" /\ engine[e].off = i

\* A university polls the status of a batch and downloads it when it is final:
\* from then on neither its counter and status nor any of its rows changes, as
\* long as the university is there, whatever is redelivered or raced.  (FailBatch
\* overwrites the status of a batch whose upload was refused, so those are out.)
FinishedIsFinal ==
    [][\A b \in Batch :
          upload[b] = "accepted" /\ batch[b].status \in {"completed", "failed"} =>
             \/ BatchVuz[b] \notin live'
             \/ /\ batch'[b] = batch[b]
                /\ \A t \in TasksOf(b) : results'[t] = results[t]]_vars

\* The engine writes to the database before it sends, so whatever is redelivered
\* or reordered, ApplyProcessingResult finds the row it would add, or nothing to
\* add it to: a result message never changes a batch or the registry.
ResultsChangeNothing ==
    [][gateway.pc = "apply" /\ gateway'.pc # "apply" =>
          UNCHANGED <<batch, results, hash, diploma>>]_vars

\* "insert_diploma_hash ... idempotent via ON CONFLICT" (README.md:234): a task
\* whose diploma is registered already, with its own hash, is not an error.
InsertIsIdempotent ==
    [][\A e \in Engine :
          engine[e].pc = "register" /\ engine'[e].pc = "check"
          /\ Registered(engine[e].task) => engine'[e].res = "ok"]_vars

\* "On any error, publishes ProcessingResult { status: Error } so Gateway can
\* handle individual failures without stalling the batch" (README.md:319): every
\* record of an accepted upload gets its row, unless its university is deleted.
AcceptedUploadSettles ==
    \A b \in Batch : upload[b] = "accepted" ~> \A t \in TasksOf(b) : Decided(t)

-----------------------------------------------------------------------------
(* What the pipeline implements, with everything but the tables hidden *)

Ledger == INSTANCE DiplomaLedger WITH rows <- results, status <- diploma

\* Every step changes the tables as the ledger allows: a row is decided once, a
\* number keeps its hash, a revoked diploma never becomes active again, and all
\* of it goes only with the university.
ImplementsLedger == Ledger!Spec
=============================================================================
