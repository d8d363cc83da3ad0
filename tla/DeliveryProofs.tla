-------------------------- MODULE DeliveryProofs --------------------------
(***************************************************************************)
(* At-least-once delivery of the raw tasks, for any number of engines,     *)
(* crashes, rebalances and failed commits, as long as no query of the      *)
(* engine fails: KafkaConsumer.consume goes on to the next message after   *)
(* an Err, and the commit of that one passes over the failed one.          *)
(***************************************************************************)
EXTENDS BatchPipelineProofs

\* A task is in the queue or in the topic only if its batch was created.
StartedInv ==
    /\ \A b \in Batch : upload[b] # "idle" => Present(b) \/ BatchVuz[b] \notin live
    /\ \A i \in 1 .. Len(queue) :
          /\ upload[queue[i].batch] # "idle"
          /\ queue[i].tasks \in Seq(TasksOf(queue[i].batch))
    /\ \A i \in 1 .. Len(rawLog) : upload[TaskBatch[rawLog[i]]] # "idle"

\* Everything before the message an engine handles is decided, and so is what
\* the owner has read, but for the message in its hands.
DecidedAt(i) == Decided(rawLog[i])

HandledInv ==
    \A e \in Engine : engine[e].pc # "fetch" =>
        /\ engine[e].off \in 1 .. Len(rawLog)
        /\ rawLog[engine[e].off] = engine[e].task
        /\ \A i \in 1 .. Len(rawLog) : i < engine[e].off => DecidedAt(i)

ReadInv ==
    \A e \in Engine : owner = e =>
        \A i \in 1 .. Len(rawLog) : i <= position =>
            DecidedAt(i) \/ (engine[e].pc # "fetch" /\ engine[e].off = i)

CommittedInv == \A i \in 1 .. Len(rawLog) : i <= committed => DecidedAt(i)

OffsetInv ==
    /\ committed <= Len(rawLog)
    /\ position <= Len(rawLog)
    /\ CommittedInv
    /\ HandledInv
    /\ ReadInv

DeliveryInv == TableInv /\ StartedInv /\ OffsetInv

LEMMA InitDeliveryInv == Init => DeliveryInv
  BY InitTableInv, EmptySeq
  DEF Init, DeliveryInv, StartedInv, OffsetInv, CommittedInv, HandledInv, ReadInv, Idle

-----------------------------------------------------------------------------
(* The topic only grows, by tasks of a batch that was created. *)

TopicSame == UNCHANGED <<rawLog, queue>>

TopicGrows ==
    /\ rawLog' \in Seq(Task)
    /\ Len(rawLog) <= Len(rawLog')
    /\ \A i \in 1 .. Len(rawLog) : rawLog'[i] = rawLog[i]
    /\ \A i \in 1 .. Len(rawLog') :
          i <= Len(rawLog) \/ upload[TaskBatch[rawLog'[i]]] # "idle"

\* The writer: a prefix of the new topic is the old one, the rest comes from Head(queue).
LEMMA AppendGrows ==
  ASSUME TypeInv, StartedInv, queue # <<>>,
         rawLog' = rawLog \/ rawLog' = rawLog \o Head(queue).tasks
  PROVE  TopicGrows
<1>1. queue \in Seq(Request) /\ rawLog \in Seq(Task) /\ Len(rawLog) \in Nat
  BY LenProperties DEF TypeInv, TypeOK
<1> DEFINE ts == Head(queue).tasks
           b  == Head(queue).batch
<1>2. /\ ts \in Seq(Task) /\ ts \in Seq(TasksOf(b))
      /\ upload[b] # "idle"
  <2>1. Head(queue) = queue[1] /\ 1 \in 1 .. Len(queue)
    BY <1>1, HeadTailProperties, EmptySeq, LenProperties
  <2>2. queue[1] \in Request
    BY <1>1, <2>1, ElementOfSeq
  <2> QED
    BY <2>1, <2>2 DEF Request, StartedInv
<1>3. CASE rawLog' = rawLog
  BY <1>1, <1>3 DEF TopicGrows
<1>4. CASE rawLog' = rawLog \o ts
  <2>1. /\ rawLog' \in Seq(Task)
        /\ Len(rawLog') = Len(rawLog) + Len(ts)
        /\ \A i \in 1 .. Len(rawLog) + Len(ts) :
              rawLog'[i] = IF i <= Len(rawLog) THEN rawLog[i] ELSE ts[i - Len(rawLog)]
    BY <1>1, <1>2, <1>4, ConcatProperties
  <2>2. Len(ts) \in Nat
    BY <1>2, LenProperties
  <2>3. \A j \in 1 .. Len(ts) : TaskBatch[ts[j]] = b
    <3>1. \A j \in 1 .. Len(ts) : ts[j] \in TasksOf(b)
      BY <1>2, ElementOfSeq
    <3> QED
      BY <3>1 DEF TasksOf
  <2>4. ASSUME NEW i \in 1 .. Len(rawLog'), ~(i <= Len(rawLog))
        PROVE  upload[TaskBatch[rawLog'[i]]] # "idle"
    <3>1. i - Len(rawLog) \in 1 .. Len(ts) /\ rawLog'[i] = ts[i - Len(rawLog)]
      BY <1>1, <2>1, <2>2, <2>4
    <3> QED
      BY <1>2, <2>3, <3>1
  <2>5. Len(rawLog) <= Len(rawLog') /\ \A i \in 1 .. Len(rawLog) : rawLog'[i] = rawLog[i]
    BY <1>1, <2>1, <2>2
  <2> QED
    BY <2>1, <2>4, <2>5 DEF TopicGrows
<1> QED
  BY <1>3, <1>4

LEMMA TopicSteps ==
  ASSUME TypeInv, StartedInv, [Next]_vars
  PROVE  /\ TopicGrows
         /\ \/ UNCHANGED queue
            \/ queue' = <<>>
            \/ queue # <<>> /\ queue' = Tail(queue)
            \/ \E b \in Batch : PublishRawTasks(b)
<1> USE DEF uploadVars, topicVars, dbVars
<1>0. UNCHANGED rawLog => TopicGrows
  BY LenProperties DEF TopicGrows, TypeInv, TypeOK
<1>1. CASE WriterDeliver
  BY <1>1, AppendGrows DEF WriterDeliver, Dequeue
<1>2. CASE WriterError
  BY <1>2, AppendGrows DEF WriterError, AttemptFailed, Dequeue
<1>3. CASE GatewayCrash
  BY <1>0, <1>3 DEF GatewayCrash
<1>4. ASSUME NEW b \in Batch, PublishRawTasks(b) PROVE UNCHANGED rawLog
  BY <1>4 DEF PublishRawTasks
<1>5. ASSUME NEW b \in Batch,
             \/ CreateBatchWithRecords(b) \/ PublishSucceeds(b) \/ PublishFails(b)
             \/ FailBatch(b) \/ PublishTimeout(b)
      PROVE  TopicSame
  BY <1>5 DEF TopicSame, CreateBatchWithRecords, PublishSucceeds, PublishFails, FailBatch,
     PublishTimeout
<1>6. ASSUME NEW e \in Engine, EngineStep(e) \/ EngineFault(e) PROVE TopicSame
  BY <1>6 DEF TopicSame, EngineStep, EngineFault, Assign, Fetch, Identify, Register,
     CheckPersisted, Persist, SendResult, CommitMessage, Takeover, EngineCrash, InnerError,
     PersistError
<1>7. CASE ResultStep \/ ApplyError \/ UNCHANGED vars
  <2>1. TopicSame
    BY <1>7 DEF TopicSame, ResultStep, GatewayFetch, ApplyProcessingResult, GatewayCommit,
       ApplyError, vars
  <2> QED
    BY <1>0, <2>1 DEF TopicSame
<1>8. ASSUME NEW u \in University, UpsertSigningKey(u) \/ DeleteCascade(u) PROVE TopicSame
  BY <1>8 DEF TopicSame, UpsertSigningKey, DeleteCascade
<1>9. ASSUME NEW n \in Number, MarkDiplomaRevoked(n) PROVE TopicSame
  BY <1>9 DEF TopicSame, MarkDiplomaRevoked
<1> QED
  BY <1>0, <1>1, <1>2, <1>3, <1>4, <1>5, <1>6, <1>7, <1>8, <1>9 DEF Next, UploadStep, TopicSame

\* Only CreateBatchWithRecords starts an upload.
LEMMA StartSteps ==
  ASSUME TypeOK, [Next]_vars, NEW b \in Batch, upload[b] = "idle", upload'[b] # "idle"
  PROVE  CreateBatchWithRecords(b)
<1> USE DEF TypeOK, uploadVars, dbVars, topicVars
<1>1. ASSUME UNCHANGED upload PROVE FALSE
  BY <1>1
<1>2. ASSUME GatewayCrash PROVE FALSE
  BY <1>2 DEF GatewayCrash
<1>3. ASSUME NEW c \in Batch, CreateBatchWithRecords(c) \/ UploadStep(c) \/ PublishTimeout(c)
      PROVE  CreateBatchWithRecords(b)
  <2>1. c = b
    BY <1>3 DEF CreateBatchWithRecords, UploadStep, PublishTimeout, PublishRawTasks,
       PublishSucceeds, PublishFails, FailBatch
  <2> QED
    BY <1>3, <2>1 DEF UploadStep, PublishTimeout, PublishRawTasks, PublishSucceeds, PublishFails,
       FailBatch
<1>4. ASSUME NEW e \in Engine, EngineStep(e) \/ EngineFault(e) PROVE UNCHANGED upload
  BY <1>4 DEF EngineStep, EngineFault, Assign, Fetch, Identify, Register, CheckPersisted,
     Persist, SendResult, CommitMessage, Takeover, EngineCrash, InnerError, PersistError
<1>5. ASSUME WriterDeliver \/ WriterError \/ ResultStep \/ ApplyError \/ UNCHANGED vars
      PROVE  UNCHANGED upload
  BY <1>5 DEF WriterDeliver, WriterError, ResultStep, GatewayFetch, ApplyProcessingResult,
     GatewayCommit, ApplyError, vars
<1>6. ASSUME NEW u \in University, UpsertSigningKey(u) \/ DeleteCascade(u)
      PROVE  UNCHANGED upload
  BY <1>6 DEF UpsertSigningKey, DeleteCascade
<1>7. ASSUME NEW n \in Number, MarkDiplomaRevoked(n) PROVE UNCHANGED upload
  BY <1>7 DEF MarkDiplomaRevoked
<1> QED
  BY <1>1, <1>2, <1>3, <1>4, <1>5, <1>6, <1>7 DEF Next

\* A batch goes only with its university.
LEMMA BatchStays ==
  ASSUME TableInv, [Next]_vars, NEW b \in Batch, Present(b) \/ BatchVuz[b] \notin live
  PROVE  Present(b)' \/ BatchVuz[b] \notin live'
<1> USE DEF Present
<1> TypeOK
  BY DEF TableInv, TypeInv
<1>1. CASE TableSame
  BY <1>1 DEF TableSame
<1>2. ASSUME NEW u \in University, DeleteCascade(u)
      PROVE  Present(b)' \/ BatchVuz[b] \notin live'
  BY <1>2 DEF DeleteCascade
<1>3. ASSUME NEW n \in Number, MarkDiplomaRevoked(n)
      PROVE  Present(b)' \/ BatchVuz[b] \notin live'
  BY <1>3 DEF MarkDiplomaRevoked
<1>4. ASSUME NEW c \in Batch, CreateBatchWithRecords(c)
      PROVE  Present(b)' \/ BatchVuz[b] \notin live'
  BY <1>4 DEF CreateBatchWithRecords, TypeOK
<1>5. ASSUME NEW c \in Batch, FailBatch(c) PROVE Present(b)' \/ BatchVuz[b] \notin live'
  <2> DEFINE row == [status |-> "failed", processed |-> batch[c].processed]
  <2>1. UNCHANGED live /\ (batch' = batch \/ batch' = [batch EXCEPT ![c] = row])
    BY <1>5 DEF FailBatch
  <2>2. row.status = "failed"
    OBVIOUS
  <2> HIDE DEF row
  <2>3. batch'[b] = batch[b] \/ batch'[b] = row
    BY <2>1 DEF TypeOK
  <2> QED
    BY <2>1, <2>2, <2>3
<1>6. ASSUME NEW t \in Task, HashAdded(t) PROVE Present(b)' \/ BatchVuz[b] \notin live'
  BY <1>6 DEF HashAdded
<1>7. ASSUME NEW t \in Task, NEW row \in {"ok", "error"}, RowAdded(t, row)
      PROVE  Present(b)' \/ BatchVuz[b] \notin live'
  BY <1>7 DEF RowAdded, CanInsertRow, InsertRow, Counted, TypeOK, BatchRow
<1> QED
  BY <1>1, <1>2, <1>3, <1>4, <1>5, <1>6, <1>7, TableSteps

LEMMA NextStartedInv ==
  ASSUME TableInv, StartedInv, [Next]_vars
  PROVE  StartedInv'
<1> TypeInv /\ TypeOK
  BY DEF TableInv, TypeInv
<1>1. /\ \A b \in Batch : upload'[b] = "idle" => upload[b] = "idle"
      /\ TopicGrows
  BY UploadSteps, TopicSteps
<1>2. ASSUME NEW b \in Batch, upload'[b] # "idle"
      PROVE  Present(b)' \/ BatchVuz[b] \notin live'
  <2>1. CASE upload[b] = "idle"
    <3>1. CreateBatchWithRecords(b)
      BY <1>2, <2>1, StartSteps
    <3> QED
      BY <3>1 DEF CreateBatchWithRecords, Present, TypeOK
  <2>2. CASE upload[b] # "idle"
    BY <2>2, BatchStays DEF StartedInv
  <2> QED
    BY <2>1, <2>2
<1>3. /\ queue \in Seq(Request) /\ Len(queue) \in Nat
      /\ \A i \in 1 .. Len(queue) : queue[i].batch \in Batch
  <2>1. queue \in Seq(Request) /\ Len(queue) \in Nat
    BY LenProperties DEF TypeOK
  <2>2. \A i \in 1 .. Len(queue) : queue[i] \in Request
    BY <2>1, ElementOfSeq
  <2> QED
    BY <2>1, <2>2 DEF Request
<1>4. ASSUME NEW i \in 1 .. Len(queue')
      PROVE  upload'[queue'[i].batch] # "idle" /\ queue'[i].tasks \in Seq(TasksOf(queue'[i].batch))
  <2>1. CASE UNCHANGED queue
    BY <1>1, <1>3, <1>4, <2>1 DEF StartedInv
  <2>2. CASE queue' = <<>>
    BY <1>4, <2>2, EmptySeq
  <2>3. CASE queue # <<>> /\ queue' = Tail(queue)
    <3>1. i + 1 \in 1 .. Len(queue) /\ queue'[i] = queue[i + 1]
      BY <1>3, <1>4, <2>3, HeadTailProperties, ElementOfSeq
    <3> QED
      BY <1>1, <1>3, <3>1 DEF StartedInv
  <2>4. ASSUME NEW b \in Batch, PublishRawTasks(b)
        PROVE  /\ upload'[queue'[i].batch] # "idle"
               /\ queue'[i].tasks \in Seq(TasksOf(queue'[i].batch))
    <3>1. upload'[b] # "idle" /\ queue' = queue \o Requests(b)
      BY <2>4 DEF PublishRawTasks, TypeOK
    <3>2. Requests(b) \in Seq(Request) /\ Len(Requests(b)) \in Nat
      BY RequestsTyped, LenProperties
    <3>3. /\ Len(queue') = Len(queue) + Len(Requests(b))
          /\ queue'[i] = IF i <= Len(queue) THEN queue[i] ELSE Requests(b)[i - Len(queue)]
      BY <1>3, <1>4, <3>1, <3>2, ConcatProperties
    <3>4. CASE i <= Len(queue)
      <4>1. i \in 1 .. Len(queue) /\ queue'[i] = queue[i]
        BY <1>3, <1>4, <3>2, <3>3, <3>4
      <4> QED
        BY <1>1, <1>3, <4>1 DEF StartedInv
    <3>5. CASE ~(i <= Len(queue))
      <4>1. i - Len(queue) \in 1 .. Len(Requests(b)) /\ queue'[i] = Requests(b)[i - Len(queue)]
        BY <1>3, <1>4, <3>2, <3>3, <3>5
      <4> QED
        BY <3>1, <4>1, RequestsTyped
    <3> QED
      BY <3>4, <3>5
  <2> QED
    BY <2>1, <2>2, <2>3, <2>4, TopicSteps
<1>5. ASSUME NEW i \in 1 .. Len(rawLog') PROVE upload'[TaskBatch[rawLog'[i]]] # "idle"
  <2>1. rawLog'[i] \in Task
    BY <1>1, <1>5, ElementOfSeq DEF TopicGrows
  <2>2. TaskBatch[rawLog'[i]] \in Batch
    BY <2>1, DataAssumption
  <2>3. upload[TaskBatch[rawLog'[i]]] # "idle"
    <3>1. CASE i <= Len(rawLog)
      <4>1. i \in 1 .. Len(rawLog)
        BY <1>5, <3>1, LenProperties DEF TypeOK, TopicGrows
      <4> QED
        BY <1>1, <4>1 DEF TopicGrows, StartedInv
    <3>2. CASE ~(i <= Len(rawLog))
      BY <1>1, <1>5, <3>2 DEF TopicGrows
    <3> QED
      BY <3>1, <3>2
  <2> QED
    BY <1>1, <2>2, <2>3
<1> QED
  BY <1>2, <1>4, <1>5 DEF StartedInv, TasksOf

-----------------------------------------------------------------------------
(* The steps that change what the group has read, handled and committed. *)

OffsetsSame == UNCHANGED <<engine, owner, position, committed>>

\* The partition goes to e, which reads from the committed offset.
Moves(e) == owner' = e /\ position' = committed /\ UNCHANGED <<engine, committed>>

\* e goes on with its message.
Advances(e) ==
    /\ engine[e].pc # "fetch"
    /\ \E pc \in {"register", "check", "persist", "send", "commit"}, res \in Outcome :
          Continue(e, pc, res)
    /\ UNCHANGED <<owner, position, committed>>

\* e drops its message: its record is decided, or e is not the owner any more.
Drops(e) ==
    /\ engine' = [engine EXCEPT ![e] = Idle]
    /\ \/ /\ engine[e].pc # "fetch"
          /\ Decided(engine[e].task)
          /\ UNCHANGED owner
          /\ committed' = committed \/ (owner = e /\ committed' = engine[e].off)
       \/ /\ owner' \in {owner, None}
          /\ owner' # e
          /\ UNCHANGED committed
    /\ UNCHANGED position

LEMMA OffsetSteps ==
  ASSUME "db" \notin FaultKinds, DeliveryInv, [Next]_vars
  PROVE  \/ OffsetsSame
         \/ \E e \in Engine : /\ \/ Moves(e) \/ Fetch(e) \/ Advances(e) \/ Drops(e)
                              /\ UNCHANGED rawLog
<1> USE DEF uploadVars, topicVars, dbVars
<1> TypeInv /\ TypeOK /\ EngineTyped /\ RefInv /\ HolderInv /\ StartedInv /\ OffsetInv
  BY DEF DeliveryInv, TableInv, TypeInv
<1>1. ASSUME NEW e \in Engine, Assign(e) \/ Takeover(e) PROVE Moves(e) /\ UNCHANGED rawLog
  BY <1>1 DEF Assign, Takeover, Moves
<1>2. ASSUME NEW e \in Engine,
             Identify(e) \/ Register(e) \/ CheckPersisted(e) \/ SendResult(e)
      PROVE  Advances(e) /\ UNCHANGED rawLog
  <2>1. engine[e].res \in Outcome
    BY DEF TypeOK, EngineState
  <2>2. {"ok", "error"} \subseteq Outcome
    BY DEF Outcome
  <2>3. CASE Identify(e)
    BY <2>1, <2>2, <2>3 DEF Identify, Advances, Goto, ProcessedAs
  <2>4. CASE Register(e)
    BY <2>2, <2>4 DEF Register, Advances, ProcessedAs
  <2>5. CASE CheckPersisted(e)
    BY <2>1, <2>5 DEF CheckPersisted, Advances, Goto
  <2>6. CASE SendResult(e)
    BY <2>1, <2>6 DEF SendResult, Advances, Goto
  <2> QED
    BY <1>2, <2>3, <2>4, <2>5, <2>6
<1>3. ASSUME NEW e \in Engine, Persist(e)
      PROVE  (Advances(e) \/ Drops(e)) /\ UNCHANGED rawLog
  <2> DEFINE t == engine[e].task
  <2>1. UNCHANGED <<rawLog, owner, position, committed>> /\ engine[e].pc = "persist"
    BY <1>3 DEF Persist
  <2>2. CASE Goto(e, "send")
    <3>1. engine[e].res \in Outcome
      BY DEF TypeOK, EngineState
    <3> QED
      BY <2>1, <2>2, <3>1 DEF Advances, Goto
  <2>3. CASE ~CanInsertRow(t) /\ engine' = [engine EXCEPT ![e] = Idle]
    <3>1. /\ engine[e].off \in 1 .. Len(rawLog) /\ rawLog[engine[e].off] = t
          /\ t \in Task
      BY <2>1 DEF OffsetInv, HandledInv, EngineTyped
    <3>2. upload[TaskBatch[t]] # "idle" /\ TaskBatch[t] \in Batch
      BY <3>1, DataAssumption DEF StartedInv
    <3>3. Decided(t)
      BY <2>3, <3>2 DEF StartedInv, CanInsertRow, Decided, TaskVuz
    <3> QED
      BY <2>1, <2>3, <3>3 DEF Drops
  <2> QED
    BY <1>3, <2>1, <2>2, <2>3 DEF Persist
<1>4. ASSUME NEW e \in Engine, CommitMessage(e) PROVE Drops(e) /\ UNCHANGED rawLog
  <2>1. engine[e].pc = "commit" /\ Decided(engine[e].task)
    BY <1>4 DEF CommitMessage, HolderInv
  <2> QED
    BY <1>4, <2>1 DEF CommitMessage, Drops
<1>5. ASSUME NEW e \in Engine, EngineCrash(e) PROVE Drops(e) /\ UNCHANGED rawLog
  BY <1>5, DataAssumption DEF EngineCrash, Drops
<1>6. ASSUME NEW e \in Engine, InnerError(e) \/ PersistError(e) PROVE FALSE
  BY <1>6 DEF InnerError, PersistError, Fault
<1>7. ASSUME NEW b \in Batch, CreateBatchWithRecords(b) \/ UploadStep(b) \/ PublishTimeout(b)
      PROVE  OffsetsSame
  BY <1>7 DEF OffsetsSame, CreateBatchWithRecords, UploadStep, PublishTimeout, PublishRawTasks,
     PublishSucceeds, PublishFails, FailBatch
<1>8. CASE WriterDeliver \/ WriterError \/ GatewayCrash \/ ResultStep \/ ApplyError
  BY <1>8 DEF OffsetsSame, WriterDeliver, WriterError, GatewayCrash, ResultStep, GatewayFetch,
     ApplyProcessingResult, GatewayCommit, ApplyError
<1>9. ASSUME NEW u \in University, UpsertSigningKey(u) \/ DeleteCascade(u) PROVE OffsetsSame
  BY <1>9 DEF OffsetsSame, UpsertSigningKey, DeleteCascade
<1>10. ASSUME NEW n \in Number, MarkDiplomaRevoked(n) PROVE OffsetsSame
  BY <1>10 DEF OffsetsSame, MarkDiplomaRevoked
<1>11. CASE UNCHANGED vars
  BY <1>11 DEF OffsetsSame, vars
<1>12. ASSUME NEW e \in Engine, Fetch(e) PROVE UNCHANGED rawLog
  BY <1>12 DEF Fetch
<1> QED
  BY <1>1, <1>2, <1>3, <1>4, <1>5, <1>6, <1>7, <1>8, <1>9, <1>10, <1>11, <1>12
  DEF Next, EngineStep, EngineFault

\* What is decided stays so, wherever it is in the topic.
LEMMA DecidedAtStays ==
  ASSUME DeliveryInv, [Next]_vars
  PROVE  /\ TopicGrows
         /\ \A i \in 1 .. Len(rawLog) : DecidedAt(i) => DecidedAt(i)'
<1> TypeInv /\ StartedInv /\ TableInv
  BY DEF DeliveryInv, TableInv
<1>1. TopicGrows
  BY TopicSteps
<1>2. ASSUME NEW i \in 1 .. Len(rawLog), DecidedAt(i) PROVE DecidedAt(i)'
  <2>1. PICK t \in Task : t = rawLog[i]
    BY ElementOfSeq DEF TypeInv, TypeOK
  <2>2. Decided(t)'
    BY <1>2, <2>1, StableFacts DEF DecidedAt
  <2>3. rawLog'[i] = t
    BY <1>1, <2>1 DEF TopicGrows
  <2> QED
    BY <2>2, <2>3 DEF DecidedAt, Decided, TaskVuz
<1> QED
  BY <1>1, <1>2

LEMMA NextOffsetInv ==
  ASSUME "db" \notin FaultKinds, DeliveryInv, [Next]_vars
  PROVE  OffsetInv'
<1> USE DEF OffsetInv, CommittedInv, HandledInv, ReadInv
<1> TypeOK /\ OffsetInv
  BY DEF DeliveryInv, TableInv, TypeInv
<1>1. /\ Len(rawLog) \in Nat /\ Len(rawLog') \in Nat /\ Len(rawLog) <= Len(rawLog')
      /\ \A i \in 1 .. Len(rawLog) : /\ DecidedAt(i) => DecidedAt(i)'
                                     /\ rawLog'[i] = rawLog[i]
      /\ committed \in Nat /\ position \in Nat
      /\ \A e \in Engine : engine[e].off \in Nat
  BY DecidedAtStays, LenProperties DEF TopicGrows, TypeOK, EngineState
<1>2. CASE OffsetsSame
  BY <1>1, <1>2 DEF OffsetsSame
<1>3. ASSUME NEW e \in Engine, Moves(e), UNCHANGED rawLog PROVE OffsetInv'
  BY <1>1, <1>3 DEF Moves
<1>4. ASSUME NEW e \in Engine, Fetch(e), UNCHANGED rawLog PROVE OffsetInv'
  <2> DEFINE s == [pc |-> "identify", task |-> rawLog[position + 1],
                   res |-> "none", off |-> position + 1]
  <2>1. /\ owner = e /\ engine[e].pc = "fetch" /\ position < Len(rawLog)
        /\ position' = position + 1
        /\ UNCHANGED <<owner, committed>>
        /\ \A d \in Engine : engine'[d] = IF d = e THEN s ELSE engine[d]
    BY <1>4 DEF Fetch, TypeOK
  <2>2. s.pc = "identify" /\ s.task = rawLog[position + 1] /\ s.off = position + 1
    OBVIOUS
  <2> HIDE DEF s
  <2>3. \A i \in 1 .. Len(rawLog) : i <= position => DecidedAt(i)
    BY <2>1
  <2> QED
    BY <1>1, <1>4, <2>1, <2>2, <2>3
<1>5. ASSUME NEW e \in Engine, Advances(e), UNCHANGED rawLog PROVE OffsetInv'
  <2>1. PICK s : /\ \A d \in Engine : engine'[d] = IF d = e THEN s ELSE engine[d]
                 /\ s.pc # "fetch" /\ s.task = engine[e].task /\ s.off = engine[e].off
    <3>1. PICK pc \in {"register", "check", "persist", "send", "commit"}, res \in Outcome :
             Continue(e, pc, res)
      BY <1>5 DEF Advances
    <3> QED
      BY <3>1 DEF Continue, TypeOK
  <2>2. engine[e].pc # "fetch" /\ UNCHANGED <<owner, position, committed>>
    BY <1>5 DEF Advances
  <2> QED
    BY <1>1, <1>5, <2>1, <2>2
<1>6. ASSUME NEW e \in Engine, Drops(e), UNCHANGED rawLog PROVE OffsetInv'
  <2>1. /\ \A d \in Engine : engine'[d] = IF d = e THEN Idle ELSE engine[d]
        /\ UNCHANGED position /\ Idle.pc = "fetch"
    BY <1>6 DEF Drops, TypeOK, Idle
  <2>2. CASE /\ engine[e].pc # "fetch" /\ Decided(engine[e].task) /\ UNCHANGED owner
             /\ committed' = committed \/ (owner = e /\ committed' = engine[e].off)
    <3>1. /\ engine[e].off \in 1 .. Len(rawLog)
          /\ DecidedAt(engine[e].off)
          /\ \A i \in 1 .. Len(rawLog) : i < engine[e].off => DecidedAt(i)
      BY <2>2 DEF DecidedAt
    <3>2. \A i \in 1 .. Len(rawLog) : i <= engine[e].off => DecidedAt(i)
      BY <1>1, <3>1
    <3>3. committed' <= Len(rawLog') /\ CommittedInv'
      BY <1>1, <1>6, <2>2, <3>1, <3>2
    <3>4. HandledInv'
      BY <1>1, <1>6, <2>1
    <3>5. ReadInv'
      BY <1>1, <1>6, <2>1, <2>2, <3>2
    <3> QED
      BY <1>6, <2>1, <3>3, <3>4, <3>5
  <2>3. CASE owner' \in {owner, None} /\ owner' # e /\ UNCHANGED committed
    <3>1. \A d \in Engine : owner' = d => owner = d /\ d # e
      BY <2>3, DataAssumption
    <3> QED
      BY <1>1, <1>6, <2>1, <2>3, <3>1
  <2> QED
    BY <1>6, <2>2, <2>3 DEF Drops
<1> QED
  BY <1>2, <1>3, <1>4, <1>5, <1>6, OffsetSteps

\* Commits follow the work: unless a query fails, no task before the committed
\* offset is left without its row, whatever crashes, rebalances, lost commits
\* and retried produce requests there are.
THEOREM CommitsFollowWork ==
  ASSUME "db" \notin FaultKinds
  PROVE  Spec => []NoTaskSkipped
<1>1. DeliveryInv /\ [Next]_vars => DeliveryInv'
  BY NextTypeInv, NextRefInv, NextHolderInv, NextStartedInv, NextOffsetInv
  DEF DeliveryInv, TableInv
<1>2. DeliveryInv => NoTaskSkipped
  BY DEF DeliveryInv, OffsetInv, CommittedInv, NoTaskSkipped, DecidedAt
<1> QED
  BY InitDeliveryInv, <1>1, <1>2, PTL DEF Spec
-----------------------------------------------------------------------------
(* What was answered 202 is in the topic. *)

Published(t) == \E i \in 1 .. Len(rawLog) : rawLog[i] = t

Queued(b, t) ==
    \E i \in 1 .. Len(queue) :
        queue[i].batch = b /\ \E j \in 1 .. Len(queue[i].tasks) : queue[i].tasks[j] = t

\* While the request waits, what is not in the topic is still with the writer,
\* unless the writer has given a part of the batch up.
PublishedInv ==
    \A b \in Batch : \A t \in TasksOf(b) :
        /\ upload[b] = "accepted" => Published(t)
        /\ upload[b] = "publishing" /\ b \notin unpublished => Published(t) \/ Queued(b, t)

LEMMA PublishedStays ==
  ASSUME TypeInv, TopicGrows, NEW t, Published(t)
  PROVE  Published(t)'
<1>1. Len(rawLog) \in Nat /\ Len(rawLog') \in Nat
  BY LenProperties DEF TypeInv, TypeOK, TopicGrows
<1> QED
  BY <1>1 DEF Published, TopicGrows

\* Once the writer has ended with its first request, the rest is where it was.
LEMMA DequeuedOrQueued ==
  ASSUME TypeInv, queue # <<>>, queue' = Tail(queue), NEW b, NEW t, Queued(b, t)
  PROVE  \/ Queued(b, t)'
         \/ /\ Head(queue).batch = b
            /\ \E j \in 1 .. Len(Head(queue).tasks) : Head(queue).tasks[j] = t
<1>1. queue \in Seq(Request) /\ Len(queue) \in Nat
  BY LenProperties DEF TypeInv, TypeOK
<1>2. PICK i \in 1 .. Len(queue) :
         queue[i].batch = b /\ \E j \in 1 .. Len(queue[i].tasks) : queue[i].tasks[j] = t
  BY DEF Queued
<1>3. CASE i = 1
  BY <1>1, <1>2, <1>3, HeadTailProperties
<1>4. CASE i # 1
  <2>1. i - 1 \in 1 .. Len(queue') /\ queue'[i - 1] = queue[i]
    BY <1>1, <1>2, <1>4, HeadTailProperties
  <2> QED
    BY <1>2, <2>1 DEF Queued
<1> QED
  BY <1>3, <1>4

LEMMA AppendedPublished ==
  ASSUME TypeInv, queue # <<>>, rawLog' = rawLog \o Head(queue).tasks,
         NEW t, NEW j \in 1 .. Len(Head(queue).tasks), Head(queue).tasks[j] = t
  PROVE  Published(t)'
<1> DEFINE ts == Head(queue).tasks
<1>1. rawLog \in Seq(Task) /\ ts \in Seq(Task)
  <2>1. queue \in Seq(Request) /\ rawLog \in Seq(Task)
    BY DEF TypeInv, TypeOK
  <2>2. Head(queue) \in Request
    BY <2>1, HeadTailProperties
  <2> QED
    BY <2>1, <2>2 DEF Request
<1>2. Len(rawLog) \in Nat /\ Len(ts) \in Nat
  BY <1>1, LenProperties
<1>3. /\ Len(rawLog') = Len(rawLog) + Len(ts)
      /\ \A i \in 1 .. Len(rawLog) + Len(ts) :
            rawLog'[i] = IF i <= Len(rawLog) THEN rawLog[i] ELSE ts[i - Len(rawLog)]
  BY <1>1, ConcatProperties
<1>4. Len(rawLog) + j \in 1 .. Len(rawLog') /\ rawLog'[Len(rawLog) + j] = t
  BY <1>2, <1>3
<1> QED
  BY <1>4 DEF Published

\* WriteMessages hands over every task of the batch, and keeps what was queued.
LEMMA HandedOver ==
  ASSUME TypeInv, NEW b \in Batch, queue' = queue \o Requests(b)
  PROVE  /\ \A t \in TasksOf(b) : Queued(b, t)'
         /\ \A c, t : Queued(c, t) => Queued(c, t)'
<1>1. /\ queue \in Seq(Request) /\ Len(queue) \in Nat
      /\ Requests(b) \in Seq(Request) /\ Len(Requests(b)) \in Nat
  BY RequestsTyped, LenProperties DEF TypeInv, TypeOK
<1>2. /\ Len(queue') = Len(queue) + Len(Requests(b))
      /\ \A i \in 1 .. Len(queue) + Len(Requests(b)) :
            queue'[i] = IF i <= Len(queue) THEN queue[i] ELSE Requests(b)[i - Len(queue)]
  BY <1>1, ConcatProperties
<1>3. ASSUME NEW t \in TasksOf(b) PROVE Queued(b, t)'
  <2>1. t \in Task /\ TaskBatch[t] = b
    BY DEF TasksOf
  <2>2. PICK i \in DOMAIN Chunks[b] : \E j \in DOMAIN Chunks[b][i] : Chunks[b][i][j] = t
    BY <2>1, UploadAssumption
  <2>3. DOMAIN Requests(b) = DOMAIN Chunks[b] /\ DOMAIN Requests(b) = 1 .. Len(Requests(b))
    BY <1>1, LenProperties DEF Requests
  <2>4. Requests(b)[i].batch = b /\ Requests(b)[i].tasks = Chunks[b][i]
    BY DEF Requests
  <2>5. DOMAIN Chunks[b][i] = 1 .. Len(Chunks[b][i])
    BY <2>3, <2>4, RequestsTyped, LenProperties
  <2>6. Len(queue) + i \in 1 .. Len(queue') /\ queue'[Len(queue) + i] = Requests(b)[i]
    BY <1>1, <1>2, <2>3
  <2> QED
    BY <2>2, <2>4, <2>5, <2>6 DEF Queued
<1>4. ASSUME NEW c, NEW t, Queued(c, t) PROVE Queued(c, t)'
  <2>1. \A i \in 1 .. Len(queue) : i \in 1 .. Len(queue') /\ queue'[i] = queue[i]
    BY <1>1, <1>2
  <2> QED
    BY <1>4, <2>1 DEF Queued
<1> QED
  BY <1>3, <1>4

\* The steps of requests and the writer; all others leave them alone.
LEMMA PublishingSteps ==
  ASSUME [Next]_vars
  PROVE  \/ UNCHANGED <<upload, queue, unpublished>>
         \/ \E b \in Batch : CreateBatchWithRecords(b) \/ UploadStep(b) \/ PublishTimeout(b)
         \/ WriterDeliver \/ WriterError \/ GatewayCrash
<1> USE DEF uploadVars
<1>1. ASSUME NEW e \in Engine, EngineStep(e) \/ EngineFault(e)
      PROVE  UNCHANGED <<upload, queue, unpublished>>
  BY <1>1 DEF EngineStep, EngineFault, Assign, Fetch, Identify, Register, CheckPersisted,
     Persist, SendResult, CommitMessage, Takeover, EngineCrash, InnerError, PersistError
<1>2. ASSUME ResultStep \/ ApplyError \/ UNCHANGED vars
      PROVE  UNCHANGED <<upload, queue, unpublished>>
  BY <1>2 DEF ResultStep, GatewayFetch, ApplyProcessingResult, GatewayCommit, ApplyError, vars
<1>3. ASSUME NEW u \in University, UpsertSigningKey(u) \/ DeleteCascade(u)
      PROVE  UNCHANGED <<upload, queue, unpublished>>
  BY <1>3 DEF UpsertSigningKey, DeleteCascade
<1>4. ASSUME NEW n \in Number, MarkDiplomaRevoked(n)
      PROVE  UNCHANGED <<upload, queue, unpublished>>
  BY <1>4 DEF MarkDiplomaRevoked
<1> QED
  BY <1>1, <1>2, <1>3, <1>4 DEF Next

LEMMA NextPublishedInv ==
  ASSUME TableInv, StartedInv, PublishedInv, [Next]_vars
  PROVE  PublishedInv'
<1> TypeInv /\ TypeOK /\ TopicGrows
  BY TopicSteps DEF TableInv, TypeInv
<1> SUFFICES ASSUME NEW b \in Batch, NEW t \in TasksOf(b)
             PROVE  /\ upload'[b] = "accepted" => Published(t)'
                    /\ upload'[b] = "publishing" /\ b \notin unpublished' =>
                          Published(t)' \/ Queued(b, t)'
  BY DEF PublishedInv, TasksOf
<1>0. Published(t) => Published(t)'
  BY PublishedStays
<1>1. CASE UNCHANGED <<upload, queue, unpublished>>
  BY <1>0, <1>1 DEF PublishedInv, Queued
<1>2. CASE WriterDeliver
  <2>1. /\ queue # <<>> /\ queue' = Tail(queue) /\ rawLog' = rawLog \o Head(queue).tasks
        /\ UNCHANGED <<upload, unpublished>>
    BY <1>2 DEF WriterDeliver, Dequeue
  <2>2. Queued(b, t) => Published(t)' \/ Queued(b, t)'
    BY <2>1, DequeuedOrQueued, AppendedPublished
  <2> QED
    BY <1>0, <2>1, <2>2 DEF PublishedInv
<1>3. CASE WriterError
  <2>1. queue # <<>> /\ UNCHANGED upload
    BY <1>3 DEF WriterError
  <2>2. CASE UNCHANGED <<queue, unpublished>>
    BY <1>0, <2>1, <2>2 DEF PublishedInv, Queued
  <2>3. CASE queue' = Tail(queue) /\ unpublished' = unpublished \cup {Head(queue).batch}
    BY <1>0, <2>1, <2>3, DequeuedOrQueued DEF PublishedInv
  <2> QED
    BY <1>3, <2>2, <2>3 DEF WriterError, AttemptFailed, Dequeue
<1>4. CASE GatewayCrash
  BY <1>0, <1>4 DEF GatewayCrash, PublishedInv
<1>5. ASSUME NEW c \in Batch, PublishRawTasks(c)
      PROVE  /\ upload'[b] = "accepted" => Published(t)'
             /\ upload'[b] = "publishing" /\ b \notin unpublished' =>
                   Published(t)' \/ Queued(b, t)'
  <2>1. /\ queue' = queue \o Requests(c) /\ UNCHANGED unpublished
        /\ upload'[c] = "publishing" /\ (b # c => upload'[b] = upload[b])
    BY <1>5 DEF PublishRawTasks, TypeOK, uploadVars
  <2> QED
    BY <1>0, <2>1, HandedOver DEF PublishedInv
<1>6. ASSUME NEW c \in Batch, PublishSucceeds(c)
      PROVE  /\ upload'[b] = "accepted" => Published(t)'
             /\ upload'[b] = "publishing" /\ b \notin unpublished' =>
                   Published(t)' \/ Queued(b, t)'
  <2>1. /\ UNCHANGED <<queue, unpublished>> /\ (b # c => upload'[b] = upload[b])
        /\ upload[c] = "publishing" /\ c \notin unpublished /\ upload'[c] = "accepted"
    BY <1>6 DEF PublishSucceeds, TypeOK
  <2>2. ~Queued(c, t)
    <3>1. DOMAIN queue = 1 .. Len(queue)
      BY LenProperties DEF TypeOK
    <3> QED
      BY <1>6, <3>1 DEF PublishSucceeds, Flushed, Queued
  <2>3. Queued(b, t) => Queued(b, t)'
    BY <2>1 DEF Queued
  <2> QED
    BY <1>0, <2>1, <2>2, <2>3 DEF PublishedInv
<1>7. ASSUME NEW c \in Batch,
             \/ CreateBatchWithRecords(c) \/ PublishFails(c) \/ FailBatch(c)
             \/ PublishTimeout(c)
      PROVE  /\ upload'[b] = "accepted" => Published(t)'
             /\ upload'[b] = "publishing" /\ b \notin unpublished' =>
                   Published(t)' \/ Queued(b, t)'
  <2>1. /\ UNCHANGED <<queue, unpublished>>
        /\ upload'[b] \in {"created", "failing", "rejected"} \/ upload'[b] = upload[b]
    BY <1>7 DEF CreateBatchWithRecords, PublishFails, FailBatch, PublishTimeout, TypeOK
  <2> QED
    BY <1>0, <2>1 DEF PublishedInv, Queued
<1> QED
  BY <1>1, <1>2, <1>3, <1>4, <1>5, <1>6, <1>7, PublishingSteps DEF UploadStep

\* Whatever the writer retries, gives up or loses, and whenever the gateway dies,
\* an upload that was answered 202 has each of its records in the topic.
THEOREM AcceptedUploadsArePublished == Spec => []AcceptedIsPublished
<1> DEFINE Inv == TableInv /\ StartedInv /\ PublishedInv
<1>1. Init => Inv
  BY InitTableInv, InitDeliveryInv DEF Init, PublishedInv, DeliveryInv
<1>2. Inv /\ [Next]_vars => Inv'
  BY NextTypeInv, NextRefInv, NextHolderInv, NextStartedInv, NextPublishedInv DEF TableInv
<1>3. Inv => AcceptedIsPublished
  BY DEF AcceptedIsPublished, PublishedInv, Published
<1> QED
  BY <1>1, <1>2, <1>3, PTL DEF Spec

-----------------------------------------------------------------------------
(* Both together: an accepted record without its row is on its way. *)

\* The message at i will still be handled by the owner of the partition, or by
\* whoever gets it next.
Ahead(i) ==
    \/ owner = None /\ committed < i
    \/ \E e \in Engine :
          /\ owner = e
          /\ \/ position < i
             \/ engine[e].pc # "fetch" /\ engine[e].off = i

LEMMA WaitingIsAhead ==
  ASSUME TypeOK, OffsetInv, NEW i \in 1 .. Len(rawLog), ~DecidedAt(i)
  PROVE  Ahead(i)
<1>1. committed \in Nat /\ position \in Nat /\ owner \in Engine \cup {None}
  BY DEF TypeOK
<1>2. CASE owner = None
  BY <1>1, <1>2 DEF OffsetInv, CommittedInv, Ahead
<1>3. CASE owner \in Engine
  BY <1>1, <1>3 DEF OffsetInv, ReadInv, Ahead
<1> QED
  BY <1>1, <1>2, <1>3

\* What AcceptedUploadSettles rests on: unless a query fails, a record that was
\* accepted and has no row is where the group is going to read, or in the hands
\* of the owner, after any crashes, rebalances and lost commits.
THEOREM AcceptedWorkIsInHand ==
  ASSUME "db" \notin FaultKinds
  PROVE  Spec => []WorkIsInHand
<1> DEFINE Inv == DeliveryInv /\ PublishedInv
<1>1. Init => Inv
  BY InitDeliveryInv DEF Init, PublishedInv
<1>2. Inv /\ [Next]_vars => Inv'
  BY NextTypeInv, NextRefInv, NextHolderInv, NextStartedInv, NextOffsetInv, NextPublishedInv
  DEF DeliveryInv, TableInv
<1>3. Inv => WorkIsInHand
  <2> SUFFICES ASSUME Inv, NEW b \in Batch, upload[b] = "accepted",
                      NEW t \in TasksOf(b), ~Decided(t)
               PROVE  \E i \in 1 .. Len(rawLog) : rawLog[i] = t /\ Ahead(i)
    BY DEF WorkIsInHand, Ahead
  <2>1. PICK i \in 1 .. Len(rawLog) : rawLog[i] = t
    BY DEF PublishedInv, Published
  <2> QED
    BY <2>1, WaitingIsAhead DEF DecidedAt, DeliveryInv, TableInv, TypeInv
<1> QED
  BY <1>1, <1>2, <1>3, PTL DEF Spec
=============================================================================
