------------------------ MODULE BatchPipelineProofs ------------------------
(***************************************************************************)
(* Proofs about BatchPipeline, for any universities, batches, records,     *)
(* engines and faults.                                                     *)
(***************************************************************************)
EXTENDS BatchPipeline, FiniteSetTheorems, SequenceTheorems, TLAPS

(* What an engine and the gateway's consumer hold between two calls. *)

EngineTyped ==
    \A e \in Engine :
        /\ engine[e].pc = "fetch" => engine[e] = Idle
        /\ engine[e].pc # "fetch" => engine[e].task \in Task
        /\ engine[e].pc \in {"check", "persist", "send", "commit"} =>
              engine[e].res \in {"ok", "error"}

GatewayTyped ==
    /\ gateway.pos <= Len(resLog)
    /\ gateway.committed <= gateway.pos
    /\ gateway.pc # "fetch" => gateway.pos # 0

TypeInv == TypeOK /\ EngineTyped /\ GatewayTyped

-----------------------------------------------------------------------------

LEMMA InitTypeInv == Init => TypeInv
  BY DataAssumption, BoundAssumption
  DEF Init, TypeInv, TypeOK, EngineTyped, GatewayTyped, BatchRow, Outcome, EngineState, Idle,
      GatewayState, Result

\* The steps of a handler keep what an engine holds well formed.
LEMMA ContinueTyped ==
  ASSUME TypeInv, NEW e \in Engine, NEW res \in Outcome,
         NEW pc \in {"register", "check", "persist", "send", "commit"},
         engine[e].pc # "fetch", pc # "register" => res \in {"ok", "error"},
         Continue(e, pc, res)
  PROVE  engine' \in [Engine -> EngineState] /\ EngineTyped'
<1> USE DEF TypeInv, TypeOK
<1>1. [pc |-> pc, task |-> engine[e].task, res |-> res, off |-> engine[e].off] \in EngineState
  BY DEF EngineState
<1>2. engine' \in [Engine -> EngineState]
  BY <1>1 DEF Continue
<1>3. EngineTyped'
  BY DEF Continue, EngineTyped, Idle
<1> QED
  BY <1>2, <1>3

LEMMA InsertRowTyped ==
  ASSUME TypeInv, NEW t \in Task, NEW row \in {"ok", "error"}, InsertRow(t, row)
  PROVE  /\ results' \in [Task -> Outcome]
         /\ batch' \in [Batch -> BatchRow]
<1> USE DataAssumption DEF TypeInv, TypeOK
<1>1. results' \in [Task -> Outcome]
  BY DEF InsertRow, Outcome
<1>2. ASSUME NEW b \in Batch, NEW rows PROVE Counted(b, rows) \in BatchRow
  BY DEF Counted, BatchRow
<1>3. batch' \in [Batch -> BatchRow]
  BY <1>2 DEF InsertRow
<1> QED
  BY <1>1, <1>3

LEMMA InsertHashTyped ==
  ASSUME TypeInv, NEW t \in Task, InsertHash(t)
  PROVE  /\ hash' \in [Number -> Hash \cup {None}]
         /\ diploma' \in [Number -> {"absent", "active", "revoked"}]
  BY DataAssumption DEF TypeInv, TypeOK, InsertHash

LEMMA InsertOrKeepTyped ==
  ASSUME TypeInv, NEW t \in Task, NEW row \in {"ok", "error"},
         InsertRow(t, row) \/ UNCHANGED <<batch, results>>,
         InsertHash(t) \/ UNCHANGED <<hash, diploma>>
  PROVE  /\ results' \in [Task -> Outcome]
         /\ batch' \in [Batch -> BatchRow]
         /\ hash' \in [Number -> Hash \cup {None}]
         /\ diploma' \in [Number -> {"absent", "active", "revoked"}]
  BY InsertRowTyped, InsertHashTyped DEF TypeInv, TypeOK

LEMMA RequestsTyped ==
  ASSUME NEW b \in Batch
  PROVE  /\ Requests(b) \in Seq(Request)
         /\ \A i \in 1 .. Len(Requests(b)) :
               Requests(b)[i].batch = b /\ Requests(b)[i].tasks \in Seq(TasksOf(b))
<1> DEFINE n == Len(Chunks[b])
<1>1. Chunks[b] \in Seq(Seq(TasksOf(b)))
  BY UploadAssumption
<1>2. n \in Nat /\ DOMAIN Chunks[b] = 1 .. n
  BY <1>1, LenProperties
<1>3. \A i \in 1 .. n : Chunks[b][i] \in Seq(TasksOf(b))
  BY <1>1, ElementOfSeq
<1>4. TasksOf(b) \subseteq Task
  BY DEF TasksOf
<1>5. \A i \in 1 .. n : Chunks[b][i] \in Seq(Task)
  BY <1>3, <1>4, SeqMonotonic
<1>6. \A i \in 1 .. n : [batch |-> b, tasks |-> Chunks[b][i]] \in Request
  BY <1>5 DEF Request
<1>7. Requests(b) \in [1 .. n -> Request]
  BY <1>2, <1>6 DEF Requests
<1>8. Requests(b) \in Seq(Request) /\ Len(Requests(b)) = n
  <2>1. Requests(b) \in Seq(Request)
    BY <1>2, <1>7, SeqDef
  <2>2. DOMAIN Requests(b) = 1 .. n
    BY <1>2 DEF Requests
  <2> QED
    BY <1>2, <2>1, <2>2, LenProperties
<1> QED
  BY <1>2, <1>3, <1>8 DEF Requests

\* The writer takes a request off its queue and may append its tasks to the topic.
LEMMA WriterTyped ==
  ASSUME TypeInv, queue # <<>>
  PROVE  /\ Head(queue).batch \in Batch
         /\ rawLog \o Head(queue).tasks \in Seq(Task)
         /\ Len(rawLog) <= Len(rawLog \o Head(queue).tasks)
         /\ Tail(queue) \in Seq(Request)
<1>1. queue \in Seq(Request) /\ rawLog \in Seq(Task)
  BY DEF TypeInv, TypeOK
<1>2. Head(queue) \in Request /\ Tail(queue) \in Seq(Request)
  BY <1>1, HeadTailProperties
<1>3. Head(queue).batch \in Batch /\ Head(queue).tasks \in Seq(Task)
  BY <1>2 DEF Request
<1>4. /\ rawLog \o Head(queue).tasks \in Seq(Task)
      /\ Len(rawLog \o Head(queue).tasks) = Len(rawLog) + Len(Head(queue).tasks)
  BY <1>1, <1>3, ConcatProperties
<1>5. Len(rawLog) \in Nat /\ Len(Head(queue).tasks) \in Nat
  BY <1>1, <1>3, LenProperties
<1> QED
  BY <1>2, <1>3, <1>4, <1>5

LEMMA NextTypeInv == TypeInv /\ [Next]_vars => TypeInv'
<1> SUFFICES ASSUME TypeInv, [Next]_vars PROVE TypeInv'
  OBVIOUS
<1> USE DEF TypeInv, TypeOK, EngineTyped, GatewayTyped, dbVars, uploadVars, topicVars, Fault
<1>1. ASSUME NEW u \in University, UpsertSigningKey(u) PROVE TypeInv'
  BY <1>1 DEF UpsertSigningKey
<1>2. ASSUME NEW u \in University, DeleteCascade(u) PROVE TypeInv'
  BY <1>2 DEF DeleteCascade, BatchRow, Outcome
<1>3. ASSUME NEW n \in Number, MarkDiplomaRevoked(n) PROVE TypeInv'
  BY <1>3 DEF MarkDiplomaRevoked
<1>4. ASSUME NEW b \in Batch, CreateBatchWithRecords(b) PROVE TypeInv'
  BY <1>4 DEF CreateBatchWithRecords, BatchRow
<1>5. ASSUME NEW b \in Batch, PublishRawTasks(b) PROVE TypeInv'
  <2>1. queue' \in Seq(Request)
    BY <1>5, RequestsTyped, ConcatProperties DEF PublishRawTasks
  <2> QED
    BY <1>5, <2>1 DEF PublishRawTasks
<1>6. ASSUME NEW b \in Batch, PublishSucceeds(b) PROVE TypeInv'
  BY <1>6 DEF PublishSucceeds
<1>7. ASSUME NEW b \in Batch, PublishFails(b) PROVE TypeInv'
  BY <1>7 DEF PublishFails
<1>8. ASSUME NEW b \in Batch, PublishTimeout(b) PROVE TypeInv'
  BY <1>8 DEF PublishTimeout
<1>9. ASSUME NEW b \in Batch, FailBatch(b) PROVE TypeInv'
  <2>1. [status |-> "failed", processed |-> batch[b].processed] \in BatchRow
    BY DEF BatchRow
  <2>2. batch' \in [Batch -> BatchRow]
    BY <1>9, <2>1 DEF FailBatch
  <2>3. /\ upload' \in [Batch -> {"idle", "created", "publishing", "failing",
                                  "accepted", "rejected", "lost"}]
        /\ faults' \in Nat
    BY <1>9 DEF FailBatch
  <2> QED
    BY <1>9, <2>2, <2>3 DEF FailBatch
<1>10. CASE WriterDeliver
  BY <1>10, WriterTyped, BoundAssumption DEF WriterDeliver, Dequeue
<1>11. CASE WriterError
  <2>1. rawLog' \in Seq(Task)
    BY <1>11, WriterTyped DEF WriterError
  <2>2. /\ queue' \in Seq(Request)
        /\ attempts' \in 0 .. (MaxAttempts - 1)
        /\ unpublished' \in SUBSET Batch
    <3>1. CASE attempts + 1 < MaxAttempts
      BY <1>11, <3>1, BoundAssumption DEF WriterError, AttemptFailed, Dequeue
    <3>2. CASE ~(attempts + 1 < MaxAttempts)
      <4>1. Head(queue).batch \in Batch /\ Tail(queue) \in Seq(Request)
        BY <1>11, WriterTyped DEF WriterError
      <4>2. /\ queue' = Tail(queue)
            /\ attempts' = 0
            /\ unpublished' = unpublished \cup {Head(queue).batch}
        BY <1>11, <3>2, BoundAssumption DEF WriterError, AttemptFailed, Dequeue
      <4> QED
        BY <4>1, <4>2, BoundAssumption
    <3> QED
      BY <3>1, <3>2
  <2> QED
    BY <1>11, <2>1, <2>2 DEF WriterError
<1>12. CASE GatewayCrash
  BY <1>12, BoundAssumption DEF GatewayCrash, GatewayState
<1>13. ASSUME NEW e \in Engine, Assign(e) PROVE TypeInv'
  BY <1>13 DEF Assign
<1>14. ASSUME NEW e \in Engine, Takeover(e) PROVE TypeInv'
  BY <1>14 DEF Takeover
<1>15. ASSUME NEW e \in Engine, EngineCrash(e) PROVE TypeInv'
  BY <1>15 DEF EngineCrash, EngineState, Idle, Outcome
<1>16. ASSUME NEW e \in Engine, Fetch(e) PROVE TypeInv'
  BY <1>16 DEF Fetch, EngineState, Outcome, Idle
<1>17. ASSUME NEW e \in Engine, Identify(e) PROVE TypeInv'
  <2>1. engine[e].res \in Outcome /\ engine[e].pc # "fetch"
    BY <1>17 DEF Identify, EngineState
  <2>2. \/ Continue(e, "register", engine[e].res)
        \/ Continue(e, "check", "ok")
        \/ Continue(e, "check", "error")
    BY <1>17 DEF Identify, ProcessedAs, Goto
  <2>3. engine' \in [Engine -> EngineState] /\ EngineTyped'
    BY <2>1, <2>2, ContinueTyped DEF Outcome
  <2> QED
    BY <1>17, <2>3 DEF Identify
<1>18. ASSUME NEW e \in Engine, Register(e) PROVE TypeInv'
  <2>1. engine[e].task \in Task
    BY <1>18 DEF Register
  <2>2. engine' \in [Engine -> EngineState] /\ EngineTyped'
    BY <1>18, ContinueTyped DEF Register, ProcessedAs, Outcome
  <2>3. InsertHash(engine[e].task) \/ UNCHANGED <<hash, diploma>>
    BY <1>18 DEF Register
  <2> QED
    BY <1>18, <2>1, <2>2, <2>3, InsertHashTyped DEF Register
<1>19. ASSUME NEW e \in Engine, InnerError(e) PROVE TypeInv'
  <2>1. engine[e].task \in Task
    BY <1>19 DEF InnerError
  <2>2. engine' \in [Engine -> EngineState] /\ EngineTyped'
    BY <1>19, ContinueTyped DEF InnerError, ProcessedAs, Outcome
  <2>3. InsertHash(engine[e].task) \/ UNCHANGED <<hash, diploma>>
    BY <1>19 DEF InnerError
  <2> QED
    BY <1>19, <2>1, <2>2, <2>3, InsertHashTyped DEF InnerError
<1>20. ASSUME NEW e \in Engine, CheckPersisted(e) PROVE TypeInv'
  <2>1. engine[e].res \in {"ok", "error"} /\ engine[e].pc # "fetch"
    BY <1>20 DEF CheckPersisted
  <2>2. \/ Continue(e, "persist", engine[e].res)
        \/ Continue(e, "send", engine[e].res)
    BY <1>20 DEF CheckPersisted, Goto
  <2>3. engine' \in [Engine -> EngineState] /\ EngineTyped'
    BY <2>1, <2>2, ContinueTyped DEF Outcome
  <2> QED
    BY <1>20, <2>3 DEF CheckPersisted
<1>21. ASSUME NEW e \in Engine, Persist(e) PROVE TypeInv'
  <2>1. engine[e].task \in Task /\ engine[e].res \in {"ok", "error"}
    BY <1>21 DEF Persist
  <2>2. engine' \in [Engine -> EngineState] /\ EngineTyped'
    <3>1. CASE Goto(e, "send")
      BY <1>21, <2>1, <3>1, ContinueTyped DEF Persist, Goto, Outcome
    <3>2. CASE engine' = [engine EXCEPT ![e] = Idle]
      BY <3>2 DEF EngineState, Outcome, Idle
    <3> QED
      BY <1>21, <3>1, <3>2 DEF Persist
  <2>3. InsertRow(engine[e].task, engine[e].res) \/ UNCHANGED <<batch, results>>
    BY <1>21 DEF Persist
  <2> QED
    BY <1>21, <2>1, <2>2, <2>3, InsertRowTyped DEF Persist
<1>22. ASSUME NEW e \in Engine, PersistError(e) PROVE TypeInv'
  <2>1. engine[e].task \in Task
    BY <1>22 DEF PersistError
  <2>2. engine' \in [Engine -> EngineState] /\ EngineTyped'
    BY <1>22 DEF PersistError, EngineState, Outcome, Idle
  <2>3. \/ UNCHANGED <<batch, results>>
        \/ InsertRow(engine[e].task, engine[e].res) /\ engine[e].res \in {"ok", "error"}
    BY <1>22 DEF PersistError
  <2> QED
    BY <1>22, <2>1, <2>2, <2>3, InsertRowTyped DEF PersistError
<1>23. ASSUME NEW e \in Engine, SendResult(e) PROVE TypeInv'
  <2>1. /\ engine' \in [Engine -> EngineState] /\ EngineTyped'
        /\ engine[e].task \in Task /\ engine[e].res \in {"ok", "error"}
    BY <1>23, ContinueTyped DEF SendResult, Goto, Outcome
  <2>2. [task |-> engine[e].task, res |-> engine[e].res] \in Result
    BY <2>1 DEF Result
  <2>3. CASE resLog' = Append(resLog, [task |-> engine[e].task, res |-> engine[e].res])
    <3>1. resLog' \in Seq(Result) /\ Len(resLog') = Len(resLog) + 1
      BY <2>2, <2>3, AppendProperties
    <3>2. GatewayTyped'
      BY <1>23, <3>1, LenProperties DEF SendResult, GatewayState
    <3> QED
      BY <1>23, <2>1, <3>1, <3>2 DEF SendResult
  <2>4. CASE UNCHANGED resLog
    BY <1>23, <2>1, <2>4 DEF SendResult
  <2> QED
    BY <1>23, <2>3, <2>4 DEF SendResult
<1>24. ASSUME NEW e \in Engine, CommitMessage(e) PROVE TypeInv'
  BY <1>24 DEF CommitMessage, EngineState, Idle, Outcome
<1>25. CASE GatewayFetch
  BY <1>25 DEF GatewayFetch, GatewayState
<1>26. ASSUME NEW r \in BOOLEAN, ApplyProcessingResult(r) PROVE TypeInv'
  <2> DEFINE t == resLog[gateway.pos].task
             row == AppliedRow(resLog[gateway.pos], r)
  <2>1. gateway.pos \in 1 .. Len(resLog)
    BY <1>26 DEF ApplyProcessingResult, GatewayState
  <2>2. t \in Task /\ row \in {"ok", "error"}
    <3>1. resLog[gateway.pos] \in Result
      BY <2>1, ElementOfSeq
    <3> QED
      BY <3>1 DEF Result, AppliedRow
  <2>3. /\ InsertRow(t, row) \/ UNCHANGED <<batch, results>>
        /\ InsertHash(t) \/ UNCHANGED <<hash, diploma>>
    BY <1>26 DEF ApplyProcessingResult
  <2>4. gateway' \in GatewayState /\ gateway'.pos = gateway.pos
           /\ gateway'.committed = gateway.committed
    BY <1>26 DEF ApplyProcessingResult, GatewayGoto, GatewayState
  <2>5. /\ results' \in [Task -> Outcome]
        /\ batch' \in [Batch -> BatchRow]
        /\ hash' \in [Number -> Hash \cup {None}]
        /\ diploma' \in [Number -> {"absent", "active", "revoked"}]
    BY <2>2, <2>3, InsertOrKeepTyped
  <2> QED
    BY <1>26, <2>1, <2>4, <2>5 DEF ApplyProcessingResult
<1>27. CASE ApplyError
  BY <1>27 DEF ApplyError, GatewayGoto, GatewayState
<1>28. CASE GatewayCommit
  BY <1>28 DEF GatewayCommit, GatewayGoto, GatewayState
<1>29. CASE UNCHANGED vars
  BY <1>29 DEF vars
<1> QED
  BY <1>1, <1>2, <1>3, <1>4, <1>5, <1>6, <1>7, <1>8, <1>9, <1>10, <1>11, <1>12, <1>13, <1>14,
     <1>15, <1>16, <1>17, <1>18, <1>19, <1>20, <1>21, <1>22, <1>23, <1>24, <1>25, <1>26, <1>27,
     <1>28, <1>29
  DEF Next, EngineStep, EngineFault, UploadStep, ResultStep

\* Every variable keeps its type, for any universities, uploads, engines and faults.
THEOREM TypeCorrect == Spec => []TypeOK
<1>1. Spec => []TypeInv
  BY InitTypeInv, NextTypeInv, PTL DEF Spec
<1>2. TypeInv => TypeOK
  BY DEF TypeInv
<1> QED
  BY <1>1, <1>2, PTL

-----------------------------------------------------------------------------
(***************************************************************************)
(* The tables and what the processes in flight know of them.  RefInv is    *)
(* what the foreign keys and the registry guarantee; HolderInv is why the  *)
(* two transactions of an engine, and the message it sends after them,     *)
(* never disagree.                                                         *)
(***************************************************************************)

RefInv ==
    /\ \A b \in Batch : Present(b) => BatchVuz[b] \in live
    /\ \A t \in Task : results[t] # "none" => Present(TaskBatch[t])
    /\ \A n \in Number : diploma[n] # "absent" => NumberVuz[n] \in live
    /\ OkRowRegistered

\* The registry holds the hash of t, unless its university is gone.
Certified(t) == Registered(t) \/ TaskVuz(t) \notin live

HolderInv ==
    /\ \A e \in Engine : engine[e].pc \in {"check", "persist"} /\ engine[e].res = "ok" =>
          Certified(engine[e].task)
    /\ \A e \in Engine : engine[e].pc \in {"send", "commit"} => Decided(engine[e].task)
    /\ \A i \in 1 .. Len(resLog) : Decided(resLog[i].task)

TableInv == TypeInv /\ RefInv /\ HolderInv

LEMMA InitTableInv == Init => TableInv
<1>1. Init => RefInv
  BY DataAssumption DEF Init, RefInv, Present, OkRowRegistered
<1>2. Init => HolderInv
  BY EmptySeq DEF Init, HolderInv, Idle
<1> QED
  BY <1>1, <1>2, InitTypeInv DEF TableInv

\* A decided record has its row, or no batch to add one to.
LEMMA DecidedNotInserted ==
  ASSUME RefInv, NEW t \in Task, Decided(t)
  PROVE  ~CanInsertRow(t)
  BY DataAssumption DEF RefInv, Decided, CanInsertRow, TaskVuz

\* The gateway's transaction never finds anything to do.
LEMMA ApplyChangesNothing ==
  ASSUME TableInv, NEW r \in BOOLEAN, ApplyProcessingResult(r)
  PROVE  UNCHANGED dbVars
<1>1. gateway.pos \in 1 .. Len(resLog)
  BY DEF TableInv, TypeInv, TypeOK, GatewayTyped, GatewayState, ApplyProcessingResult
<1>2. resLog[gateway.pos] \in Result
  BY <1>1, ElementOfSeq DEF TableInv, TypeInv, TypeOK
<1>3. Decided(resLog[gateway.pos].task)
  BY <1>1 DEF TableInv, HolderInv
<1>4. ~CanInsertRow(resLog[gateway.pos].task)
  BY <1>2, <1>3, DecidedNotInserted DEF TableInv, Result
<1> QED
  BY <1>4 DEF ApplyProcessingResult, dbVars

\* The steps that change the tables: every proof below has these six cases.
TableSame == UNCHANGED <<live, batch, results, hash, diploma>>

HashAdded(t) ==
    CanInsertHash(t) /\ InsertHash(t) /\ UNCHANGED <<live, batch, results>>

RowAdded(t, row) ==
    /\ CanInsertRow(t)
    /\ InsertRow(t, row)
    /\ row \in {"ok", "error"}
    /\ row = "ok" => Certified(t)
    /\ UNCHANGED <<live, hash, diploma, upload>>

LEMMA TableSteps ==
  ASSUME TableInv, [Next]_vars
  PROVE  \/ TableSame
         \/ \E u \in University : DeleteCascade(u)
         \/ \E n \in Number : MarkDiplomaRevoked(n)
         \/ \E b \in Batch : CreateBatchWithRecords(b) \/ FailBatch(b)
         \/ \E t \in Task : HashAdded(t)
         \/ \E t \in Task, row \in {"ok", "error"} : RowAdded(t, row)
<1> USE DEF TableSame, dbVars
<1>1. CASE WriterDeliver \/ WriterError \/ GatewayCrash \/ ApplyError
  BY <1>1 DEF WriterDeliver, WriterError, GatewayCrash, ApplyError
<1>2. CASE ResultStep
  BY <1>2, ApplyChangesNothing DEF ResultStep, GatewayFetch, GatewayCommit
<1>3. ASSUME NEW b \in Batch, UploadStep(b) \/ PublishTimeout(b) PROVE TableSame \/ FailBatch(b)
  BY <1>3 DEF UploadStep, PublishRawTasks, PublishSucceeds, PublishFails, PublishTimeout
<1>4. ASSUME NEW u \in University, UpsertSigningKey(u) PROVE TableSame
  BY <1>4 DEF UpsertSigningKey
<1>5. ASSUME NEW e \in Engine,
             \/ Assign(e) \/ Fetch(e) \/ Identify(e) \/ CheckPersisted(e)
             \/ SendResult(e) \/ CommitMessage(e) \/ Takeover(e) \/ EngineCrash(e)
      PROVE  TableSame
  BY <1>5 DEF Assign, Fetch, Identify, CheckPersisted, SendResult, CommitMessage, Takeover,
              EngineCrash
<1>6. ASSUME NEW e \in Engine, Register(e) \/ InnerError(e)
      PROVE  TableSame \/ \E t \in Task : HashAdded(t)
  <2>1. engine[e].task \in Task
    BY <1>6 DEF Register, InnerError, TableInv, TypeInv, EngineTyped
  <2>2. TableSame \/ HashAdded(engine[e].task)
    BY <1>6 DEF Register, InnerError, HashAdded
  <2> QED
    BY <2>1, <2>2
<1>7. ASSUME NEW e \in Engine, Persist(e) \/ PersistError(e)
      PROVE  TableSame \/ \E t \in Task, row \in {"ok", "error"} : RowAdded(t, row)
  <2>1. CASE engine[e].pc = "persist"
    <3>1. /\ engine[e].task \in Task
          /\ engine[e].res \in {"ok", "error"}
          /\ engine[e].res = "ok" => Certified(engine[e].task)
      BY <2>1 DEF TableInv, TypeInv, EngineTyped, HolderInv
    <3>2. TableSame \/ RowAdded(engine[e].task, engine[e].res)
      BY <1>7, <2>1, <3>1 DEF Persist, PersistError, RowAdded, uploadVars
    <3> QED
      BY <3>1, <3>2
  <2>2. CASE engine[e].pc # "persist"
    BY <1>7, <2>2 DEF Persist, PersistError
  <2> QED
    BY <2>1, <2>2
<1>8. CASE UNCHANGED vars
  BY <1>8 DEF vars
<1> QED
  BY <1>1, <1>2, <1>3, <1>4, <1>5, <1>6, <1>7, <1>8 DEF Next, EngineStep, EngineFault

\* A registration or a decision lasts as long as the university.
LEMMA StableFacts ==
  ASSUME TableInv, [Next]_vars, NEW t \in Task
  PROVE  /\ Certified(t) => Certified(t)'
         /\ Decided(t) => Decided(t)'
<1> USE DataAssumption DEF Certified, Decided, Registered, TaskVuz
<1> live' \subseteq live /\ TableInv /\ TypeOK
  BY TableSteps DEF TableSame, DeleteCascade, MarkDiplomaRevoked, CreateBatchWithRecords,
     FailBatch, HashAdded, RowAdded, TableInv, TypeInv
<1>1. CASE TableSame
  BY <1>1 DEF TableSame
<1>2. ASSUME NEW u \in University, DeleteCascade(u)
      PROVE  (Certified(t) => Certified(t)') /\ (Decided(t) => Decided(t)')
  BY <1>2 DEF DeleteCascade, TypeOK
<1>3. ASSUME NEW n \in Number, MarkDiplomaRevoked(n)
      PROVE  (Certified(t) => Certified(t)') /\ (Decided(t) => Decided(t)')
  BY <1>3 DEF MarkDiplomaRevoked, TypeOK
<1>4. ASSUME NEW b \in Batch, CreateBatchWithRecords(b) \/ FailBatch(b)
      PROVE  (Certified(t) => Certified(t)') /\ (Decided(t) => Decided(t)')
  BY <1>4 DEF CreateBatchWithRecords, FailBatch
<1>5. ASSUME NEW s \in Task, HashAdded(s)
      PROVE  (Certified(t) => Certified(t)') /\ (Decided(t) => Decided(t)')
  BY <1>5 DEF HashAdded, CanInsertHash, InsertHash, TypeOK
<1>6. ASSUME NEW s \in Task, NEW row \in {"ok", "error"}, RowAdded(s, row)
      PROVE  (Certified(t) => Certified(t)') /\ (Decided(t) => Decided(t)')
  BY <1>6 DEF RowAdded, InsertRow, TypeOK
<1> QED
  BY <1>1, <1>2, <1>3, <1>4, <1>5, <1>6, TableSteps

LEMMA NextRefInv ==
  ASSUME TableInv, [Next]_vars
  PROVE  RefInv'
<1> USE DataAssumption DEF RefInv, OkRowRegistered, Registered, Present, TaskVuz
<1> RefInv /\ TypeOK
  BY DEF TableInv, TypeInv
<1>1. CASE TableSame
  BY <1>1 DEF TableSame
<1>2. ASSUME NEW u \in University, DeleteCascade(u) PROVE RefInv'
  BY <1>2 DEF DeleteCascade, TypeOK
<1>3. ASSUME NEW n \in Number, MarkDiplomaRevoked(n) PROVE RefInv'
  BY <1>3 DEF MarkDiplomaRevoked, TypeOK
<1>4. ASSUME NEW b \in Batch, CreateBatchWithRecords(b) \/ FailBatch(b) PROVE RefInv'
  <2>1. /\ \A c \in Batch : Present(c) => Present(c)'
        /\ \A c \in Batch : Present(c)' => BatchVuz[c] \in live
        /\ UNCHANGED <<live, results, hash, diploma>>
    <3>1. CASE CreateBatchWithRecords(b)
      BY <3>1 DEF CreateBatchWithRecords, TypeOK
    <3>2. CASE FailBatch(b)
      <4>1. UNCHANGED <<live, results, hash, diploma>>
        BY <3>2 DEF FailBatch
      <4> DEFINE row == [status |-> "failed", processed |-> batch[b].processed]
      <4>2. batch' = batch \/ (Present(b) /\ batch' = [batch EXCEPT ![b] = row])
        <5>1. batch' = (IF Present(b) THEN [batch EXCEPT ![b] = row] ELSE batch)
                 \/ batch' = batch
          BY <3>2 DEF FailBatch
        <5> QED
          BY <5>1
      <4>3. row.status = "failed"
        OBVIOUS
      <4> HIDE DEF row
      <4>4. \A c \in Batch : Present(c)' <=> Present(c)
        <5>1. \A c \in Batch : batch'[c] = batch[c] \/ (c = b /\ Present(b) /\ batch'[c] = row)
          BY <4>2 DEF TypeOK
        <5> QED
          BY <4>3, <5>1
      <4> QED
        BY <4>1, <4>4
    <3> QED
      BY <1>4, <3>1, <3>2
  <2> QED
    BY <2>1
<1>5. ASSUME NEW t \in Task, HashAdded(t) PROVE RefInv'
  BY <1>5 DEF HashAdded, CanInsertHash, InsertHash, TypeOK
<1>6. ASSUME NEW t \in Task, NEW row \in {"ok", "error"}, RowAdded(t, row) PROVE RefInv'
  <2>1. /\ \A c \in Batch : Present(c) <=> Present(c)'
        /\ UNCHANGED <<live, hash, diploma>>
        /\ results' = [results EXCEPT ![t] = row]
        /\ Present(TaskBatch[t])
    BY <1>6 DEF RowAdded, InsertRow, CanInsertRow, Counted, TypeOK, BatchRow
  <2>2. row = "ok" => Registered(t)
    BY <1>6, <2>1 DEF RowAdded, Certified
  <2>3. \A s \in Task : results'[s] = IF s = t THEN row ELSE results[s]
    BY <2>1 DEF TypeOK
  <2> QED
    BY <2>1, <2>2, <2>3
<1> QED
  BY <1>1, <1>2, <1>3, <1>4, <1>5, <1>6, TableSteps

\* What the messages of an engine tell: the three parts of HolderInv.
LEMMA NextHolderInv ==
  ASSUME TableInv, [Next]_vars
  PROVE  HolderInv'
<1> USE DEF HolderInv
<1> HolderInv /\ TypeInv /\ TypeOK /\ EngineTyped /\ RefInv
  BY DEF TableInv, TypeInv
<1>1. \A t \in Task : (Certified(t) => Certified(t)') /\ (Decided(t) => Decided(t)')
  BY StableFacts
<1>2. \A e \in Engine : engine[e].pc # "fetch" => engine[e].task \in Task
  BY DEF EngineTyped
<1>3. \A i \in 1 .. Len(resLog) : resLog[i].task \in Task
  <2>1. \A i \in 1 .. Len(resLog) : resLog[i] \in Result
    BY ElementOfSeq DEF TypeOK
  <2> QED
    BY <2>1 DEF Result
<1>4. CASE UNCHANGED <<engine, resLog>>
  BY <1>1, <1>2, <1>3, <1>4 DEF Certified, Decided, Registered, TaskVuz
<1>5. ASSUME NEW e \in Engine, NEW t \in Task, NEW s, engine' = [engine EXCEPT ![e] = s],
             s.pc \notin {"fetch", "identify", "register"} => s.task = t,
             s.pc \in {"check", "persist"} /\ s.res = "ok" => Certified(t)',
             s.pc \in {"send", "commit"} => Decided(t)',
             UNCHANGED resLog
      PROVE  HolderInv'
  <2>1. \A d \in Engine : engine'[d] = IF d = e THEN s ELSE engine[d]
    BY <1>5 DEF TypeOK
  <2>2. ASSUME NEW d \in Engine
        PROVE  /\ engine'[d].pc \in {"check", "persist"} /\ engine'[d].res = "ok" =>
                     Certified(engine[d].task)'
               /\ engine'[d].pc \in {"send", "commit"} => Decided(engine[d].task)'
    <3>1. CASE d = e
      BY <1>5, <2>1, <3>1 DEF Certified, Decided, Registered, TaskVuz
    <3>2. CASE d # e
      BY <1>1, <1>2, <2>1, <3>2 DEF Certified, Decided, Registered, TaskVuz
    <3> QED
      BY <3>1, <3>2
  <2>3. \A i \in 1 .. Len(resLog') : Decided(resLog[i].task)'
    BY <1>1, <1>3, <1>5 DEF Decided, TaskVuz
  <2> QED
    BY <2>2, <2>3
<1>6. ASSUME NEW e \in Engine, Fetch(e) \/ EngineCrash(e) \/ CommitMessage(e) \/ PersistError(e)
      PROVE  HolderInv'
  <2> DEFINE s == [pc |-> "identify", task |-> rawLog[position + 1],
                   res |-> "none", off |-> position + 1]
  <2>1. /\ engine' = [engine EXCEPT ![e] = Idle] \/ engine' = [engine EXCEPT ![e] = s]
        /\ UNCHANGED resLog
    BY <1>6 DEF Fetch, EngineCrash, CommitMessage, PersistError
  <2>2. Idle.pc = "fetch" /\ s.pc = "identify"
    BY DEF Idle
  <2>3. \A d \in Engine : engine'[d] = engine[d] \/ engine'[d].pc \in {"fetch", "identify"}
    BY <2>1, <2>2 DEF TypeOK
  <2>4. \A d \in Engine : engine'[d].pc \notin {"fetch", "identify"} =>
           engine'[d] = engine[d] /\ engine[d].task \in Task
    BY <1>2, <2>3
  <2>5. \A i \in 1 .. Len(resLog') : Decided(resLog[i].task)'
    BY <1>1, <1>3, <2>1 DEF Decided, TaskVuz
  <2> QED
    <3>1. ASSUME NEW d \in Engine
          PROVE  /\ engine'[d].pc \in {"check", "persist"} /\ engine'[d].res = "ok" =>
                       Certified(engine[d].task)'
                 /\ engine'[d].pc \in {"send", "commit"} => Decided(engine[d].task)'
      BY <1>1, <2>4 DEF Certified, Decided, Registered, TaskVuz
    <3> QED
      BY <2>5, <3>1
<1>7. ASSUME NEW e \in Engine, Identify(e) PROVE HolderInv'
  <2>1. PICK t \in Task : t = engine[e].task
    BY <1>2, <1>7 DEF Identify
  <2>2. /\ \/ Continue(e, "register", engine[e].res)
           \/ Continue(e, "check", "ok") /\ Registered(t)
           \/ Continue(e, "check", "error")
        /\ UNCHANGED resLog
    BY <1>7, <2>1 DEF Identify, ProcessedAs, Goto
  <2>3. Registered(t) => Certified(t)'
    BY <1>1 DEF Certified
  <2>4. CASE Continue(e, "register", engine[e].res)
    BY <1>5, <2>1, <2>2, <2>4 DEF Continue
  <2>5. CASE Continue(e, "check", "ok") /\ Registered(t)
    BY <1>5, <2>1, <2>2, <2>3, <2>5 DEF Continue
  <2>6. CASE Continue(e, "check", "error")
    BY <1>5, <2>1, <2>2, <2>6 DEF Continue
  <2> QED
    BY <2>2, <2>4, <2>5, <2>6
<1>8. ASSUME NEW e \in Engine, Register(e) \/ InnerError(e) PROVE HolderInv'
  <2>1. PICK t \in Task : t = engine[e].task
    BY <1>2, <1>8 DEF Register, InnerError
  <2>2. /\ \/ Continue(e, "check", "ok") /\ InsertHash(t)
           \/ Continue(e, "check", "error")
        /\ UNCHANGED resLog
    BY <1>8, <2>1 DEF Register, InnerError, ProcessedAs
  <2>3. InsertHash(t) => Certified(t)'
    BY DataAssumption DEF InsertHash, Certified, Registered, TypeOK
  <2> QED
    BY <1>5, <2>1, <2>2, <2>3 DEF Continue
<1>9. ASSUME NEW e \in Engine, CheckPersisted(e) PROVE HolderInv'
  <2>1. PICK t \in Task : t = engine[e].task
    BY <1>2, <1>9 DEF CheckPersisted
  <2>2. /\ \/ Continue(e, "persist", engine[e].res) /\ (engine[e].res = "ok" => Certified(t))
           \/ Continue(e, "send", engine[e].res) /\ Decided(t)
        /\ UNCHANGED resLog
    BY <1>9, <2>1 DEF CheckPersisted, Goto, Decided
  <2> QED
    BY <1>1, <1>5, <2>1, <2>2 DEF Continue
<1>10. ASSUME NEW e \in Engine, Persist(e) PROVE HolderInv'
  <2>1. PICK t \in Task : t = engine[e].task
    BY <1>2, <1>10 DEF Persist
  <2>2. /\ \/ Continue(e, "send", engine[e].res) /\ InsertRow(t, engine[e].res)
           \/ engine' = [engine EXCEPT ![e] = Idle]
        /\ UNCHANGED resLog
        /\ engine[e].res # "none"
    BY <1>10, <2>1 DEF Persist, Goto, EngineTyped
  <2>3. InsertRow(t, engine[e].res) => Decided(t)'
    BY <2>2 DEF InsertRow, Decided, TypeOK
  <2>4. Idle.pc = "fetch"
    BY DEF Idle
  <2> QED
    BY <1>5, <2>1, <2>2, <2>3, <2>4 DEF Continue
<1>11. ASSUME NEW e \in Engine, SendResult(e) PROVE HolderInv'
  <2>1. PICK t \in Task : t = engine[e].task
    BY <1>2, <1>11 DEF SendResult
  <2> DEFINE r == [task |-> t, res |-> engine[e].res]
  <2>2. Decided(t) /\ Continue(e, "commit", engine[e].res)
    BY <1>11, <2>1 DEF SendResult, Goto
  <2>3. Decided(t)'
    BY <1>1, <2>2
  <2>4. CASE UNCHANGED resLog
    BY <1>5, <2>1, <2>2, <2>3, <2>4 DEF Continue
  <2>5. CASE resLog' = Append(resLog, r)
    <3>1. r \in Result
      BY <1>11, <2>1 DEF SendResult, Result, EngineTyped
    <3>2. /\ Len(resLog') = Len(resLog) + 1
          /\ \A i \in 1 .. Len(resLog) : resLog'[i] = resLog[i]
          /\ resLog'[Len(resLog) + 1] = r
          /\ Len(resLog) \in Nat
      BY <2>5, <3>1, AppendProperties, LenProperties DEF TypeOK
    <3>3. \A i \in 1 .. Len(resLog') : Decided(resLog[i].task)'
      BY <1>1, <1>3, <2>3, <3>2 DEF Decided, TaskVuz
    <3>4. \A d \in Engine : engine'[d] =
             IF d = e THEN [pc |-> "commit", task |-> t, res |-> engine[e].res,
                            off |-> engine[e].off]
             ELSE engine[d]
      BY <2>1, <2>2 DEF Continue, TypeOK
    <3>5. ASSUME NEW d \in Engine
          PROVE  /\ engine'[d].pc \in {"check", "persist"} /\ engine'[d].res = "ok" =>
                       Certified(engine[d].task)'
                 /\ engine'[d].pc \in {"send", "commit"} => Decided(engine[d].task)'
      <4>1. CASE d = e
        BY <2>3, <3>4, <4>1 DEF Decided, TaskVuz
      <4>2. CASE d # e
        BY <1>1, <1>2, <3>4, <4>2 DEF Certified, Decided, Registered, TaskVuz
      <4> QED
        BY <4>1, <4>2
    <3> QED
      BY <3>3, <3>5
  <2> QED
    BY <1>11, <2>1, <2>4, <2>5 DEF SendResult
<1>13. ASSUME NEW e \in Engine, Assign(e) \/ Takeover(e) PROVE HolderInv'
  BY <1>4, <1>13 DEF Assign, Takeover
<1>14. CASE WriterDeliver \/ WriterError \/ GatewayCrash \/ ApplyError \/ ResultStep \/ UNCHANGED vars
  BY <1>4, <1>14 DEF WriterDeliver, WriterError, GatewayCrash, ApplyError, ResultStep,
     GatewayFetch, ApplyProcessingResult, GatewayCommit, vars
<1>15. ASSUME NEW b \in Batch, CreateBatchWithRecords(b) \/ UploadStep(b) \/ PublishTimeout(b)
       PROVE  HolderInv'
  BY <1>4, <1>15 DEF CreateBatchWithRecords, UploadStep, PublishRawTasks, PublishSucceeds,
     PublishFails, PublishTimeout, FailBatch
<1>16. ASSUME NEW u \in University, UpsertSigningKey(u) \/ DeleteCascade(u) PROVE HolderInv'
  BY <1>4, <1>16 DEF UpsertSigningKey, DeleteCascade
<1>17. ASSUME NEW n \in Number, MarkDiplomaRevoked(n) PROVE HolderInv'
  BY <1>4, <1>17 DEF MarkDiplomaRevoked
<1> QED
  BY <1>6, <1>7, <1>8, <1>9, <1>10, <1>11, <1>13, <1>14, <1>15, <1>16, <1>17
  DEF Next, EngineStep, EngineFault

LEMMA TableInvariant == Spec => []TableInv
<1>1. TableInv /\ [Next]_vars => TableInv'
  BY NextTypeInv, NextRefInv, NextHolderInv DEF TableInv
<1> QED
  BY InitTableInv, <1>1, PTL DEF Spec

\* A record reported "ok" is registered under its own hash, although the engine
\* registers and reports in two transactions and others run in between.
THEOREM OkRowsAreRegistered == Spec => []OkRowRegistered
<1>1. TableInv => OkRowRegistered
  BY DEF TableInv, RefInv
<1> QED
  BY TableInvariant, <1>1, PTL

\* ApplyProcessingResult never changes a batch, a row or the registry: whatever is
\* redelivered, every message it reads speaks of a record that has its row.
THEOREM ResultsNeverChangeTables == Spec => ResultsChangeNothing
<1>1. TableInv /\ [Next]_vars =>
        [gateway.pc = "apply" /\ gateway'.pc # "apply" =>
            UNCHANGED <<batch, results, hash, diploma>>]_vars
  <2> SUFFICES ASSUME TableInv, [Next]_vars, gateway.pc = "apply", gateway'.pc # "apply"
               PROVE  UNCHANGED <<batch, results, hash, diploma>>
    OBVIOUS
  <2>1. ASSUME UNCHANGED gateway PROVE FALSE
    BY <2>1
  <2>2. GatewayCrash \/ ApplyError \/ ResultStep
    BY <2>1 DEF Next, EngineStep, EngineFault, UploadStep, vars, UpsertSigningKey, DeleteCascade,
       MarkDiplomaRevoked, CreateBatchWithRecords, PublishRawTasks, PublishSucceeds,
       PublishFails, PublishTimeout, FailBatch, WriterDeliver, WriterError, Assign, Fetch,
       Identify, Register, CheckPersisted, Persist, SendResult, CommitMessage, Takeover,
       EngineCrash, InnerError, PersistError
  <2> QED
    BY <2>2, ApplyChangesNothing DEF GatewayCrash, ApplyError, ResultStep, GatewayFetch,
       GatewayCommit, dbVars
<1> QED
  BY TableInvariant, <1>1, PTL DEF Spec, ResultsChangeNothing

-----------------------------------------------------------------------------
(* BatchPipeline implements DiplomaLedger: the initial states agree, and each
   of the steps that TableSteps tells apart is a step of the ledger or changes
   nothing the ledger has. *)

LEMMA InitLedger == Init => Ledger!Init
  BY DEF Init, Ledger!Init

LEMMA TaskVuzIsVuz ==
  ASSUME NEW t \in Task
  PROVE  TaskVuz(t) = Ledger!Vuz(t) /\ TaskNumber[t] \in Number
  BY DataAssumption DEF TaskVuz, Ledger!Vuz

LEMMA NextLedger ==
  ASSUME TableInv, [Next]_vars
  PROVE  [Ledger!Next]_Ledger!vars
<1>1. CASE TableSame
  BY <1>1 DEF TableSame, Ledger!vars
<1>2. ASSUME NEW u \in University, DeleteCascade(u) PROVE Ledger!Next
  <2>1. Ledger!Purge(u)
    BY <1>2, TaskVuzIsVuz DEF DeleteCascade, Ledger!Purge
  <2> QED
    BY <2>1 DEF Ledger!Next
<1>3. ASSUME NEW n \in Number, MarkDiplomaRevoked(n) PROVE Ledger!Next
  BY <1>3 DEF MarkDiplomaRevoked, Ledger!Next, Ledger!Revoke
<1>4. ASSUME NEW b \in Batch, CreateBatchWithRecords(b) \/ FailBatch(b)
      PROVE  UNCHANGED Ledger!vars
  BY <1>4 DEF CreateBatchWithRecords, FailBatch, Ledger!vars
<1>5. ASSUME NEW t \in Task, HashAdded(t) PROVE Ledger!Next
  <2>1. Ledger!Issue(t)
    BY <1>5, TaskVuzIsVuz DEF HashAdded, CanInsertHash, InsertHash, Ledger!Issue
  <2> QED
    BY <2>1 DEF Ledger!Next
<1>6. ASSUME NEW t \in Task, NEW row \in {"ok", "error"}, RowAdded(t, row) PROVE Ledger!Next
  <2>1. /\ results[t] = "none"
        /\ results' = [results EXCEPT ![t] = row]
        /\ UNCHANGED <<live, hash, diploma>>
        /\ TaskVuz(t) \in live
    BY <1>6, DataAssumption DEF RowAdded, CanInsertRow, InsertRow, TableInv, RefInv, TaskVuz
  <2>2. row = "ok" => Registered(t)
    BY <1>6, <2>1 DEF RowAdded, Certified
  <2>3. Ledger!Accept(t) \/ Ledger!Reject(t)
    BY <2>1, <2>2, TaskVuzIsVuz DEF Registered, Ledger!Accept, Ledger!Reject
  <2> QED
    BY <2>3 DEF Ledger!Next
<1> QED
  BY <1>1, <1>2, <1>3, <1>4, <1>5, <1>6, TableSteps

\* Whatever the topics, the engines and the gateway do, the registry and the rows
\* of the batches change only as DiplomaLedger allows.
THEOREM PipelineImplementsLedger == Spec => ImplementsLedger
<1> QED
  BY InitLedger, NextLedger, TableInvariant, PTL
  DEF Spec, ImplementsLedger, Ledger!Spec

-----------------------------------------------------------------------------
(* processed_records and the status of a batch agree with its rows.  Both are
   written together with a row, so the invariant is about what else may touch
   them: FailBatch, the deletion of a university, a second engine and the
   gateway. *)

\* A batch exists only after its upload began; the rest are the two invariants.
CounterInv ==
    /\ \A b \in Batch : upload[b] = "idle" => ~Present(b)
    /\ CountersMatchRows
    /\ StatusMatchesRows

\* An upload never starts again, and a refused one stays refused.
LEMMA UploadSteps ==
  ASSUME TypeOK, [Next]_vars, NEW b \in Batch
  PROVE  /\ upload'[b] = "idle" => upload[b] = "idle"
         /\ upload[b] = "rejected" => upload'[b] = "rejected"
<1> USE DEF TypeOK, uploadVars, dbVars, topicVars
<1>1. CASE UNCHANGED upload
  BY <1>1
<1>2. CASE GatewayCrash
  BY <1>2 DEF GatewayCrash
<1>3. ASSUME NEW c \in Batch, CreateBatchWithRecords(c) \/ UploadStep(c) \/ PublishTimeout(c)
      PROVE  /\ upload'[b] = "idle" => upload[b] = "idle"
             /\ upload[b] = "rejected" => upload'[b] = "rejected"
  BY <1>3 DEF CreateBatchWithRecords, UploadStep, PublishTimeout, PublishRawTasks,
     PublishSucceeds, PublishFails, FailBatch
<1>4. ASSUME NEW e \in Engine, EngineStep(e) \/ EngineFault(e) PROVE UNCHANGED upload
  BY <1>4 DEF EngineStep, EngineFault, Assign, Fetch, Identify, Register, CheckPersisted,
     Persist, SendResult, CommitMessage, Takeover, EngineCrash, InnerError, PersistError
<1>5. CASE WriterDeliver \/ WriterError \/ ResultStep \/ ApplyError \/ UNCHANGED vars
  BY <1>1, <1>5 DEF WriterDeliver, WriterError, ResultStep, GatewayFetch,
     ApplyProcessingResult, GatewayCommit, ApplyError, vars
<1>6. ASSUME NEW u \in University, UpsertSigningKey(u) \/ DeleteCascade(u)
      PROVE  UNCHANGED upload
  BY <1>6 DEF UpsertSigningKey, DeleteCascade
<1>7. ASSUME NEW n \in Number, MarkDiplomaRevoked(n) PROVE UNCHANGED upload
  BY <1>7 DEF MarkDiplomaRevoked
<1> QED
  BY <1>1, <1>2, <1>3, <1>4, <1>5, <1>6, <1>7 DEF Next

LEMMA FiniteTasks ==
  ASSUME NEW b \in Batch
  PROVE  /\ IsFiniteSet(TasksOf(b))
         /\ Cardinality(TasksOf(b)) \in Nat
         /\ IsFiniteSet(RowsOf(b))
         /\ Cardinality(RowsOf(b)) \in Nat
<1>1. IsFiniteSet(TasksOf(b))
  BY DataAssumption, FS_Subset DEF TasksOf
<1>2. RowsOf(b) \subseteq TasksOf(b)
  BY DEF RowsOf
<1> QED
  BY <1>1, <1>2, FS_Subset, FS_CardinalityType

\* The step that matters: the row of t, the counter and the status move together.
LEMMA RowCounted ==
  ASSUME TableInv, CounterInv, NEW t \in Task, NEW row \in {"ok", "error"}, RowAdded(t, row)
  PROVE  CounterInv'
<1> DEFINE b == TaskBatch[t]
           rows == [results EXCEPT ![t] = row]
<1>0. b \in Batch /\ t \in TasksOf(b)
  BY DataAssumption DEF TasksOf
<1>1. /\ results[t] = "none" /\ Present(b)
      /\ results' = rows
      /\ batch' = [batch EXCEPT ![b] = Counted(b, rows)]
      /\ UNCHANGED upload
      /\ TypeOK
  BY DEF RowAdded, CanInsertRow, InsertRow, TableInv, TypeInv
<1>2. /\ \A s \in Task : results'[s] = IF s = t THEN row ELSE results[s]
      /\ \A c \in Batch : batch'[c] = IF c = b THEN Counted(b, rows) ELSE batch[c]
      /\ rows = results'
  BY <1>1 DEF TypeOK
<1>3. \A c \in Batch : c # b => RowsOf(c)' = RowsOf(c) /\ ErrorsOf(c)' = ErrorsOf(c)
  BY <1>2 DEF RowsOf, ErrorsOf, TasksOf
<1>4. /\ RowsOf(b)' = RowsOf(b) \cup {t}
      /\ t \notin RowsOf(b)
      /\ RowsOf(b)' \subseteq TasksOf(b)
  BY <1>0, <1>1, <1>2 DEF RowsOf, TasksOf
<1>5. /\ Cardinality(RowsOf(b)') = Cardinality(RowsOf(b)) + 1
      /\ IsFiniteSet(RowsOf(b)') /\ Cardinality(RowsOf(b)') \in Nat
  BY <1>0, <1>4, FiniteTasks, FS_AddElement, FS_CardinalityType
<1>6. batch[b].processed = Cardinality(RowsOf(b))
  BY <1>0, <1>1 DEF CounterInv, CountersMatchRows
<1>7. /\ Cardinality(RowsOf(b)') >= Cardinality(TasksOf(b)) => RowsOf(b)' = TasksOf(b)
      /\ RowsOf(b)' = TasksOf(b) => Cardinality(RowsOf(b)') >= Cardinality(TasksOf(b))
  BY <1>0, <1>4, <1>5, FiniteTasks, FS_Subset
<1>8. (\E s \in TasksOf(b) : rows[s] = "error") <=> ErrorsOf(b)' # {}
  BY <1>2 DEF ErrorsOf, TasksOf
<1>9. /\ batch'[b].processed = Cardinality(RowsOf(b)')
      /\ batch'[b].status = IF RowsOf(b)' = TasksOf(b)
                            THEN IF ErrorsOf(b)' # {} THEN "failed" ELSE "completed"
                            ELSE batch[b].status
  <2>1. /\ Counted(b, rows).processed = batch[b].processed + 1
        /\ Counted(b, rows).status =
              IF batch[b].processed + 1 >= Cardinality(TasksOf(b))
              THEN IF \E s \in TasksOf(b) : rows[s] = "error" THEN "failed" ELSE "completed"
              ELSE batch[b].status
    BY DEF Counted
  <2>2. batch'[b] = Counted(b, rows)
    BY <1>0, <1>2
  <2>3. batch[b].processed + 1 = Cardinality(RowsOf(b)')
    BY <1>5, <1>6
  <2> HIDE DEF rows
  <2> QED
    BY <1>7, <1>8, <2>1, <2>2, <2>3
<1>10. batch[b].status = "processing" \/ upload[b] = "rejected"
  BY <1>0, <1>1, <1>4 DEF CounterInv, StatusMatchesRows, TypeOK, BatchRow, Present
<1>11. batch[b].status # "completed"
  BY <1>0, <1>4 DEF CounterInv, StatusMatchesRows
<1>12. CountersMatchRows'
  BY <1>0, <1>1, <1>2, <1>3, <1>9 DEF CounterInv, CountersMatchRows, Present
<1>13. StatusMatchesRows'
  <2> SUFFICES ASSUME NEW c \in Batch
               PROVE  /\ batch'[c].status = "processing" => RowsOf(c)' # TasksOf(c)
                      /\ batch'[c].status = "completed" =>
                            RowsOf(c)' = TasksOf(c) /\ ErrorsOf(c)' = {}
                      /\ batch'[c].status = "failed" /\ upload'[c] # "rejected" =>
                            RowsOf(c)' = TasksOf(c) /\ ErrorsOf(c)' # {}
    BY DEF StatusMatchesRows, TasksOf
  <2>1. CASE c = b
    BY <1>1, <1>9, <1>10, <1>11, <2>1
  <2>2. CASE c # b
    BY <1>1, <1>2, <1>3, <2>2 DEF CounterInv, StatusMatchesRows
  <2> QED
    BY <2>1, <2>2
<1>14. \A c \in Batch : upload'[c] = "idle" => ~Present(c)'
  BY <1>1, <1>2 DEF CounterInv, Present
<1> QED
  BY <1>12, <1>13, <1>14 DEF CounterInv

LEMMA NextCounterInv ==
  ASSUME TableInv, CounterInv, [Next]_vars
  PROVE  CounterInv'
<1> USE DEF CounterInv, CountersMatchRows, StatusMatchesRows, Present
<1> TypeOK /\ RefInv
  BY DEF TableInv, TypeInv
<1>0. \A b \in Batch : /\ upload'[b] = "idle" => upload[b] = "idle"
                       /\ upload[b] = "rejected" => upload'[b] = "rejected"
  BY UploadSteps
<1>1. CASE UNCHANGED <<batch, results>>
  <2>1. \A b \in Batch : RowsOf(b)' = RowsOf(b) /\ ErrorsOf(b)' = ErrorsOf(b)
    BY <1>1 DEF RowsOf, ErrorsOf, TasksOf
  <2> QED
    BY <1>0, <1>1, <2>1 DEF TasksOf
<1>2. ASSUME NEW u \in University, DeleteCascade(u) PROVE CounterInv'
  <2>1. /\ \A b \in Batch : batch'[b] = IF BatchVuz[b] = u
                                       THEN [status |-> "absent", processed |-> 0] ELSE batch[b]
        /\ \A t \in Task : results'[t] = IF TaskVuz(t) = u THEN "none" ELSE results[t]
        /\ UNCHANGED upload
    BY <1>2 DEF DeleteCascade, uploadVars
  <2>2. \A b \in Batch : BatchVuz[b] # u => RowsOf(b)' = RowsOf(b) /\ ErrorsOf(b)' = ErrorsOf(b)
    BY <2>1 DEF RowsOf, ErrorsOf, TasksOf, TaskVuz
  <2>3. \A b \in Batch : BatchVuz[b] = u => RowsOf(b)' = {}
    BY <2>1 DEF RowsOf, TasksOf, TaskVuz
  <2> QED
    BY <2>1, <2>2, <2>3 DEF TasksOf
<1>3. ASSUME NEW b \in Batch, CreateBatchWithRecords(b) PROVE CounterInv'
  <2>1. /\ ~Present(b)
        /\ \A c \in Batch : batch'[c] = IF c = b THEN [status |-> "processing", processed |-> 0]
                                        ELSE batch[c]
        /\ UNCHANGED results
        /\ upload'[b] # "idle"
    BY <1>3 DEF CreateBatchWithRecords, TypeOK
  <2>2. \A c \in Batch : RowsOf(c)' = RowsOf(c) /\ ErrorsOf(c)' = ErrorsOf(c)
    BY <2>1 DEF RowsOf, ErrorsOf, TasksOf
  <2>3. RowsOf(b) = {} /\ TasksOf(b) # {} /\ Cardinality({}) = 0
    BY <2>1, UploadAssumption, FS_EmptySet
  <2>4. /\ batch'[b].status = "processing" /\ batch'[b].processed = 0
        /\ \A c \in Batch : c # b => batch'[c] = batch[c]
    BY <2>1
  <2>5. \A c \in Batch : upload'[c] = "idle" => ~Present(c)'
    BY <1>0, <2>1, <2>4
  <2>6. CountersMatchRows'
    BY <2>2, <2>3, <2>4
  <2>7. StatusMatchesRows'
    BY <1>0, <2>2, <2>3, <2>4 DEF TasksOf
  <2> QED
    BY <2>5, <2>6, <2>7
<1>4. ASSUME NEW b \in Batch, FailBatch(b) PROVE CounterInv'
  <2> DEFINE row == [status |-> "failed", processed |-> batch[b].processed]
  <2>1. /\ UNCHANGED results
        /\ upload' = [upload EXCEPT ![b] = "rejected"]
        /\ batch' = batch \/ (Present(b) /\ batch' = [batch EXCEPT ![b] = row])
    BY <1>4 DEF FailBatch
  <2>2. row.status = "failed" /\ row.processed = batch[b].processed
    OBVIOUS
  <2> HIDE DEF row
  <2>3. /\ \A c \in Batch : batch'[c] = batch[c] \/ (c = b /\ Present(b) /\ batch'[c] = row)
        /\ upload'[b] = "rejected"
    BY <2>1 DEF TypeOK
  <2>4. \A c \in Batch : RowsOf(c)' = RowsOf(c) /\ ErrorsOf(c)' = ErrorsOf(c)
    BY <2>1 DEF RowsOf, ErrorsOf, TasksOf
  <2> QED
    BY <1>0, <2>2, <2>3, <2>4 DEF TasksOf
<1>5. ASSUME NEW t \in Task, HashAdded(t) PROVE UNCHANGED <<batch, results>>
  BY <1>5 DEF HashAdded
<1>6. ASSUME NEW t \in Task, NEW row \in {"ok", "error"}, RowAdded(t, row) PROVE CounterInv'
  BY <1>6, RowCounted
<1>7. ASSUME NEW n \in Number, MarkDiplomaRevoked(n) PROVE UNCHANGED <<batch, results>>
  BY <1>7 DEF MarkDiplomaRevoked
<1> QED
  BY <1>1, <1>2, <1>3, <1>4, <1>5, <1>6, <1>7, TableSteps DEF TableSame

LEMMA InitCounterInv == Init => CounterInv
  BY FS_EmptySet DEF Init, CounterInv, CountersMatchRows, StatusMatchesRows, Present, RowsOf,
     TasksOf

LEMMA CounterInvariant == Spec => []CounterInv
<1> QED
  BY InitCounterInv, NextCounterInv, TableInvariant, PTL DEF Spec

\* processed_records counts the rows of batch_results, however often a task is
\* delivered, whichever engine handles it and wherever one of them stops.
THEOREM CountersAreExact == Spec => []CountersMatchRows
<1>1. CounterInv => CountersMatchRows
  BY DEF CounterInv
<1> QED
  BY CounterInvariant, <1>1, PTL

\* The status a university reads of a batch is what its rows say.
THEOREM StatusIsTruthful == Spec => []StatusMatchesRows
<1>1. CounterInv => StatusMatchesRows
  BY DEF CounterInv
<1> QED
  BY CounterInvariant, <1>1, PTL

-----------------------------------------------------------------------------
(* A final status is final: all rows are there, and no step adds a second one. *)

FinalStep(b) ==
    \/ BatchVuz[b] \notin live'
    \/ /\ batch'[b] = batch[b]
       /\ \A t \in TasksOf(b) : results'[t] = results[t]

LEMMA FinishedStays ==
  ASSUME TableInv, CounterInv, [Next]_vars, NEW b \in Batch,
         upload[b] = "accepted", batch[b].status \in {"completed", "failed"}
  PROVE  FinalStep(b)
<1> TypeOK
  BY DEF TableInv, TypeInv
<1>0. \A t \in TasksOf(b) : t \in Task /\ TaskBatch[t] = b /\ results[t] # "none"
  BY DEF CounterInv, StatusMatchesRows, RowsOf, TasksOf
<1>1. CASE UNCHANGED <<batch, results>>
  BY <1>1 DEF FinalStep
<1>2. ASSUME NEW u \in University, DeleteCascade(u) PROVE FinalStep(b)
  <2>1. /\ live' = live \ {u}
        /\ \A c \in Batch : BatchVuz[c] # u => batch'[c] = batch[c]
        /\ \A t \in Task : TaskVuz(t) # u => results'[t] = results[t]
    BY <1>2 DEF DeleteCascade
  <2> QED
    BY <1>0, <2>1 DEF FinalStep, TaskVuz
<1>3. ASSUME NEW c \in Batch, CreateBatchWithRecords(c) \/ FailBatch(c) PROVE FinalStep(b)
  <2>1. c # b /\ UNCHANGED results
    BY <1>3 DEF CreateBatchWithRecords, FailBatch
  <2>2. batch'[b] = batch[b]
    BY <1>3, <2>1 DEF CreateBatchWithRecords, FailBatch, TypeOK
  <2> QED
    BY <2>1, <2>2 DEF FinalStep
<1>4. ASSUME NEW t \in Task, HashAdded(t) PROVE UNCHANGED <<batch, results>>
  BY <1>4 DEF HashAdded
<1>5. ASSUME NEW t \in Task, NEW row \in {"ok", "error"}, RowAdded(t, row)
      PROVE  FinalStep(b)
  <2>1. TaskBatch[t] # b
    BY <1>0, <1>5 DEF RowAdded, CanInsertRow, TasksOf
  <2> QED
    BY <1>0, <1>5, <2>1 DEF RowAdded, InsertRow, FinalStep, TypeOK
<1>6. ASSUME NEW n \in Number, MarkDiplomaRevoked(n) PROVE UNCHANGED <<batch, results>>
  BY <1>6 DEF MarkDiplomaRevoked
<1> QED
  BY <1>1, <1>2, <1>3, <1>4, <1>5, <1>6, TableSteps DEF TableSame

\* What a university downloads of a batch with a final status stays as it is, for
\* any number of engines, redeliveries and failing queries.
THEOREM FinishedBatchesStay == Spec => FinishedIsFinal
<1>1. TableInv /\ CounterInv /\ [Next]_vars =>
        [\A b \in Batch :
           upload[b] = "accepted" /\ batch[b].status \in {"completed", "failed"} =>
              FinalStep(b)]_vars
  BY FinishedStays
<1> QED
  BY <1>1, TableInvariant, CounterInvariant, PTL DEF Spec, FinishedIsFinal, FinalStep
=============================================================================
