----------------------- MODULE GatewayProcessProofs -----------------------
(***************************************************************************)
(* Proofs about GatewayProcess, for any universities, columns, keys,       *)
(* configurations, uploads and faults.                                     *)
(***************************************************************************)
EXTENDS GatewayProcess, TLAPS

(* The invariant.  An upload is in flight only while the server answers, and
   then everything is open; what the start has done so far for the demo
   university still stands, because nobody else runs before it serves. *)

OpenInv ==
    /\ pc \in Answering => open = {"db", "reader", "writer"}
    /\ InFlight # {} => pc \in Answering

DemoAt(u) == row[u] # None /\ row[u].id = DemoFields /\ row[u].status = "active"

\* What the start has found out about its configuration.
ConfigInv ==
    /\ pc \in {"admin", "demo", "key", "listen"} => config.secrets
    /\ pc \in {"key", "listen"} => config.demo # "incomplete"
    /\ pc = "listen" /\ config.demo = "full" => config.key # Unreadable

DemoInv ==
    /\ pc = "key" => config.demo = "full" /\ config.key # None
    /\ pc = "key" => \E u \in University : DemoAt(u)
    /\ pc = "listen" /\ config.demo = "full" =>
          \E u \in University : DemoAt(u) /\ (config.key # None => row[u].key = config.key)

ProcessInv == TypeOK /\ OpenInv /\ DemoInv

-----------------------------------------------------------------------------
(* Rows *)

LEMMA DemoFieldsTyped == DemoFields \in Fields
  BY ConfigAssumption DEF DemoFields, Fields

\* A value that fits may be written: the columns stay unique.
LEMMA WriteRow ==
  ASSUME TypeOK, NEW u \in University, NEW r \in Row, Fits(u, r.id),
         row' = [row EXCEPT ![u] = r]
  PROVE  /\ row' \in [University -> Row \cup {None}]
         /\ \A v, w \in Rows' : v # w => ~Share(row'[v].id, row'[w].id)
  BY DEF TypeOK, Fits, Rows, Share

\* So does a value that changes no column.
LEMMA RewriteRow ==
  ASSUME TypeOK, NEW u \in Rows, NEW r \in Row, r.id = row[u].id,
         row' = [row EXCEPT ![u] = r]
  PROVE  /\ row' \in [University -> Row \cup {None}]
         /\ \A v, w \in Rows' : v # w => ~Share(row'[v].id, row'[w].id)
  BY DEF TypeOK, Rows, Share

LEMMA DemonstratedTyped ==
  ASSUME TypeOK, NEW u \in University
  PROVE  Demonstrated(u) \in Row
  BY DemoFieldsTyped DEF TypeOK, Demonstrated, Row

\* Leaving takes what was in flight along.
LEMMA ExitClears ==
  ASSUME TypeOK, NEW how \in {"stopped", "crashed"}, Exit(how)
  PROVE  /\ pc' = how
         /\ open' = {}
         /\ upload' \in [Upload -> {"new", "create", "publish", "fail", "answered", "cut"}]
         /\ InFlight' = {}
  BY DEF TypeOK, Exit, InFlight

-----------------------------------------------------------------------------
(* Each step preserves the invariant *)

LEMMA ExitStep ==
  ASSUME ProcessInv, NEW how \in {"stopped", "crashed"}, Exit(how), UNCHANGED <<tables, config>>,
         faults' \in 0 .. MaxFaults
  PROVE  ProcessInv'
  BY ExitClears DEF ProcessInv, TypeOK, OpenInv, DemoInv, Answering, Running, Rows, tables

LEMMA UpsertDemoStep ==
  ASSUME ProcessInv, EnsureDemoUniversity
  PROVE  ProcessInv'
<1>0. TypeOK /\ faults' \in 0 .. MaxFaults /\ pc = "demo" /\ InFlight = {}
  BY DEF ProcessInv, OpenInv, EnsureDemoUniversity, TypeOK, Answering
<1>1. CASE config.demo = "none"
  BY <1>0, <1>1 DEF ProcessInv, EnsureDemoUniversity, TypeOK, OpenInv, DemoInv, Answering, Running,
     Starting, Rows, InFlight
<1>2. CASE config.demo = "incomplete"
  BY <1>0, <1>2, ExitStep DEF EnsureDemoUniversity, Crash, tables
<1>3. CASE config.demo = "full"
  <2>1. PICK u \in IF Found = {} THEN University \ Rows ELSE Found :
          IF Fits(u, DemoFields)
          THEN /\ row' = [row EXCEPT ![u] = Demonstrated(u)]
               /\ pc' = IF config.key = None THEN "listen" ELSE "key"
               /\ UNCHANGED <<open, upload>>
          ELSE Crash /\ UNCHANGED row
    BY <1>3 DEF EnsureDemoUniversity, UpsertDemo
  <2>2. u \in University /\ UNCHANGED <<admin, config, faults>>
    BY DEF EnsureDemoUniversity, Found, Rows
  <2>3. CASE ~Fits(u, DemoFields)
    BY <1>0, <2>1, <2>2, <2>3, ExitStep DEF Crash, tables
  <2>4. CASE Fits(u, DemoFields)
    <3>1. Demonstrated(u) \in Row /\ Demonstrated(u).id = DemoFields
      BY <1>0, <2>2, DemonstratedTyped DEF Demonstrated
    <3>2. /\ row' \in [University -> Row \cup {None}]
          /\ \A v, w \in Rows' : v # w => ~Share(row'[v].id, row'[w].id)
      BY <1>0, <2>1, <2>2, <2>4, <3>1, WriteRow
    <3>3. TypeOK'
      BY <1>0, <2>1, <2>2, <2>4, <3>2 DEF TypeOK, Running, Starting
    <3>4. OpenInv'
      BY <1>0, <2>1, <2>4 DEF OpenInv, InFlight, Answering
    <3>5. row'[u] = Demonstrated(u)
      BY <1>0, <2>1, <2>2, <2>4 DEF TypeOK
    <3>6. DemoAt(u)'
      BY <3>1, <3>5, NoneAssumption DEF DemoAt, Demonstrated, DemoFields
    <3>7. DemoInv'
      BY <1>3, <2>1, <2>2, <2>4, <3>6 DEF DemoInv
    <3> QED
      BY <3>3, <3>4, <3>7 DEF ProcessInv
  <2> QED
    BY <2>3, <2>4
<1> QED
  BY <1>0, <1>1, <1>2, <1>3, ConfigAssumption DEF TypeOK

LEMMA DemoKeyStep ==
  ASSUME ProcessInv, EnsureDemoKey
  PROVE  ProcessInv'
<1>0. /\ TypeOK /\ faults' \in 0 .. MaxFaults /\ pc = "key" /\ InFlight = {}
      /\ config.demo = "full" /\ UNCHANGED <<admin, config, faults>>
  BY DEF ProcessInv, OpenInv, DemoInv, EnsureDemoKey, TypeOK, Answering
<1>1. PICK u \in Found :
        IF config.key # Unreadable /\ row[u].key \in {None, config.key}
        THEN /\ row' = [row EXCEPT ![u] = [id |-> row[u].id, status |-> row[u].status,
                                           key |-> config.key]]
             /\ pc' = "listen"
             /\ UNCHANGED <<open, upload>>
        ELSE Crash /\ UNCHANGED row
  BY DEF EnsureDemoKey
<1>2. PICK w \in University : DemoAt(w)
  BY <1>0 DEF ProcessInv, DemoInv
<1>3. u = w
  <2>1. w \in Rows /\ row[w].id.email = Demo
    BY <1>2 DEF DemoAt, Rows, DemoFields
  <2>2. u \in Rows /\ row[u].id.email = Demo
    BY <2>1 DEF Found
  <2> QED
    BY <1>0, <2>1, <2>2 DEF TypeOK, Share
<1>4. CASE ~(config.key # Unreadable /\ row[u].key \in {None, config.key})
  BY <1>0, <1>1, <1>4, ExitStep DEF Crash, tables
<1>5. CASE config.key # Unreadable /\ row[u].key \in {None, config.key}
  <2> DEFINE r == [id |-> row[u].id, status |-> row[u].status, key |-> config.key]
  <2>1. u \in Rows /\ u \in University /\ row[u] \in Row
    BY <1>0, <1>2, <1>3 DEF DemoAt, Rows, TypeOK
  <2>2. r \in Row /\ r.id = row[u].id
    BY <1>0, <1>5, <2>1, ConfigAssumption DEF TypeOK, Row
  <2>3. row' = [row EXCEPT ![u] = r] /\ pc' = "listen" /\ UNCHANGED <<open, upload>>
    BY <1>1, <1>5
  <2>4. row'[u] = r /\ r # None
    BY <1>0, <2>1, <2>2, <2>3, NoneAssumption DEF TypeOK
  <2>5. r.status = "active" /\ r.key = config.key /\ r.id = DemoFields
    BY <1>2, <1>3 DEF DemoAt
  <2> HIDE DEF r
  <2>6. /\ row' \in [University -> Row \cup {None}]
        /\ \A v, x \in Rows' : v # x => ~Share(row'[v].id, row'[x].id)
    BY <1>0, <2>1, <2>2, <2>3, RewriteRow
  <2>7. TypeOK'
    BY <1>0, <2>3, <2>6 DEF TypeOK, Running, Starting
  <2>8. OpenInv'
    BY <1>0, <2>3 DEF OpenInv, InFlight, Answering
  <2>9. DemoAt(u)' /\ row'[u].key = config'.key
    BY <1>0, <2>4, <2>5 DEF DemoAt, DemoFields
  <2>10. DemoInv'
    BY <2>1, <2>3, <2>9 DEF DemoInv
  <2> QED
    BY <2>7, <2>8, <2>10 DEF ProcessInv
<1> QED
  BY <1>4, <1>5

LEMMA StartStepInv ==
  ASSUME ProcessInv,
         \/ \E c \in Config : Up(c)
         \/ StartStep
  PROVE  ProcessInv'
<1> USE DEF tables
<1>1. ASSUME NEW c \in Config, Up(c) PROVE ProcessInv'
  BY <1>1 DEF Up, ProcessInv, TypeOK, OpenInv, DemoInv, Answering, Running, Starting, Rows, InFlight
<1>2. CASE Restart
  BY <1>2 DEF Restart, ProcessInv, TypeOK, OpenInv, DemoInv, Answering, Running, Starting, Rows,
     InFlight
<1>3. CASE ConfigureDB
  <2>1. CASE config.secrets
    BY <1>3, <2>1 DEF ConfigureDB, ProcessInv, TypeOK, OpenInv, DemoInv, Answering, Running, Starting,
       Rows, InFlight
  <2>2. CASE ~config.secrets
    BY <1>3, <2>2, ExitStep DEF ConfigureDB, Crash, ProcessInv, TypeOK
  <2> QED
    BY <2>1, <2>2
<1>4. CASE EnsureBootstrapAdmin
  <2>1. admin' \in BOOLEAN
    BY <1>4 DEF EnsureBootstrapAdmin
  <2> QED
    BY <1>4, <2>1 DEF EnsureBootstrapAdmin, ProcessInv, TypeOK, OpenInv, DemoInv, Answering, Running,
       Starting, Rows, InFlight
<1>5. CASE Serve
  BY <1>5 DEF Serve, ProcessInv, TypeOK, OpenInv, DemoInv, Answering, Running, Starting, Rows,
     InFlight
<1> QED
  BY <1>1, <1>2, <1>3, <1>4, <1>5, UpsertDemoStep, DemoKeyStep DEF StartStep

LEMMA StopStepInv ==
  ASSUME ProcessInv, StartError \/ Kill \/ Signal \/ StopStep
  PROVE  ProcessInv'
<1> USE DEF tables
<1>0. faults' \in 0 .. MaxFaults
  BY ConfigAssumption DEF ProcessInv, TypeOK, StartError, Kill, Fault, Signal, StopStep, Shutdown,
     ShutdownTimeout, Close
<1>1. CASE StartError
  BY <1>0, <1>1, ExitStep DEF StartError, Crash
<1>2. CASE Kill
  BY <1>0, <1>2, ExitStep DEF Kill
<1>3. CASE Signal
  BY <1>3 DEF Signal, ProcessInv, TypeOK, OpenInv, DemoInv, Answering, Running, Rows, InFlight
<1>4. CASE Shutdown
  BY <1>4 DEF Shutdown, ProcessInv, TypeOK, OpenInv, DemoInv, Answering, Closing, Running, Rows,
     InFlight
<1>5. CASE ShutdownTimeout
  BY <1>0, <1>5, ExitStep DEF ShutdownTimeout
<1>6. CASE Close
  <2>1. CASE pc = "db"
    BY <1>0, <1>6, <2>1, ExitStep DEF Close
  <2>2. CASE pc # "db"
    BY <1>6, <2>2 DEF Close, ProcessInv, TypeOK, OpenInv, DemoInv, Answering, Closing, Running, Rows,
       InFlight
  <2> QED
    BY <2>1, <2>2
<1> QED
  BY <1>1, <1>2, <1>3, <1>4, <1>5, <1>6 DEF StopStep

LEMMA UploadStepInv ==
  ASSUME ProcessInv, NEW r \in Upload,
         Arrive(r) \/ CreateBatchWithRecords(r) \/ PublishRawTasks(r) \/ FailBatch(r)
  PROVE  ProcessInv'
<1>1. PICK from \in {"new", "create", "publish", "fail"},
           to \in {"create", "publish", "fail", "answered"} :
        UploadGoto(r, from, to) /\ (from = "new" => pc \in Answering)
  BY DEF Arrive, CreateBatchWithRecords, PublishRawTasks, FailBatch
<1>2. upload' = [upload EXCEPT ![r] = to] /\ upload[r] = from
  BY <1>1 DEF UploadGoto
<1>3. TypeOK'
  BY <1>1, <1>2 DEF ProcessInv, TypeOK, UploadGoto, tables, Rows
<1>4. pc \in Answering
  BY <1>1, <1>2 DEF ProcessInv, OpenInv, InFlight
<1>5. OpenInv' /\ DemoInv'
  BY <1>1, <1>4 DEF ProcessInv, OpenInv, DemoInv, UploadGoto, Answering
<1> QED
  BY <1>3, <1>5 DEF ProcessInv

LEMMA RowStepInv ==
  ASSUME ProcessInv, NEW u \in University,
         \/ \E f \in Fields : Register(u, f)
         \/ \E s \in {"pending", "active", "blocked"} : UpdateStatus(u, s)
         \/ DeleteCascade(u)
         \/ \E k \in Key : UpdatePublicKey(u, k)
  PROVE  ProcessInv'
<1>0. TypeOK /\ OpenInv
  BY DEF ProcessInv
<1>1. ASSUME NEW value, SetRow(u, value),
             /\ row' \in [University -> Row \cup {None}]
             /\ \A v, w \in Rows' : v # w => ~Share(row'[v].id, row'[w].id)
      PROVE  ProcessInv'
  <2>1. pc \in Answering /\ UNCHANGED <<admin, config, pc, open, upload, faults>>
    BY <1>1 DEF SetRow
  <2>2. TypeOK'
    BY <1>0, <1>1, <2>1 DEF TypeOK
  <2>3. OpenInv' /\ DemoInv'
    BY <1>0, <2>1 DEF OpenInv, DemoInv, InFlight, Answering
  <2> QED
    BY <2>2, <2>3 DEF ProcessInv
<1>2. ASSUME NEW f \in Fields, Register(u, f) PROVE ProcessInv'
  <2> DEFINE r == [id |-> f, status |-> "pending", key |-> None]
  <2>1. r \in Row /\ r.id = f
    BY DEF Row
  <2>2. SetRow(u, r) /\ Fits(u, f)
    BY <1>2 DEF Register
  <2> HIDE DEF r
  <2> QED
    BY <1>0, <1>1, <2>1, <2>2, WriteRow DEF SetRow
<1>3. ASSUME NEW s \in {"pending", "active", "blocked"}, UpdateStatus(u, s) PROVE ProcessInv'
  <2> DEFINE r == [id |-> row[u].id, status |-> s, key |-> row[u].key]
  <2>1. u \in Rows /\ row[u] \in Row
    BY <1>0, <1>3 DEF UpdateStatus, Rows, TypeOK
  <2>2. r \in Row /\ r.id = row[u].id
    BY <2>1 DEF Row
  <2>3. SetRow(u, r)
    BY <1>3 DEF UpdateStatus
  <2> HIDE DEF r
  <2> QED
    BY <1>0, <1>1, <2>1, <2>2, <2>3, RewriteRow DEF SetRow
<1>4. CASE DeleteCascade(u)
  <2>1. SetRow(u, None)
    BY <1>4 DEF DeleteCascade
  <2>2. /\ row' \in [University -> Row \cup {None}]
        /\ \A v, w \in Rows' : v # w => ~Share(row'[v].id, row'[w].id)
    BY <1>0, <2>1 DEF SetRow, TypeOK, Rows, Share
  <2> QED
    BY <1>1, <2>1, <2>2
<1>5. ASSUME NEW k \in Key, UpdatePublicKey(u, k) PROVE ProcessInv'
  <2> DEFINE r == [id |-> row[u].id, status |-> row[u].status, key |-> k]
  <2>1. u \in Rows /\ row[u] \in Row
    BY <1>0, <1>5 DEF UpdatePublicKey, Rows, TypeOK
  <2>2. r \in Row /\ r.id = row[u].id
    BY <2>1 DEF Row
  <2>3. SetRow(u, r)
    BY <1>5 DEF UpdatePublicKey
  <2> HIDE DEF r
  <2> QED
    BY <1>0, <1>1, <2>1, <2>2, <2>3, RewriteRow DEF SetRow
<1> QED
  BY <1>2, <1>3, <1>4, <1>5

-----------------------------------------------------------------------------

LEMMA ProcessInvariant == Spec => []ProcessInv
<1>1. ASSUME Init PROVE ProcessInv
  <2>1. Rows = {} /\ InFlight = {}
    BY <1>1 DEF Init, Rows, InFlight
  <2>2. admin \in BOOLEAN /\ open \subseteq {"db", "reader", "writer"}
    BY <1>1 DEF Init
  <2>3. row \in [University -> Row \cup {None}]
    BY <1>1 DEF Init
  <2>4. /\ upload \in [Upload -> {"new", "create", "publish", "fail", "answered", "cut"}]
        /\ faults \in 0 .. MaxFaults
    BY <1>1, ConfigAssumption DEF Init
  <2>5. TypeOK
    BY <1>1, <2>1, <2>2, <2>3, <2>4 DEF Init, TypeOK
  <2> QED
    BY <1>1, <2>1, <2>5 DEF Init, ProcessInv, OpenInv, DemoInv, Answering
<1>2. ProcessInv /\ [Next]_vars => ProcessInv'
  <2> SUFFICES ASSUME ProcessInv, [Next]_vars PROVE ProcessInv'
    OBVIOUS
  <2>1. CASE UNCHANGED vars
    BY <2>1 DEF vars, tables, ProcessInv, TypeOK, OpenInv, DemoInv, DemoAt, Rows, InFlight
  <2>2. CASE Next
    BY <2>2, StartStepInv, StopStepInv, UploadStepInv, RowStepInv DEF Next
  <2> QED
    BY <2>1, <2>2
<1> QED
  BY <1>1, <1>2, PTL DEF Spec

\* Every variable keeps its type and no two universities ever share a unique
\* column, whatever the starts write into the table.
THEOREM ProcessTyped == Spec => []TypeOK
<1>1. ProcessInv => TypeOK
  BY DEF ProcessInv
<1> QED
  BY <1>1, ProcessInvariant, PTL

\* Start closes the pool and the writer only when no upload is left that could
\* use them.
THEOREM NothingInUseIsClosed == Spec => []InUseIsOpen
<1>1. ProcessInv => InUseIsOpen
  BY DEF ProcessInv, OpenInv, InUseIsOpen
<1> QED
  BY <1>1, ProcessInvariant, PTL

LEMMA OnlyServeServes ==
  ASSUME ProcessInv, [Next]_vars, pc # "serving", pc' = "serving"
  PROVE  Serve
<1>1. ~EnsureDemoUniversity
  <2>1. config.demo \in {"none", "incomplete", "full"}
    BY ConfigAssumption DEF ProcessInv, TypeOK
  <2> QED
    BY <2>1 DEF EnsureDemoUniversity, UpsertDemo, Crash, Exit
<1> QED
  BY <1>1
  DEF Next, vars, Up, StartStep, Restart, ConfigureDB, Crash, Exit, EnsureBootstrapAdmin,
      EnsureDemoKey, StartError, Kill, Signal, StopStep, Shutdown, ShutdownTimeout, Close,
      Arrive, CreateBatchWithRecords, PublishRawTasks, FailBatch, UploadGoto, Register,
      UpdateStatus, DeleteCascade, UpdatePublicKey, SetRow

\* From the first request on the configured demo university is there, active, with
\* the configured key, after any history of the table.
THEOREM TheDemoIsServed == Spec => ServesTheDemo
<1>1. ProcessInv /\ [Next]_vars =>
        [pc # "serving" /\ pc' = "serving" /\ config.demo = "full" =>
            \E u \in University : /\ row'[u] # None
                                  /\ row'[u].id = DemoFields
                                  /\ row'[u].status = "active"
                                  /\ config.key # None => row'[u].key = config.key]_vars
  <2> SUFFICES ASSUME ProcessInv, [Next]_vars, pc # "serving", pc' = "serving",
                      config.demo = "full"
               PROVE  \E u \in University : /\ row'[u] # None
                                            /\ row'[u].id = DemoFields
                                            /\ row'[u].status = "active"
                                            /\ config.key # None => row'[u].key = config.key
    OBVIOUS
  <2>1. Serve
    BY OnlyServeServes
  <2> QED
    BY <2>1 DEF Serve, ProcessInv, DemoInv, DemoAt, tables
<1> QED
  BY <1>1, ProcessInvariant, PTL DEF Spec, ServesTheDemo

-----------------------------------------------------------------------------
(* When a start gives up. *)

LEMMA ConfigInvariant == Spec => []ConfigInv
<1>1. Init => ConfigInv
  BY DEF Init, ConfigInv
<1>2. ProcessInv /\ ConfigInv /\ [Next]_vars => ConfigInv'
  <2> SUFFICES ASSUME ProcessInv, ConfigInv, [Next]_vars PROVE ConfigInv'
    OBVIOUS
  <2>1. CASE UNCHANGED <<pc, config>>
    BY <2>1 DEF ConfigInv
  <2>2. CASE pc' \notin {"admin", "demo", "key", "listen"}
    BY <2>2 DEF ConfigInv
  <2>3. CASE ConfigureDB \/ EnsureBootstrapAdmin
    BY <2>3 DEF ConfigInv, ConfigureDB, EnsureBootstrapAdmin, Crash, Exit
  <2>4. CASE EnsureDemoUniversity
    <3>1. config.demo \in {"none", "incomplete", "full"}
      BY ConfigAssumption DEF ProcessInv, TypeOK
    <3>2. pc = "demo" /\ config' = config
      BY <2>4 DEF EnsureDemoUniversity
    <3>3. CASE config.demo = "none"
      BY <2>4, <3>2, <3>3 DEF ConfigInv, EnsureDemoUniversity
    <3>4. CASE config.demo = "incomplete"
      BY <2>4, <3>4 DEF ConfigInv, EnsureDemoUniversity, Crash, Exit
    <3>5. CASE config.demo = "full"
      <4>1. \/ pc' = "crashed" \/ pc' = "key"
            \/ pc' = "listen" /\ config.key = None
        BY <2>4, <3>5 DEF EnsureDemoUniversity, UpsertDemo, Crash, Exit
      <4> QED
        BY <3>2, <3>5, <4>1, ConfigAssumption DEF ConfigInv
    <3> QED
      BY <3>1, <3>3, <3>4, <3>5
  <2>5. CASE EnsureDemoKey
    BY <2>5 DEF ConfigInv, EnsureDemoKey, Crash, Exit
  <2> QED
    BY <2>1, <2>2, <2>3, <2>4, <2>5
    DEF Next, vars, Up, StartStep, Restart, Serve, StartError, Kill, Signal, StopStep,
        Shutdown, ShutdownTimeout, Close, Crash, Exit, Arrive, CreateBatchWithRecords,
        PublishRawTasks, FailBatch, UploadGoto, Register, UpdateStatus, DeleteCascade,
        UpdatePublicKey, SetRow
<1> QED
  BY <1>1, <1>2, ProcessInvariant, PTL DEF Spec

\* UpsertDemo fails only over columns that no UPDATE could take.
LEMMA UpsertGivesUp ==
  ASSUME TypeOK, config.demo = "full",
         NEW u \in IF Found = {} THEN University \ Rows ELSE Found, ~Fits(u, DemoFields)
  PROVE  Unstartable
<1>1. PICK v \in Rows \ {u} : Share(row[v].id, DemoFields)
  BY DEF Fits
<1>2. v \in University /\ Claims(v)
  BY <1>1 DEF Rows, Claims
<1>3. CASE Found = {}
  <2>1. row[v].id.email # Demo /\ row[v].id.code # Demo
    BY <1>1, <1>3 DEF Found
  <2> QED
    BY <1>2, <2>1 DEF Unstartable
<1>4. CASE Found # {}
  <2>1. u \in Rows /\ u \in University /\ (row[u].id.email = Demo \/ row[u].id.code = Demo)
    BY <1>4 DEF Found, Rows
  <2>2. Claims(u) /\ u # v
    BY <1>1, <2>1 DEF Claims, Rows, Share, DemoFields
  <2> QED
    BY <1>2, <2>1, <2>2 DEF Unstartable
<1> QED
  BY <1>3, <1>4

\* The key is refused only to a university that signs with another one.
LEMMA KeyGivesUp ==
  ASSUME ProcessInv, pc = "key", NEW u \in Found,
         ~(config.key # Unreadable /\ row[u].key \in {None, config.key})
  PROVE  Unstartable
<1>1. config.demo = "full" /\ config.key # None
  BY DEF ProcessInv, DemoInv
<1>2. u \in University /\ Claims(u)
  BY DEF Found, Rows, Claims, Share, DemoFields
<1> QED
  BY <1>1, <1>2 DEF Unstartable

LEMMA GivesUp ==
  ASSUME ProcessInv, [Next]_vars, pc \in Starting, pc' = "crashed", faults' = faults
  PROVE  Unstartable
<1>1. faults \in Nat /\ pc # "crashed" /\ pc \notin Answering \cup Closing
  BY ConfigAssumption DEF ProcessInv, TypeOK, Starting, Answering, Closing
<1>2. ConfigureDB \/ EnsureDemoUniversity \/ EnsureDemoKey
  <2>1. ~StartError /\ ~Kill
    BY <1>1 DEF StartError, Kill, Fault
  <2> QED
    BY <1>1, <2>1
    DEF Next, vars, Up, StartStep, Restart, EnsureBootstrapAdmin, Serve, Signal, StopStep,
        Shutdown, ShutdownTimeout, Close, Answering, Closing, Arrive, CreateBatchWithRecords,
        PublishRawTasks, FailBatch, UploadGoto, Register, UpdateStatus, DeleteCascade,
        UpdatePublicKey, SetRow
<1>3. CASE ConfigureDB
  BY <1>3 DEF ConfigureDB, Unstartable
<1>4. CASE EnsureDemoUniversity
  <2>1. CASE config.demo = "full"
    <3>1. PICK u \in IF Found = {} THEN University \ Rows ELSE Found : ~Fits(u, DemoFields)
      BY <1>4, <2>1 DEF EnsureDemoUniversity, UpsertDemo
    <3> QED
      BY <2>1, <3>1, UpsertGivesUp DEF ProcessInv
  <2>2. CASE config.demo # "full"
    BY <1>4, <2>2, ConfigAssumption DEF EnsureDemoUniversity, ProcessInv, TypeOK, Unstartable
  <2> QED
    BY <2>1, <2>2
<1>5. CASE EnsureDemoKey
  BY <1>5, KeyGivesUp DEF EnsureDemoKey
<1> QED
  BY <1>2, <1>3, <1>4, <1>5

LEMMA Succeeds ==
  ASSUME ProcessInv, ConfigInv, pc = "listen"
  PROVE  ~Unstartable
<1>1. config.secrets /\ config.demo # "incomplete"
  BY DEF ConfigInv
<1>2. ASSUME config.demo = "full"
      PROVE  /\ config.key # Unreadable
             /\ \E u \in University : /\ DemoAt(u) /\ (config.key # None => row[u].key = config.key)
                                      /\ \A v \in University : Claims(v) => v = u
  <2>1. PICK u \in University : DemoAt(u) /\ (config.key # None => row[u].key = config.key)
    BY <1>2 DEF ProcessInv, DemoInv
  <2>2. ASSUME NEW v \in University, Claims(v) PROVE v = u
    BY <2>1, <2>2 DEF ProcessInv, TypeOK, Rows, Claims, DemoAt
  <2> QED
    BY <1>2, <2>1, <2>2 DEF ConfigInv
<1> QED
  BY <1>1, <1>2 DEF Unstartable, DemoAt, DemoFields

\* For any history of the tables and of earlier starts, a start that meets no fault
\* fails if and only if no start could have succeeded.
THEOREM StartsAreExact == Spec => StartsWhenItCan
<1>1. ProcessInv /\ ConfigInv /\ [Next]_vars =>
        [/\ pc \in Starting /\ pc' = "crashed" /\ faults' = faults => Unstartable
         /\ pc \in Starting /\ pc' = "serving" => ~Unstartable]_vars
  <2>1. ASSUME ProcessInv, ConfigInv, [Next]_vars, pc \in Starting, pc' = "serving"
        PROVE  ~Unstartable
    <3>1. pc = "listen"
      BY <2>1, OnlyServeServes DEF Serve, Starting
    <3> QED
      BY <2>1, <3>1, Succeeds
  <2> QED
    BY <2>1, GivesUp
<1> QED
  BY <1>1, ProcessInvariant, ConfigInvariant, PTL DEF Spec, StartsWhenItCan
=============================================================================
