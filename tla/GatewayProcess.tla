-------------------------- MODULE GatewayProcess --------------------------
(***************************************************************************)
(* The life of the gateway process: APIServer.Start, with the bootstrap    *)
(* administrator and the demo university it makes at every start, the      *)
(* signal, the ten seconds in which the uploads in flight may end, the     *)
(* order in which things are closed; then the restart, over tables that    *)
(* have changed in the meantime.                                           *)
(*                                                                         *)
(* A university is what UpsertDemo looks at: its unique columns (ogrn goes *)
(* with inn), its status and its public key.  The result consumer is not   *)
(* waited for: a stop cuts it where it is, as a crash does (GatewayCrash   *)
(* of BatchPipeline).                                                      *)
(***************************************************************************)
EXTENDS Naturals

CONSTANTS
    University,   \* ids of universities
    Name,         \* values of a unique column
    Demo,         \* the one that is configured for the demo university
    Key,          \* signing keys
    Config,       \* configurations the gateway may be started with
    Upload,       \* POST /diplomas/upload requests
    MaxFaults,    \* how many faults in one behaviour (bound)
    None,         \* no row, no key, no path to one
    Unreadable    \* a path, and no key there

\* secrets: both keys can be derived (GatewayKey of Secrets).
ASSUME ConfigAssumption ==
    /\ Demo \in Name
    /\ Config \subseteq [secrets : BOOLEAN, admin : BOOLEAN,
                         demo : {"none", "incomplete", "full"},
                         key : Key \cup {None, Unreadable}]
    /\ None \notin Key /\ Unreadable \notin Key /\ None # Unreadable
    /\ MaxFaults \in Nat

VARIABLES
    admin,    \* platform_admins has the bootstrap administrator
    row,      \* universities
    config,   \* of the process, while there is one
    pc,       \* how far Start is, or how it ended
    open,     \* what it has opened and not closed
    upload,   \* the requests
    faults    \* faults injected so far

tables == <<admin, row>>
vars == <<tables, config, pc, open, upload, faults>>

-----------------------------------------------------------------------------
(* Values *)

Starting == {"dial", "admin", "demo", "key", "listen"}

Answering == {"serving", "draining"}

Closing == {"reader", "writer", "db"}

Running == Starting \cup Answering \cup Closing

Fields == [email : Name, code : Name, inn : Name]

Row == [id : Fields, status : {"pending", "active", "blocked"}, key : Key \cup {None}]

ASSUME NoneAssumption == None \notin Row

DemoFields == [email |-> Demo, code |-> Demo, inn |-> Demo]

Rows == {u \in University : row[u] # None}

Share(f, g) == f.email = g.email \/ f.code = g.code \/ f.inn = g.inn

\* Mutant: the e-mail alone is unique.
Fits_Email(u, f) == \A v \in Rows \ {u} : row[v].id.email # f.email

\* The unique columns let u have the fields f.
Fits(u, f) == \A v \in Rows \ {u} : ~Share(row[v].id, f)

InFlight == {r \in Upload : upload[r] \in {"create", "publish", "fail"}}

Fault ==
    /\ faults < MaxFaults
    /\ faults' = faults + 1

\* The process is gone, with all that was in flight.
Exit(how) ==
    /\ pc' = how
    /\ open' = {}
    /\ upload' = [r \in Upload |-> IF r \in InFlight THEN "cut" ELSE upload[r]]

\* Start returns an error and main calls log.Fatal; Docker starts it again.
Crash == Exit("crashed")

-----------------------------------------------------------------------------
(* Start *)

\* docker compose up: after a stop, with any configuration.
Up(c) ==
    /\ pc = "stopped"
    /\ config' = c
    /\ pc' = "dial"
    /\ UNCHANGED <<tables, open, upload, faults>>

\* restart: unless-stopped
Restart ==
    /\ pc = "crashed"
    /\ pc' = "dial"
    /\ UNCHANGED <<tables, config, open, upload, faults>>

\* configureDB, and the keys that configureRouter begins with.
ConfigureDB ==
    /\ pc = "dial"
    /\ IF config.secrets
       THEN pc' = "admin" /\ open' = {"db"} /\ UNCHANGED upload
       ELSE Crash
    /\ UNCHANGED <<tables, config, faults>>

\* UpsertBootstrap, unless the e-mail or the password is empty.
EnsureBootstrapAdmin ==
    /\ pc = "admin"
    /\ admin' = (admin \/ config.admin)
    /\ pc' = "demo"
    /\ UNCHANGED <<row, config, open, upload, faults>>

\* Mutant: the university is looked for by its e-mail only.
Found_ByEmail == {u \in Rows : row[u].id.email = Demo}

\* The SELECT of UpsertDemo: by e-mail, or else by code.
Found ==
    LET byEmail == {u \in Rows : row[u].id.email = Demo} IN
    IF byEmail # {} THEN byEmail ELSE {u \in Rows : row[u].id.code = Demo}

\* Mutant: the status is left as it is.
Demonstrated_KeepsStatus(u) ==
    [id |-> DemoFields, key |-> IF row[u] = None THEN None ELSE row[u].key,
     status |-> IF row[u] = None THEN "active" ELSE row[u].status]

\* What it makes of the row; a key stays.
Demonstrated(u) ==
    [id |-> DemoFields, key |-> IF row[u] = None THEN None ELSE row[u].key,
     status |-> "active"]

\* One transaction: an INSERT under a new id, or an UPDATE of the row found.
UpsertDemo ==
    \E u \in IF Found = {} THEN University \ Rows ELSE Found :
        IF Fits(u, DemoFields)
        THEN /\ row' = [row EXCEPT ![u] = Demonstrated(u)]
             /\ pc' = IF config.key = None THEN "listen" ELSE "key"
             /\ UNCHANGED <<open, upload>>
        ELSE Crash /\ UNCHANGED row

\* ensureDemoUniversity: all of the six values, or none.
EnsureDemoUniversity ==
    /\ pc = "demo"
    /\ CASE config.demo = "none" -> pc' = "listen" /\ UNCHANGED <<row, open, upload>>
         [] config.demo = "incomplete" -> Crash /\ UNCHANGED row
         [] config.demo = "full" -> UpsertDemo
    /\ UNCHANGED <<admin, config, faults>>

\* The rest of it: SigningKeyService.Upsert takes a first key or the same key.
EnsureDemoKey ==
    /\ pc = "key"
    /\ \E u \in Found :
          IF config.key # Unreadable /\ row[u].key \in {None, config.key}
          THEN /\ row' = [row EXCEPT ![u] = [id |-> row[u].id, status |-> row[u].status,
                                             key |-> config.key]]
               /\ pc' = "listen"
               /\ UNCHANGED <<open, upload>>
          ELSE Crash /\ UNCHANGED row
    /\ UNCHANGED <<admin, config, faults>>

Serve ==
    /\ pc = "listen"
    /\ pc' = "serving"
    /\ open' = {"db", "reader", "writer"}
    /\ UNCHANGED <<tables, config, upload, faults>>

\* A query of the start fails, or ListenAndServe returns, at once or later.
StartError ==
    /\ pc \in Starting \cup {"serving"}
    /\ Fault
    /\ Crash
    /\ UNCHANGED <<tables, config>>

\* SIGKILL, no memory left, or the signal before NotifyContext waits for it.
Kill ==
    /\ pc \in Running
    /\ Fault
    /\ \E how \in {"stopped", "crashed"} : Exit(how)
    /\ UNCHANGED <<tables, config>>

-----------------------------------------------------------------------------
(* The end of Start *)

Signal ==
    /\ pc = "serving"
    /\ pc' = "draining"
    /\ UNCHANGED <<tables, config, open, upload, faults>>

\* Mutant: nobody waits.
Shutdown_Close ==
    /\ pc = "draining"
    /\ pc' = "reader"
    /\ UNCHANGED <<tables, config, open, upload, faults>>

\* http.Server.Shutdown returns when no request is left, ...
Shutdown ==
    /\ pc = "draining"
    /\ InFlight = {}
    /\ pc' = "reader"
    /\ UNCHANGED <<tables, config, open, upload, faults>>

\* Mutant: Shutdown(context.Background()).
ShutdownTimeout_Never == FALSE /\ UNCHANGED vars

\* ... or after ten seconds with an error: nothing is closed, log.Fatal ends it.
ShutdownTimeout ==
    /\ pc = "draining"
    /\ InFlight # {}
    /\ Exit("stopped")
    /\ UNCHANGED <<tables, config, faults>>

\* kafkaReader.Close, kafkaWriter.Close, db.Close, and main returns.
Close ==
    /\ \/ /\ pc = "reader"
          /\ pc' = "writer"
          /\ open' = open \ {"reader"}
          /\ UNCHANGED upload
       \/ /\ pc = "writer"
          /\ pc' = "db"
          /\ open' = open \ {"writer"}
          /\ UNCHANGED upload
       \/ pc = "db" /\ Exit("stopped")
    /\ UNCHANGED <<tables, config, faults>>

-----------------------------------------------------------------------------
(* Requests.  A connection from before the signal may bring one after it. *)

UploadGoto(r, from, to) ==
    /\ upload[r] = from
    /\ pc \in Running
    /\ upload' = [upload EXCEPT ![r] = to]
    /\ UNCHANGED <<tables, config, pc, open, faults>>

Arrive(r) == pc \in Answering /\ UploadGoto(r, "new", "create")

CreateBatchWithRecords(r) ==
    UploadGoto(r, "create", "publish") \/ UploadGoto(r, "create", "answered")

PublishRawTasks(r) ==
    UploadGoto(r, "publish", "answered") \/ UploadGoto(r, "publish", "fail")

FailBatch(r) == UploadGoto(r, "fail", "answered")

SetRow(u, value) ==
    /\ pc \in Answering
    /\ row' = [row EXCEPT ![u] = value]
    /\ UNCHANGED <<admin, config, pc, open, upload, faults>>

\* UniversityRepository.Create
Register(u, f) ==
    /\ row[u] = None
    /\ Fits(u, f)
    /\ SetRow(u, [id |-> f, status |-> "pending", key |-> None])

UpdateStatus(u, s) ==
    /\ admin
    /\ u \in Rows
    /\ SetRow(u, [id |-> row[u].id, status |-> s, key |-> row[u].key])

DeleteCascade(u) ==
    /\ admin
    /\ u \in Rows
    /\ SetRow(u, None)

\* UpdatePublicKey, for a university that signs in: its first key or, when two of
\* its requests overlap, another one (SigningKeys).
UpdatePublicKey(u, k) ==
    /\ u \in Rows
    /\ row[u].status = "active"
    /\ SetRow(u, [id |-> row[u].id, status |-> row[u].status, key |-> k])

-----------------------------------------------------------------------------

Init ==
    /\ admin = FALSE
    /\ row = [u \in University |-> None]
    /\ config \in Config
    /\ pc = "stopped"
    /\ open = {}
    /\ upload = [r \in Upload |-> "new"]
    /\ faults = 0

StartStep ==
    \/ Restart \/ ConfigureDB \/ EnsureBootstrapAdmin \/ EnsureDemoUniversity
    \/ EnsureDemoKey \/ Serve

StopStep == Shutdown \/ ShutdownTimeout \/ Close

Next ==
    \/ \E c \in Config : Up(c)
    \/ StartStep
    \/ StartError
    \/ Kill
    \/ Signal
    \/ StopStep
    \/ \E r \in Upload : \/ Arrive(r) \/ CreateBatchWithRecords(r)
                         \/ PublishRawTasks(r) \/ FailBatch(r)
    \/ \E u \in University :
          \/ \E f \in Fields : Register(u, f)
          \/ \E s \in {"pending", "active", "blocked"} : UpdateStatus(u, s)
          \/ DeleteCascade(u)
          \/ \E k \in Key : UpdatePublicKey(u, k)

Spec == Init /\ [][Next]_vars

\* Docker restarts what has crashed, Start runs on, and the timer of Shutdown
\* fires.  Nothing makes a request end: its queries have no deadline.
Fairness == WF_vars(StartStep) /\ WF_vars(StopStep)

FairSpec == Spec /\ Fairness

-----------------------------------------------------------------------------
(* Properties *)

\* Every variable has its type, and no two universities share a unique column.
TypeOK ==
    /\ admin \in BOOLEAN
    /\ row \in [University -> Row \cup {None}]
    /\ \A u, v \in Rows : u # v => ~Share(row[u].id, row[v].id)
    /\ config \in Config
    /\ pc \in Running \cup {"stopped", "crashed"}
    /\ open \subseteq {"db", "reader", "writer"}
    /\ upload \in [Upload -> {"new", "create", "publish", "fail", "answered", "cut"}]
    /\ faults \in 0 .. MaxFaults

\* An upload never meets a closed pool or a closed writer: whatever arrives while
\* the server drains, Start closes them only when no upload is left.
InUseIsOpen ==
    \A r \in InFlight : "db" \in open /\ "writer" \in open

\* "... the demo university DEMO2026 with a configured signing key" (README.md:83)
\* is there from the first request on, after every start: whatever became of the
\* row, and of the administrators' decisions about it, before.
ServesTheDemo ==
    [][pc # "serving" /\ pc' = "serving" /\ config.demo = "full" =>
          \E u \in University : /\ row'[u] # None
                                /\ row'[u].id = DemoFields
                                /\ row'[u].status = "active"
                                /\ config.key # None => row'[u].key = config.key]_vars

\* After a signal the process ends, though a query of an upload may never return.
StopEnds == pc = "draining" ~> pc \in {"stopped", "crashed"}

Claims(u) == row[u] # None /\ Share(row[u].id, DemoFields)

\* No start can succeed: the configuration is wrong, the unique columns of the demo
\* university are spread over other universities, or the one that has them uses
\* a key of its own.
Unstartable ==
    \/ ~config.secrets
    \/ config.demo = "incomplete"
    \/ /\ config.demo = "full"
       /\ \/ config.key = Unreadable
          \/ \E u \in University : Claims(u) /\ row[u].id.email # Demo /\ row[u].id.code # Demo
          \/ \E u, v \in University : u # v /\ Claims(u) /\ Claims(v)
          \/ \E u \in University : Claims(u) /\ config.key # None /\ row[u].key \notin {None, config.key}

\* A start that meets no fault gives up only when no start could succeed, and then
\* none does: whatever became of the tables, and wherever the starts before it were
\* cut, the SELECT of UpsertDemo finds the row that its UPDATE can have.
StartsWhenItCan ==
    [][/\ pc \in Starting /\ pc' = "crashed" /\ faults' = faults => Unstartable
       /\ pc \in Starting /\ pc' = "serving" => ~Unstartable]_vars

\* A gateway that crashed, in the middle of its start too, serves again, unless it
\* was stopped or cannot start: what an interrupted start has left behind is no
\* obstacle to the next one.
ComesUpAgain == pc = "crashed" ~> pc \in {"serving", "stopped"} \/ Unstartable
=============================================================================
