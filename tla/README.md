# Diasoft in TLA+

Diasoft lets universities upload registers of diplomas, signs every diploma with the
university's Ed25519 key, and lets employers and students verify them by QR code or by
number. This directory specifies and verifies its core: the path of an uploaded batch
through two services, PostgreSQL and Kafka, the keys the diplomas are signed with, the
links under which students show them, the public verifier that answers for them and its
rate limiter, who may act for a university, and how the gateway starts and stops.
Paths below are relative to the repository.

## 1. Inventory of the system

| Component | State it keeps | Operations | Talks to |
|---|---|---|---|
| **Batch upload** (`gateway-service/internal/service/diplomas.go`, `diploma_repository.go`, `infrastructure/kafka/producer.go`) | `batches`, `batch_records`; the requests queued in one shared kafka-go `Writer` | `Upload` = `CreateBatchWithRecords`, `PublishRawTasks` (15 s, 3 attempts), `FailBatch`; `GetBatch`, `ListBatches`, `DownloadBatch` only read | PostgreSQL, topic `diplomas.raw_tasks` |
| **Cryptography engine** (`cryptography-engine-rs/src/kafka`, `db`, `main.rs`) | consumer-group offset; `diploma_hashes`, `batch_results`, counters of `batches` | `consume`, `process`, `process_inner`, `persist_processing_result`, `send_result`, `commit_message` | both topics, PostgreSQL |
| **Result consumer** (`gateway-service/internal/infrastructure/kafka/consumer.go`) | its group's offset; the same tables | `ResultConsumer.Start`, `ApplyProcessingResult` | topic `diplomas.processing_results`, PostgreSQL |
| **Diploma registry** (`diploma_repository.go`, `university_repository.go`) | `diploma_hashes` (hash, number, active or revoked) | registration, `MarkDiplomaRevoked`, `SearchStudents`, `FindStudentByHash`, `DeleteCascade` | PostgreSQL |
| **Signing keys** (`service/signing_keys.go`, `signing_key_repository.go`) | `universities.public_key`, `university_signing_keys` | `Upsert`, `Status` | PostgreSQL; read by the engine and by pubver |
| **Share links** (`service/student.go`, `infrastructure/token/jwt_manager.go`) | `share_links` (token, expiry, uses) | `CreateShareLink`, `RenderShareQR`, `ResolveShareLink` | registry |
| **Access and university life cycle** (`middleware.go`, `auth.go`, `admin.go`, `api_keys.go`) | `universities.status`, `api_keys`, JWTs in clients' hands | register, activate, block, login, issue API keys, `ensureUniversityIsActive` | every gateway handler |
| **Public verifier** (`pubver`) | none (reads the registry) | `VerifyPayload`, `Search` | PostgreSQL |
| **Rate limiter** (`pubver/internal/httpapi/middleware.go`) | a token bucket per client | `reserve`, cancel, `cleanupVisitors` | pubver's handlers |
| **Start-up and shutdown** (`app/apiserver/apiserver.go`, `cmd/apiserver/main.go`, `university_repository.go`) | the bootstrap administrator, the demo university and its key; what is open | `Start`: `configureDB`, `EnsureBootstrapAdmin`, `ensureDemoUniversity`, listen, `Shutdown` (10 s), `Close` | PostgreSQL, Kafka; Docker restarts it |
| **Shared secrets** (`qr_payload_codec.go`, `pubver/internal/config/config.go`, `kafka/diploma.rs`) | none: texts in the environment | three derivations of an AES key | what one service seals another opens |
| **Parsing, Excel, QR images; primitives; frontend** | none of their own | formatting, encryption, presentation | |

### How the parts interact

A university sends records to the gateway. `Upload` stores batch and records in one
transaction, then publishes one task per record. An engine reads tasks in order; for each
it reads the key, computes the hash, looks the number up, inserts the hash (a statement of
its own), then in a transaction inserts the record's row and moves the batch's counter and
status, then sends a result message, then commits the offset. The gateway consumes those
results and applies them to the same tables the engine has already written. Meanwhile
universities revoke diplomas and change keys, and the administrator deletes universities.

### What is hard, and what correctness means

- Two services write the same counters. *A batch's counter and status must equal what its
  rows say* (`CountersMatchRows`, `StatusMatchesRows`).
- Hash and row are written apart, with other engines between. *A record reported `ok` must
  be registered with its own hash* (`OkRowRegistered`).
- Kafka redelivers; rebalances put one task in two engines' hands; the writer's retry and its
  timeout publish twice or after a refusal. *Nothing may be counted twice; rows are decided
  once; a revoked diploma stays revoked* (`ImplementsLedger`).
- Offsets are cumulative, and owners come and go. *No commit may pass over unfinished work,
  and what is unfinished is in somebody's reach* (`NoTaskSkipped`, `WorkIsInHand`).
- A university downloads a batch once its status is final. *From then on nothing of it may
  change* (`FinishedIsFinal`).
- *Every record of an accepted upload must get its row* (`AcceptedUploadSettles`).
- Results come late, twice, or contradict the row. *Applying one must change nothing*
  (`ResultsChangeNothing`).
- A key upload is two statements. *The halves must belong together, be chosen once, and stored
  tokens must stay verifiable* (`PrivateHasPublic`, `SignaturesVerify`, `ImplementsKeyRing`).
- A link is issued, expires, is visited and goes with its university in separate statements.
  *It must open its diploma in time and only in time, only as it is, and every answer must be
  counted* (`LinksOpen`, `AnswersInTime`, `AnswersAreFresh`, `UsesCountAnswers`,
  `LinksHaveDiplomas`).
- Gateway, engine and verifier treat white space differently, and the verifier reads in two
  queries. *A genuine code must be recognised, its answer must not be older than the request,
  the search by number must agree, and the tables under all this must stay a registry*
  (`CleanCodesVerify`, `AnswersAreFresh`, `SearchAgrees`, `ImplementsLedger`).
- Tokens and API keys outlive the status they were issued under, and rows are inserted while
  a university is being deleted. *Nothing is done for a university that was not active since
  the request came, and a deletion leaves nothing behind* (`DoneWhileActive`,
  `RowsHaveUniversities`).
- The limiter throws idle buckets away and cancels reservations outside its mutex. *No client
  may get more than the rate and a burst, who waits as long as it was told is let through, and
  who sends one request at a time notices none of it* (`AdmittedWithinRate`,
  `RetryAfterHonoured`, `ImplementsBucket`).
- The batch is committed before its tasks are published, by a writer that retries and times
  out. *An upload that is answered with 202 is in the topic, all of it*
  (`AcceptedIsPublished`).
- Three programs derive one key from one text by rules of their own, and one row that does
  not open fails a whole search; a search stops at 50 results. *What is stored opens
  everywhere, and all who read a diploma say the same of it, a search by its number unless more
  universities share it than fit* (`CodesOpen`, `GatewayViewsAgree`).
- Every start writes into the tables, over whatever became of them since; a start may be cut
  anywhere and is repeated. *It must get through if any start can, and serve with what is
  configured* (`StartsWhenItCan`, `ComesUpAgain`, `ServesTheDemo`).
- Requests run and arrive while the server shuts down. *Nothing in use may be closed, and the
  process must end all the same* (`InUseIsOpen`, `StopEnds`).

`PROJECT.json` lists every hazard at its line with the properties that cover it.

## 2. Plan

Most important first.

| Module | What it is | Main claims |
|---|---|---|
| `BatchPipeline` | upload, engines, result consumer, registry, topics, faults | counters, status, registry, delivery, liveness |
| `DiplomaLedger` | abstract registry; `BatchPipeline` and `Verification` refine it | rows decided once, hash fixed, revocation final |
| `SigningKeys` | the two writes of a key against signing and deletion | halves match, tokens verify |
| `KeyRing` | abstract key of a university; `SigningKeys` refines it for those that wait for their answers | chosen once, published before it is used, carried by every token |
| `ShareLinks` | issue, insert, parse, find, count, with the clock and the deletion in between | links open in time and not later, answers fresh and counted |
| `Verification` | from the record to the code, and `VerifyPayload` and `Search` on it | clean codes verify, fresh answers, search agrees |
| `RateLimiter` | buckets, overlapping requests, cancelled reservations, eviction | rate and burst kept, Retry-After honoured |
| `TokenBucket` | abstract bucket; `RateLimiter` refines it for clients that wait for their answers | admitted exactly when the tokens are there |
| `Access` | registration, the administrator, log-in, API keys, the middleware and the deletion in between | nothing done for who was not active, no row left behind |
| `Secrets` | the three derivations of a key; extended by `Verification` | they agree whenever the engine has a key |
| `GatewayProcess` | `APIServer.Start` with what it writes, signals, crashes, restarts, uploads in flight | nothing in use closed, demo university served, stops end, crashes recover |
| `BatchPipelineProofs`, `DeliveryProofs`, `SigningKeysProofs`, `ShareLinksProofs`, `VerificationProofs`, `RateLimiterProofs`, `AccessProofs`, `GatewayProcessProofs` | theorems | section 6 |

Each component has its proof module; `DeliveryProofs` continues `BatchPipelineProofs` with the
argument about offsets. `Verification` composes with the others through facts proved there:
the key under a code never changes (`KeyRing`, implemented by `SigningKeys`), and its tables
follow the ledger that `BatchPipeline` implements (`DiplomaLedger`, implemented by both): its
short registry does nothing that the registry the pipeline fills may not do. `GatewayProcess` is
what `GatewayCrash` of `BatchPipeline` and `Restart` of `Access` say in one step.

What is left:

1. A composition of `Access` with the upload: what becomes of the queued tasks of a
   university that is blocked (today they are processed).
2. The administrators' own log-in and tokens in `Access`.
3. The registry of `ShareLinks` as a refinement of `DiplomaLedger`, like that of `Verification`.

## 3. The modules and the code

### `BatchPipeline`

One action is one SQL statement outside a transaction, one transaction, or one broker
call, so that everything another process may do between two of them is explored.

| Variables | Code |
|---|---|
| `live`, `keyed` | rows of `universities`, of `university_signing_keys` |
| `batch` | `batches.status`, `.processed_records` (`"absent"`: no row) |
| `results` | `batch_results` by (batch, record index): `none`, `ok`, `error` |
| `hash`, `diploma` | `diploma_hashes` by (university, number): hash and status |
| `upload` | how far each `POST` of a batch is |
| `queue`, `attempts`, `unpublished` | the kafka-go writer: unfinished produce requests, failed attempts of the first, batches it reports an error for |
| `rawLog`, `committed`, `owner`, `position` | raw topic, group offset, member that has the partition, its fetch position |
| `engine` | per engine: the next call, the task, `ok`/`error` so far, the message's offset |
| `resLog`, `gateway` | results topic; the gateway's consumer |
| `faults` | faults so far |

| Actions | Code |
|---|---|
| `CreateBatchWithRecords`, `PublishRawTasks`, `PublishSucceeds`, `PublishFails`, `PublishTimeout`, `FailBatch` | `DiplomaService.Upload`, with the writer's `WriterDeliver` and `WriterError` in between |
| `Assign`, `Takeover`, `EngineCrash`, `GatewayCrash` | group assignment, rebalance, death of a process |
| `Fetch`, `Identify`, `Register`, `CheckPersisted`, `Persist`, `SendResult`, `CommitMessage` | `consume` → `process` → `process_inner` → `persist_processing_result` → `send_result` → `commit_message` |
| `InnerError`, `PersistError` | a query fails before or after its effect: inside `process_inner` it becomes an error result; in the transaction it leaves the handler through `?` |
| `GatewayFetch`, `ApplyProcessingResult`, `ApplyError`, `GatewayCommit` | `ResultConsumer.Start` |
| `UpsertSigningKey`, `MarkDiplomaRevoked`, `DeleteCascade` | the other writers of these tables |

Abstractions. A hash is a model value per record; equal hashes mean equal numbers
(`DataAssumption`: the number is hashed and SHA-256 has no collisions). Salt, signature and QR
token are determined by the hash. `ApplyProcessingResult` takes `readable`, whether the QR
payload it decodes names the number, as a free choice. Each topic has one partition. The two
reads of `Identify` are one step: only a deletion could part them and it ends in the same
error. Messages that do not decode are left out: both producers encode all they send.

### `DiplomaLedger`

The registry as its readers know it: `Issue`, `Accept`, `Reject`, `Revoke`, `Purge` over
`live`, `rows`, `hash`, `status`. `BatchPipeline!ImplementsLedger` is its specification under
the mapping `rows <- results`, `status <- diploma`; uploads, topics, engines and counters
are hidden and their steps stutter. `Verification!ImplementsLedger` is the same specification
over tables that are keyed by the hash: a number is the text as it was uploaded, and its
hash is the one registered under it. That one is proved and has no run: it would repeat, at
three times the cost, the states of `codes`.

### `SigningKeys`

`publicKey` and `privateKey` are the two columns; a key pair is one value, so matching halves
are equal. A request (`request[r]`) goes through `FindByID` (read and comparison),
`UpdatePublicKey` and `UpsertPrivateKey`; `Interrupted` cuts it after any statement.
`GetUniversityKey` is an engine that reads the key and signs, `StoreToken` the row it stores
later, and `DeleteCascade` may come between any two. `Overlap` is the set of universities
that may have two requests in flight. The gateway does nothing to prevent it: to be outside
`Overlap` is an assumption about the client.

`KeyRing` is what is left of this for the universities outside `Overlap`: `Publish`, `Enable`,
`Issue`, `Retire` of one key, under the mapping `key <- publicKey`, `usable <- privateKey`,
`tokens <- signed`. Requests, retries, cuts and the tokens in engines' hands are hidden.

### `ShareLinks`

| Actions | Code |
|---|---|
| `CheckDiploma`, `IssueShareToken`, `CreateShareLink`, `ShareError` | `StudentService.CreateShareLink` (also the first part of `RenderShareQR`): look the diploma up, make the token, insert the row |
| `ParseShareToken`, `FindShareLink`, `FindStudentByHash`, `IncrementShareLinkUsage`, `ResolveError` | `ResolveShareLink`: check the JWT, find the row and compare its expiry, look the diploma up, count |
| `RegisterDiploma`, `MarkDiplomaRevoked`, `DeleteShareLinks`, `DeleteHashes` | the registry; `DeleteCascade` in two steps, because a link may be inserted between its DELETEs, and then the foreign key rolls it back |
| `Tick` | the clock, in half seconds: the JWT knows whole seconds, the row the exact time |

A token is what goes into it: hash, issue second, expiry second; equal claims make equal
tokens (HS256 is deterministic) and `UNIQUE(token)` refuses the second. The registry is that
of `BatchPipeline` in short: status, whether the row of the record is there too, and that an
identifier of a deleted university is not used again. A query that fails may have had its
effect. QR rendering comes after the link and keeps no state. A request whose token is taken
ends in an error (500), as in the code: asking twice within a second for one lifetime fails.

### `Verification`

| Operators and actions | Code |
|---|---|
| `Parsed`, `Accepted` | `parseRecords` (CSV is trimmed, JSON is not) and the validator |
| `Salt`, `DiplomaHash`, `QrCode` | `derive_salt` (trims the number), `hash_diploma` (trims nothing), `build_qr_claims` |
| `InsertDiplomaHash`, `PersistResult`, `MarkDiplomaRevoked`, `DeleteCascade` | the writers of the two tables that the verifier reads, one step each; `BatchPipeline` has them in detail |
| `PersistErrorRow`, `Signable` | the row of a record that `process_inner` refuses, also because no key can be derived |
| `VerifyPayload`, `FindByHash`, `VerifyError` | `VerificationService.VerifyPayload`: the key query with all checks (`ValidPayload`, `RecomputedHash`), the registry query, the failure of either |
| `Matches`, `Search` | `VerificationService.Search` (a single query, hence an operator) |
| `ByNumber`, `Named`, `Scanned`, `SearchStudents` | the gateway's student search: its query, the filter by name, the rows that its loop reads before it stops at the limit, the answers it may give |
| `FindStudentByHash`, `DownloadStatus` | the other readers of the same tables in the gateway, one query each: share page, Excel download |

A field is a text (or nothing) with or without white space around it: that is all the three
programs treat differently. The year is left out, it is a number everywhere. A hash is the
tuple of what is hashed. `codes` are all codes ever given out, `Stored` those in the database:
a printed code outlives its university. `secrets` are the two configured texts (for codes and
for private keys), any of `Secret`, fixed for the behaviour; each request goes to a pubver that
got its key under one of the four variables. The gateway's search stops at `SearchLimit`
results (50 in the code), counted after the filter by name, newest rows first. When a diploma was
registered is not modelled, so `Scanned` has every set of rows that the loop may have read, in
whatever order; rows behind the last one read do no harm even if they are unreadable.
`Contains` says which names a typed name is part of. Only genuine codes are presented; what rejects others
(signature, cipher) is taken as perfect.

### `Secrets`

A text is what the decoders make of it: `hex`, padded base64 (`std`), unpadded (`raw`), or
nothing, each of 32 bytes (`Wide`) or not. `EngineKey` takes strict base64 of 32 bytes and
nothing else, without trimming, and fails with every task otherwise; `GatewayKey` tries
hexadecimal, then base64, then hashes what it has; `JWTEncKey` does the same with unpadded
base64 in addition, or demands base64, as the variable says. `SecretAssumption` excludes that a
text is 32 bytes in hexadecimal and in base64: 64 digits are 48 bytes of base64.

### `RateLimiter`

| Variables and actions | Code |
|---|---|
| `visitors`, `lastCleanup` | the fields of `ipRateLimiter` |
| `Arrive` | `withRateLimit` up to `time.Now()` |
| `Reserve` | `reserve` under the mutex, with `cleanupVisitors`, and the decision |
| `CancelAt` | the refusal, outside the mutex; `mapped` tells whether the limiter it cancels with is still the one in the map |
| `Tick` | the clock |

`Level`, `Reserved` and `Cancelled` are `advance`, `ReserveN` and `CancelAt` of
`golang.org/x/time/rate`. A tick earns one unit and a token is `Cost` units, so everything is
an integer; the code's floating point is not modelled. A request is at most `MaxLag` ticks
in the middleware. `Overlap` are the clients that do not wait for their answers: of their
refused requests in flight the one that is cancelled first gets nothing back, which the code
accepts, so `RetryAfterHonoured` leaves them out. A request that read the clock earlier may
take the mutex later and set the limiter back; `backwards` records for whom it happened, and
`AdmittedWithinRate` leaves those clients out: of what they may get it says nothing. `paid` is the time that has paid for what was
let through: the rate is kept as long as it does not pass the clock. Which header
names the client (`extractClientIP`) is not modelled, and `/healthz` is not limited.

`TokenBucket` is a bucket per client, nothing else: `Ask`, then `Admit` or `Refuse`, as the
tokens at the moment of asking decide. For clients outside `Overlap` `RateLimiter` implements
it under `empty <- paid`, `asked <-` the times at which requests without a decision came; the
visitors, their eviction, reservations and cancellations are hidden.

### `Access`

| Actions | Code |
|---|---|
| `Register`, `UpdateStatus` | `AuthService.Register`; approval and `UpdateUniversityStatus` |
| `Restart` | the gateway goes down with what it has in flight and `ensureDemoUniversity` activates the demo university, whatever an administrator has decided |
| `DeleteBatches`, `DeleteUniversity` | `DeleteCascade` before and after the DELETE of the batches; the foreign key rolls it back if one was inserted meanwhile, and API keys go by ON DELETE CASCADE |
| `FindByEmail`, `IssueAccessToken`, `Expire` | `Login`, with the status read before the token is made; its expiry |
| `Arrive`, `ParseAccessToken`, `FindByID`, `ResolveActiveUniversity` | `Middleware.JWT` and `UniversityOrAPIKey`: a good token goes to `ensureUniversityIsActive`, without one an API key is looked up in one query |
| `Act`, `RequestError` | what the handler inserts or updates; any failure on the way |

A token or a key is who made it and for whom: signatures and hashes are taken as perfect.
Expiry is an action of its own, free to happen at any time. `wasActive` records, per request,
who was active since it arrived. Only one `DeleteCascade` of a university is at work at a
time: a second one waits for the first or finds nothing to delete. The administrator's own
log-in and token are left out.

### `GatewayProcess`

| Variables | Code |
|---|---|
| `admin`, `row` | `platform_admins`; `universities` with its unique columns, status and public key |
| `config` | the settings of this process: can keys be derived, is the administrator, the demo university, its key file configured |
| `pc`, `open` | where `Start` is, or how the process ended; pool, reader and writer |
| `upload` | `POST /diplomas/upload` between its calls |

| Actions | Code |
|---|---|
| `Up`, `Restart` | `main`, by hand with any configuration, or by Docker after a crash with the same |
| `ConfigureDB`, `EnsureBootstrapAdmin`, `EnsureDemoUniversity` (`UpsertDemo`), `EnsureDemoKey`, `Serve` | `Start`, one step per transaction; an error of any is `log.Fatal` |
| `StartError`, `Kill` | failing queries, a port in use; SIGKILL |
| `Signal`, `Shutdown`, `ShutdownTimeout`, `Close` | the end of `Start`: wait for the requests; after 10 s give up and exit with nothing closed; or close reader, writer and pool in this order |
| `Arrive`, `CreateBatchWithRecords`, `PublishRawTasks`, `FailBatch` | an upload, which may also arrive on an open connection while the server drains |
| `Register`, `UpdateStatus`, `DeleteCascade`, `UpdatePublicKey` | what may become of the demo university's row while the gateway serves |

`ogrn` goes with `inn`; `Unreadable` is a key file that is missing or no Ed25519 key. The two
statements of a key upload are one here (`SigningKeys` has them). The result consumer is not
waited for by `Start`: a stop cuts it anywhere, as `GatewayCrash` of `BatchPipeline` does.

## 4. Runs

| Run | Instance | Shows |
|---|---|---|
| `two_batches` | 2 batches, 3 records, 2 of them with one number and different data; 2 engines; 1 fault of any of the six kinds | types, counters, status and registry agree, accepted uploads are in the topic, results change nothing, and the ledger is implemented while batches compete |
| `settles` | 1 batch, 2 records in 1 produce request, 2 engines, 1 broker, timeout, crash or rebalance fault, fair | no skipped task, unfinished work in reach, finished batches unchanged, and every accepted record gets its row |
| `racing_insert` | 1 record, 2 engines, 1 rebalance | **violation** of `InsertIsIdempotent` |
| `stalled_batch` | 1 record, 1 engine, 1 failing query, fair | **violation** of `AcceptedUploadSettles` |
| `keys` | 2 universities, 5 requests, 2 keys; one university waits for its answers, the other does not | no private key is alone; for the one that waits stored tokens verify and `KeyRing` is implemented |
| `key_mismatch` | the same | **violation** of `HalvesMatch` |
| `links` | 1 diploma, 2 requests (lifetimes 0.5 s and the default 1.5 s), 2 visits, 2 s of time | no link dangles, none is refused in time, no late and no stale answer, `used_count` under concurrent visits |
| `codes` | 2 universities, the records below, every pair of the secrets below, 1 request | clean codes verify, fresh answers, search agrees; stored codes open everywhere; gateway and verifier say the same, with a search that cannot list all |
| `refused_code` | the same | **violation** of `IssuedCodesVerify` |
| `limiter` | 2 clients, one of which overlaps 2 requests; burst of 2 tokens of 2 ticks, 6 ticks | bucket never above the burst, rate kept across evictions, Retry-After honoured, `TokenBucket` implemented for the client that waits |
| `access` | 2 universities with one e-mail and the demo university; a log-in, a request for an API key, an upload | e-mails unique, nothing done for who was not active, no row left behind |
| `process` | 2 universities with 2 values per column, 2 keys, 6 configurations, 1 upload, 2 faults; fair | columns unique, nothing in use closed, demo university served, a start fails only where none can succeed, stops end, crashes recover |

### Bounds and why they are enough

- *Records and batches.* A batch of two has a record before, at and after completion; two
  batches with one number meet every conflict of the registry's keys. A third record repeats
  a state of the counter; the proofs cover any number.
- *Engines.* Two are what a race needs: they meet at each statement of `process`. They are
  interchangeable (symmetry), except in the fair runs, where symmetry would be unsound.
- `MaxFaults` (1): each kind of fault meets every state of two competing batches. Several
  faults at once (a duplicate handled by two engines, with a lost commit on top) are left to
  the proofs, which hold for every `MaxFaults` and every set of kinds.
- `MaxAttempts = 2` in `settles` instead of 3: one attempt that is retried and one that is the
  last; elsewhere 1, so that the one fault can fail a request.
- *Requests for a key.* Three in turn of one university with two keys, one repeated: the
  first key, a retry of it and a competing one; two at once of another with the same keys.
- *Share links.* Time runs in half seconds, so that a fraction exists to be lost; `MaxTime`
  lets the shorter link expire while the longer is alive. Two visits meet each other on the
  counter and the registry at every statement, and are interchangeable. A third visit
  repeats the second; the proofs cover any number, any lifetimes and any clock.
- *Records.* A clean one, one each with space around the name and around the number, one
  with a field and one with a number of nothing but spaces, two from CSV, one that another
  university shares; two numbers collide only after trimming. The proofs cover any records.
  `SearchLimit` (1) is below the two universities that share a number, so a search leaves one
  of them out; but the name of the second contains that of the first and not the other way
  round, so by its name it must be found. The proofs cover any limit.
  One request: requests only read, so two never meet.
- *Secrets.* A text for each way the derivations differ: proper base64, the same with white
  space or a stray line break, hexadecimal, unpadded base64, free text, blank. The proofs cover
  any texts.
- *Processes.* Two universities can hold the demo university's columns between them in every
  way; two faults cut a start and its repetition. One upload suffices, uploads do not meet in
  this module; the proofs cover any number.
- *Limiter.* The TTL (5) is the shortest the theorem allows, time to refill (4) plus
  `MaxLag` (1); with 3 `AdmittedWithinRate` fails. `MaxTime` (6) lets a client fill, drain,
  idle past the TTL and return. `MaxDebt` (1 unit): refused requests that overlap lose
  tokens, and without a bound the debt would grow for ever; a client deeper in debt waits.
  Two requests are what an overlap takes. The proofs need none of these bounds.
- *Access.* Two universities may hold one e-mail after each other, and the demo university
  lives beside them, so a request may carry a token of one and a key of another (the first two are
  interchangeable: symmetry). One
  request of each kind: they interact only through the rows, tokens and keys they make.
- *Logs* need no bound: tasks and faults bound them. `CHECK_DEADLOCK FALSE`, because the
  system rests when uploads, tasks and requests are used up.

### Violations

- `InsertIsIdempotent` (`db/repository.rs:83`): documented as idempotent via ON CONFLICT, it
  is a plain INSERT; after a rebalance the second engine records an error for a diploma
  that is registered.
- `AcceptedUploadSettles` (`kafka/diploma.rs:84`): a failing `persist_processing_result`
  returns before `send_result`; neither row nor result is ever written and the batch stays
  `processing`. The consumer logs "message will be redelivered" (`kafka/consumer.rs:65`), but
  does not read the message again while it runs, and the next message's commit moves the
  offset past it.
- `HalvesMatch` (`signing_keys.go:77`): two first uploads with different keys both see no
  public key; public A and private B may be stored, and every token is then rejected.
- `IssuedCodesVerify` (`pubver/pkg/verifyhash/hash.go:73`): one hash formula is documented,
  but the verifier trims the fields and the engine does not. A JSON upload with a space
  around a field passes the validator, and its genuine code is refused with 400.

## 5. Fairness

`FairSpec` of `BatchPipeline` (the runs `settles` and `stalled_batch`): weak fairness of
`UploadStep(b)`, `WriterDeliver` and `ResultStep`: goroutines that are never blocked by
another process. Weak fairness of `EngineStep(e)`: an engine that is up runs, one that died is
restarted (`restart: unless-stopped` in the compose file) and the group assigns it the free
partition. Nothing is assumed of requests, of the administrator or of faults, which end with
their budget: the claim is *if faults stop, records settle*. `settles` has no failing
query; with one the claim is false (`stalled_batch`).

`FairSpec` of `GatewayProcess` (the run `process`): weak fairness of `StartStep` (`Start` runs on,
and Docker restarts what crashed) and of `StopStep` (`Shutdown` returns, its timer fires, `Close`
returns). Nothing is assumed of the uploads: their queries have no deadline, and `StopEnds`
holds because of the timer. `ComesUpAgain` exempts what is `Unstartable`: a wrong configuration,
a demo university whose columns others hold, or one that has another key.

## 6. Proofs

All for arbitrary constants under the named `ASSUME`s of the modules.

| Theorem | Statement | Argument |
|---|---|---|
| `BatchPipelineProofs!TypeCorrect` | `Spec => []TypeOK` | `TypeInv` adds that an engine with a message holds a task and, from `check` on, an outcome, and that the gateway's position is inside its topic |
| `OkRowsAreRegistered` | `Spec => []OkRowRegistered` | `TableInv` = `TypeInv` with `RefInv` (foreign keys: batches, rows and hashes only of live universities) and `HolderInv` (an engine that is about to store `ok` holds a record whose hash is registered, or its university is gone; whoever sends has a decided record; so is every result in the topic). The row and the hash are written apart, so the invariant must speak of what engines hold in between |
| `ResultsNeverChangeTables` | `Spec => ResultsChangeNothing` | from the last two parts of `HolderInv` |
| `CountersAreExact`, `StatusIsTruthful` | `Spec => []CountersMatchRows`, `[]StatusMatchesRows` | `CounterInv` adds that an idle upload has no batch; `TableSteps` sorts the steps into those that add a row, delete a university or leave the tables alone; cardinalities of finite sets |
| `FinishedBatchesStay` | `Spec => FinishedIsFinal` | a final status means that every record has its row (`CounterInv`), so no row can be added (the kinds of `TableSteps` again) |
| `PipelineImplementsLedger` | `Spec => ImplementsLedger` | each kind of `TableSteps` is a step of the ledger or stutters, given `TableInv` |
| `DeliveryProofs!CommitsFollowWork` | `"db" \notin FaultKinds` ⇒ `Spec => []NoTaskSkipped` | `StartedInv` (what is queued or in the topic belongs to a created batch) and `OffsetInv` (everything before a message in an engine's hands, and before the owner's position, is decided). The condition is necessary: a task whose queries fail is left behind, as in `stalled_batch` |
| `AcceptedWorkIsInHand` | `"db" \notin FaultKinds` ⇒ `Spec => []WorkIsInHand` | a published task that is not decided is not before the owner's position unless it is the one in hand, and never before the committed offset (`OffsetInv` with the invariant of `AcceptedUploadsArePublished`). It is the safety half of `AcceptedUploadSettles` |
| `AcceptedUploadsArePublished` | `Spec => []AcceptedIsPublished` | what an upload has queued is in the queue or in the topic until the writer reports an error for its batch |
| `SigningKeysProofs!KeysTyped` | `Spec => []TypeOK` | directly |
| `PublicKeyComesFirst` | `Spec => []PrivateHasPublic` | a request about to store the private key has a public key before it |
| `SignaturesVerifyInTurn` | `Spec => []SignaturesVerify` | `TurnInv`, of the universities outside `Overlap`: halves match, a request alone knows what the row holds, and what engines hold verifies as long as the university lives. For the others it is false: `key_mismatch` |
| `KeysImplementKeyRing` | `Spec => ImplementsKeyRing` | step by step from `TurnInv`: the second statement of a request only ever enables the key that is published, or leaves it as it is |
| `ShareLinksProofs!LinksTyped`, `NoLinkDangles` | `Spec => []TypeOK`, `[]LinksHaveDiplomas` | `TablesInv`: types, tokens in hands are tokens, and registered diplomas have live universities; `DeleteHashes` is the critical step |
| `AnswersComeInTime`, `AnswersStayFresh` | `Spec => []AnswersInTime`, `[]AnswersAreFresh` | `OpenInv`, one part per request and per visit: a token given away has its link and diploma or its university is gone for good; what a visit has seen can only have been revoked or deleted since; `2 exp <= 2 iat + 1 + ttl` from the rounding of `NumericDate` |
| `LinksOpenInTime` | `Spec => []LinksOpen` | `LifeInv` on top of `OpenInv`: the row expires no earlier than its token, a diploma listed when the link was asked for stays listed as long as its university, and a visit is refused only with the time or the university gone |
| `UsesAreCounted` | `Spec => []UsesCountAnswers` | inductive with `OpenInv`: a new link's token is in no visitor's hands; cardinalities |
| `VerificationProofs!HashesAgreeOnCleanData` | the recomputed hash is the code's hash ⇔ no field has outer white space | equality of the two tuples field by field |
| `VerificationTyped`, `CleanCodesAreRecognised`, `VerdictsAreFresh` | `Spec => []TypeOK`, `[]CleanCodesVerify`, `[]AnswersAreFresh` | `IInv`: registered hashes are the engine's and of existing universities, with one per number (`RegistryInv`); a code given out has its diploma or its university is gone for good (`CodesInv`); what a request has seen can only have been revoked or deleted since (`RequestInv`) |
| `SearchFindsTheDiploma` | `Spec => []SearchAgrees` | from `RegistryInv`: a clean number matches one hash, and its stored codes are readable |
| `VerifiedTablesAreALedger` | `Spec => ImplementsLedger` | from `IInv`: one registered hash per number, so `hash` and `status` of the ledger are functions of the number, and a row is `ok` only with its own hash registered |
| `DerivationsAgree` | if `EngineKey(s)` is a key, `GatewayKey(s)` and `JWTEncKey(name, s)` are the same key | a text of 32 bytes in strict base64 is not 32 bytes in hexadecimal |
| `CodesAlwaysOpen`, `GatewayViewsAreTrue` | `Spec => []CodesOpen`, `[]GatewayViewsAgree` | from `DerivationsAgree`, since a stored code was sealed with the engine's key; and from `RegistryInv` and `FiniteInv` (the registry is finite): one registered hash per university and number, so that a full page and a diploma that is not on it are of more universities than the page holds (`FullPage`, by counting) |
| `RateLimiterProofs!LimiterTyped` | `Spec => []TypeOK` | no step puts more than `Full` into a bucket |
| `RateIsKept` | `VisitorTTL >= Full + MaxLag` ⇒ `Spec => []AdmittedWithinRate` | a bucket that is not set back is a line, `last` less what is in it, that only requests move; refused requests still to be cancelled lie apart on it, and what was let through stays below the lowest point their cancellation can bring it back to (`Steady`). A client without a visitor has been idle long enough to have a full bucket (`EmptyInv`, `SeenInv`): this is what the TTL is for |
| `RetryAfterIsKept` | `Spec => []RetryAfterHonoured` | `AloneInv`: a client that waits has one request, its cancellation puts the bucket back exactly, and by the time it was told a token is there |
| `LimiterImplementsBucket` | `VisitorTTL >= Full + MaxLag` ⇒ `Spec => ImplementsBucket` | `IdealInv`: the line of a visitor outside `Overlap` is exactly `paid`, plus a token while one of its requests is being refused, and its limiter is never set back; with `EmptyInv` a new limiter holds what the old one would have held |
| `AccessProofs!AccessTyped`, `NothingForTheBlocked`, `DeletionIsComplete` | `Spec => []TypeOK`, `[]DoneWhileActive`, `[]RowsHaveUniversities` | `SeenInv`: a request in flight has in its history every university that is active now, so what the middleware reads stays true of the history while the handler runs |
| `GatewayProcessProofs!ProcessTyped`, `NothingInUseIsClosed`, `TheDemoIsServed` | `Spec => []TypeOK`, `[]InUseIsOpen`, `ServesTheDemo` | `OpenInv` (an upload is in flight only while the server answers, and then all is open) and `DemoInv` (what the start has done so far stands, as nobody else writes before it serves; the row with the demo e-mail is one, by the unique columns) |
| `StartsAreExact` | `Spec => StartsWhenItCan` | with `ConfigInv` (what the start has found out about its configuration) each step that can fail fails exactly under one disjunct of `Unstartable` (`UpsertGivesUp`, `KeyGivesUp`), and one that gets to listen has met none of them. It takes `None # Unreadable`: no key file is not a bad one |

Model-checked only: `AcceptedUploadSettles`, `StopEnds`, `ComesUpAgain` (liveness under
fairness), and that the counterexamples to `InsertIsIdempotent`, `AcceptedUploadSettles`,
`HalvesMatch` and `IssuedCodesVerify` exist. Beyond the prover altogether: liveness, `ENABLED`, induction over
data and recursive operators; the modules use none of the latter two.

## 7. Not modelled

- More than one partition: order across partitions is not promised by the code; within one
  it is what is modelled.
- A database that loses committed data, a broker that loses acknowledged messages.
- The formats of CSV and JSON, the layout of Excel files and QR images, the routing table and
  the frontend: no state of the services. That an empty upload is refused (`parseRecords`) is
  an assumption (`UploadAssumption`).
- The servers of pubver and of the engine: pubver keeps nothing, and the engine's consumer is
  not told to stop, so its end is `EngineCrash` at any statement.
- A secret that is changed between two starts: codes sealed with the old one open nowhere.
- Administrators' log-in and tokens. Profile, statistics and lists only read.
- The queued tasks of a university that is blocked: the engine processes them, it never
  looks at the status.
- A `|` inside a field, which could make two records hash alike; the metadata `Search` shows
  (its documentation still speaks of `batch_record_attributes`, pubver/README.md:213, while
  the code takes them from the stored code).

### Observations without a run

- A gateway that dies between `CreateBatchWithRecords` and the publication leaves a batch in
  `processing` for ever (`upload = "lost"`): `AcceptedIsPublished` and `AcceptedUploadSettles`
  speak of accepted uploads.
- The engine's README (line 353) documents a key of 64 hexadecimal digits; the code decodes
  base64 (`kafka/diploma.rs:194`) and refuses the 48 bytes that such a text gives, so that no
  diploma is signed (`EngineKey` is `None`).
- After a change of the payload secret one old row makes every gateway search fail that reads
  it (`failed` in `SearchStudents`): one without a number, unless 50 newer results come first.
- The gateway crashes at every start, for as long as the table stays as it is, if another
  university registers under the demo university's INN, or under its e-mail while a second one
  has its code, or if the demo university has uploaded a key of its own (`Unstartable`).
- A university that registers with the bootstrap administrator's e-mail can never log in:
  administrators are looked up first (`service/auth.go:68`).
