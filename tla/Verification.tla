---------------------------- MODULE Verification ----------------------------
(***************************************************************************)
(* From the uploaded record to the public verifier: the gateway parses the *)
(* record, the engine hashes it and puts it into a QR code, and pubver     *)
(* recomputes the hash from the code before it looks the diploma up.       *)
(*                                                                         *)
(* Three programs must agree on one hash, and they do not treat white      *)
(* space alike.  So a field is a text with or without space around it, and *)
(* a hash is the tuple of what is hashed (no collisions; a "|" inside a    *)
(* field is left out).  Codes are the engine's: signed with the key that   *)
(* the university has for as long as it exists (SigningKeys), and sealed   *)
(* with a key that every service derives from a configured text (Secrets). *)
(***************************************************************************)
EXTENDS Naturals, FiniteSets, Secrets

CONSTANTS
    University,   \* ids of universities
    Text,         \* what a field may say
    Blank,        \* a field that says nothing
    Contains,     \* texts and the texts within them, upper and lower case alike
    Upload,       \* records that universities upload
    Request,      \* GET /api/v1/verify requests
    SearchLimit   \* the most that a search of the gateway lists: 50

FieldName == {"diploma_number", "full_name", "specialty", "degree", "faculty"}

Field == [text : Text \cup {Blank}, spaced : BOOLEAN]

Data == [FieldName -> Field]

ASSUME UploadAssumption ==
    /\ Blank \notin Text
    /\ Upload \subseteq [vuz : University, csv : BOOLEAN, data : Data]

ASSUME SearchAssumption ==
    /\ \A t \in Text : <<t, t>> \in Contains
    /\ SearchLimit \in Nat \ {0}

VARIABLES
    secrets,   \* configuration: the texts the services share
    live,      \* universities that exist
    status,    \* diploma_hashes: hash -> status
    rows,      \* batch_results: the row of each record
    codes,     \* codes that were ever given out
    request    \* the requests to the verifier

vars == <<secrets, live, status, rows, codes, request>>

-----------------------------------------------------------------------------
(* Fields *)

\* TrimSpace and trim.
Trim(field) == [text |-> field.text, spaced |-> FALSE]

IsBlank(field) == field.text = Blank

\* ValidateStruct: "required" refuses the empty string only, spaces pass; a
\* degree is one of three words.
Accepted(data) ==
    /\ \A f \in FieldName : data[f] # [text |-> Blank, spaced |-> FALSE]
    /\ ~data["degree"].spaced

\* Nothing to trim, anywhere.
Clean(data) == \A f \in FieldName : ~data[f].spaced

-----------------------------------------------------------------------------
(* The gateway and the engine *)

\* parseRecords: the fields of a CSV file are trimmed, those of JSON are not.
Parsed(up) == IF up.csv THEN [f \in FieldName |-> Trim(up.data[f])] ELSE up.data

\* derive_salt
Salt(u, data) == <<u, Trim(data["diploma_number"])>>

Hash == [vuz : University, data : Data, salt : University \X Field]

\* Mutant: the salt is left out.
DiplomaHash_NoSalt(u, data) == [vuz |-> u, data |-> data]

\* hash_diploma: the fields as they came.
DiplomaHash(u, data) == [vuz |-> u, data |-> data, salt |-> Salt(u, data)]

\* build_qr_claims: the hash in the open, the fields and the salt encrypted with
\* the key.
Code == [vuz : University, hash : Hash, data : Data, salt : University \X Field, key : Wide]

QrCode(u, data, key) ==
    [vuz |-> u, hash |-> DiplomaHash(u, data), data |-> data, salt |-> Salt(u, data),
     key |-> key]

PayloadKey == EngineKey(secrets.payload)

\* The code in the row of a record.
CodeOf(up) == QrCode(up.vuz, Parsed(up), PayloadKey)

Stored == {CodeOf(up) : up \in {x \in Upload : rows[x] = "ok"}}

\* The engine opens the private key that the gateway has sealed, and has a key
\* for the code.
Signable ==
    /\ GatewayKey(secrets.master) # None
    /\ EngineKey(secrets.master) = GatewayKey(secrets.master)
    /\ PayloadKey # None

Registered == DOMAIN status

\* UNIQUE(vuz_id, diploma_number): the number as it came.
NumberTaken(u, data) ==
    \E h \in Registered :
        h.vuz = u /\ h.data["diploma_number"] = data["diploma_number"]

\* process_inner: a blank number has no salt, a taken one belongs to another
\* diploma; both end in an error row and register nothing.
InsertDiplomaHash(up) ==
    LET data == Parsed(up) IN
    /\ up.vuz \in live
    /\ rows[up] = "none"
    /\ Accepted(data)
    /\ ~IsBlank(data["diploma_number"])
    /\ ~NumberTaken(up.vuz, data)
    /\ Signable
    /\ status' = [h \in Registered \cup {DiplomaHash(up.vuz, data)} |->
                     IF h \in Registered THEN status[h] ELSE "active"]
    /\ UNCHANGED <<secrets, live, rows, codes, request>>

\* persist_processing_result, later: the code can be downloaded from now on.
PersistResult(up) ==
    /\ rows[up] = "none"
    /\ CodeOf(up).hash \in Registered
    /\ rows' = [rows EXCEPT ![up] = "ok"]
    /\ codes' = codes \cup {CodeOf(up)}
    /\ UNCHANGED <<secrets, live, status, request>>

\* The same after an error of process_inner (failed queries: BatchPipeline).  The
\* gateway took the upload, so it has started.
PersistErrorRow(up) ==
    LET data == Parsed(up) IN
    /\ rows[up] = "none"
    /\ up.vuz \in live
    /\ Accepted(data)
    /\ GatewayKey(secrets.payload) # None /\ GatewayKey(secrets.master) # None
    /\ \/ IsBlank(data["diploma_number"])
       \/ NumberTaken(up.vuz, data) /\ DiplomaHash(up.vuz, data) \notin Registered
       \/ ~Signable
    /\ rows' = [rows EXCEPT ![up] = "error"]
    /\ UNCHANGED <<secrets, live, status, codes, request>>

MarkDiplomaRevoked(h) ==
    /\ h \in Registered
    /\ status' = [status EXCEPT ![h] = "revoked"]
    /\ UNCHANGED <<secrets, live, rows, codes, request>>

\* One transaction, hence one step for its readers; printed codes stay.
DeleteCascade(u) ==
    /\ u \in live
    /\ live' = live \ {u}
    /\ status' = [h \in {g \in Registered : g.vuz # u} |-> status[h]]
    /\ rows' = [up \in Upload |-> IF up.vuz = u THEN "none" ELSE rows[up]]
    /\ UNCHANGED <<secrets, codes, request>>

-----------------------------------------------------------------------------
(* VerificationService of pubver *)

\* DecryptEncryptedDiplomaPayload: the key, ...
Opens(name, c) == c.key = JWTEncKey(name, secrets.payload)

\* ... and what must be in it.
ValidPayload(data) ==
    \A f \in {"diploma_number", "full_name", "specialty"} : ~IsBlank(data[f])

\* Mutant: a field is forgotten.
RecomputedHash_NoFaculty(c) ==
    [vuz  |-> c.vuz,
     data |-> [f \in FieldName |-> IF f = "faculty" THEN [text |-> Blank, spaced |-> FALSE]
                                                    ELSE Trim(c.data[f])],
     salt |-> c.salt]

\* BuildRawDiplomaString: every field is trimmed; ids and salts have no space.
RecomputedHash(c) ==
    [vuz |-> c.vuz, data |-> [f \in FieldName |-> Trim(c.data[f])], salt |-> c.salt]

\* The checks between the two queries; sub is the same hash again.
Trusted(name, c) ==
    Opens(name, c) /\ ValidPayload(c.data) /\ RecomputedHash(c) = c.hash

\* FindByHash
Lookup(h) == IF h \in Registered THEN status[h] ELSE "not_found"

Answer == {"active", "revoked", "not_found"}

RequestState ==
    [pc : {"new", "lookup", "answered", "invalid", "error"},
     code : Code \cup {None},
     seen : Answer,        \* what the registry said when the request began
     answer : Answer]

\* FindUniversityVerificationKeyByID, and the checks that need no database, by
\* a pubver that got its key under the given variable and has started.
VerifyPayload(q, c, name) ==
    /\ request[q].pc = "new"
    /\ JWTEncKey(name, secrets.payload) # None
    /\ request' = [request EXCEPT ![q] =
                      [pc |-> IF c.vuz \in live /\ Trusted(name, c) THEN "lookup" ELSE "invalid",
                       code |-> c, seen |-> Lookup(c.hash), answer |-> "not_found"]]
    /\ UNCHANGED <<secrets, live, status, rows, codes>>

Respond(q, pc, answer) ==
    request' = [request EXCEPT ![q] = [pc |-> pc, code |-> request[q].code,
                                       seen |-> request[q].seen, answer |-> answer]]

\* Mutant: a signed code is believed when the registry does not know better.
FindByHash_Trusting(q) ==
    /\ request[q].pc = "lookup"
    /\ Respond(q, "answered",
               IF Lookup(request[q].code.hash) = "revoked" THEN "revoked" ELSE "active")
    /\ UNCHANGED <<secrets, live, status, rows, codes>>

FindByHash(q) ==
    /\ request[q].pc = "lookup"
    /\ Respond(q, "answered", Lookup(request[q].code.hash))
    /\ UNCHANGED <<secrets, live, status, rows, codes>>

\* Either query fails: the client gets 500.
VerifyError(q) ==
    /\ request[q].pc \in {"new", "lookup"}
    /\ Respond(q, "error", "not_found")
    /\ UNCHANGED <<secrets, live, status, rows, codes>>

\* FindByDiplomaNumber: the trimmed query against the stored numbers.  vuz_code is
\* unique, so u stands for it.
Matches(u, number) ==
    {h \in Registered : h.vuz = u /\ h.data["diploma_number"] = Trim(number)}

\* Mutant: a diploma without a row is not found.
Search_InnerJoin(name, u, number) ==
    LET found == {h \in Matches(u, number) : \E c \in Stored : c.hash = h} IN
    IF found = {} THEN "not_found"
    ELSE IF \E c \in Stored : c.hash \in found /\ ~(Opens(name, c) /\ ValidPayload(c.data)) THEN "error"
    ELSE status[CHOOSE h \in found : TRUE]

\* Search, one query: it need not find a code, but a code must be readable.
Search(name, u, number) ==
    LET found == Matches(u, number) IN
    IF found = {} THEN "not_found"
    ELSE IF \E c \in Stored : c.hash \in found /\ ~(Opens(name, c) /\ ValidPayload(c.data)) THEN "error"
    ELSE status[CHOOSE h \in found : TRUE]

-----------------------------------------------------------------------------
(* The gateway's own readers of the same tables, one query each *)

\* QRPayloadCodec.Open; of the fields it trims the name only.
GatewayOpens(c) == c.key = GatewayKey(secrets.payload)

\* The rows of SearchStudents and FindStudentByHash: diplomas with an "ok" row.
Listed == {h \in Registered : \E c \in Stored : c.hash = h}

Unreadable(h) == \E c \in Stored : c.hash = h /\ ~GatewayOpens(c)

\* The query of SearchStudents: by number, as typed, unless it is blank.
ByNumber(number) ==
    {h \in Listed : IsBlank(number) \/ h.data["diploma_number"] = number}

\* The filter of its loop: by name, or a part of one, without the spaces on either
\* side.
Named(found, name) ==
    {h \in found : IsBlank(name) \/ <<h.data["full_name"].text, name.text>> \in Contains}

\* Mutant: the limit is put into the query, before the filter.
Scanned_LimitInQuery(number, name) ==
    LET found == ByNumber(number) IN
    {read \in SUBSET found :
        \/ Cardinality(read) = SearchLimit
        \/ read = found /\ Cardinality(read) < SearchLimit}

\* The rows that the loop may have read when it ends: it breaks at the last result
\* that the limit allows, or has read all.  The newest come first; when a diploma
\* was registered is not modelled, so any may.
Scanned(number, name) ==
    LET found == ByNumber(number) IN
    {read \in SUBSET found :
        \/ Cardinality(Named(read, name)) = SearchLimit
        \/ read = found /\ Cardinality(Named(read, name)) < SearchLimit}

\* What a search may answer: one unreadable code among the rows it read fails all
\* of it.
SearchStudents(number, name) ==
    {[failed |-> \E h \in read : Unreadable(h), found |-> Named(read, name)] :
        read \in Scanned(number, name)}

FindStudentByHash(h) ==
    IF h \notin Listed THEN "not_found"
    ELSE IF Unreadable(h) THEN "error" ELSE status[h]

\* Mutant: the status is that of the row.
DownloadStatus_OfRow(up) == IF rows[up] = "ok" THEN "active" ELSE rows[up]

\* GetBatchDownloadRows: the status of the diploma if there is one, and the fields
\* as they were uploaded.
DownloadStatus(up) ==
    IF rows[up] # "error" /\ CodeOf(up).hash \in Registered
    THEN status[CodeOf(up).hash] ELSE rows[up]

-----------------------------------------------------------------------------

Init ==
    /\ secrets \in [payload : Secret, master : Secret]
    /\ live = University
    /\ status = [h \in {} |-> "active"]
    /\ rows = [up \in Upload |-> "none"]
    /\ codes = {}
    /\ request = [q \in Request |-> [pc |-> "new", code |-> None, seen |-> "not_found",
                                     answer |-> "not_found"]]

Next ==
    \/ \E up \in Upload : InsertDiplomaHash(up) \/ PersistResult(up) \/ PersistErrorRow(up)
    \/ \E h \in Registered : MarkDiplomaRevoked(h)
    \/ \E u \in University : DeleteCascade(u)
    \/ \E q \in Request : \/ \E c \in codes, name \in EnvName : VerifyPayload(q, c, name)
                          \/ FindByHash(q)
                          \/ VerifyError(q)

Spec == Init /\ [][Next]_vars

-----------------------------------------------------------------------------
(* Properties *)

\* Every variable has its type.
TypeOK ==
    /\ secrets \in [payload : Secret, master : Secret]
    /\ live \in SUBSET University
    /\ Registered \in SUBSET Hash
    /\ status \in [Registered -> {"active", "revoked"}]
    /\ codes \in SUBSET Code
    /\ rows \in [Upload -> {"none", "ok", "error"}]
    /\ request \in [Request -> RequestState]

\* A code without stray spaces is recognised and its diploma found, although the
\* engine hashes the fields as they are and the verifier trims them, unless its
\* university was deleted.
CleanCodesVerify ==
    \A q \in Request :
        /\ request[q].pc = "invalid" \/ (request[q].pc = "answered"
                                          /\ request[q].answer = "not_found")
        /\ Clean(request[q].code.data)
        => request[q].code.vuz \notin live

\* VerifyPayload reads the key and the diploma in two queries; what it answers is
\* never older than the request: no diploma that was revoked or deleted before
\* is confirmed.
AnswersAreFresh ==
    \A q \in Request : request[q].pc = "answered" =>
        /\ request[q].seen = "not_found" => request[q].answer = "not_found"
        /\ request[q].seen = "revoked" => request[q].answer # "active"

\* Both ways to verify a diploma of a record without stray spaces give one answer:
\* the search by number finds the diploma that the code names, from its
\* registration on.
SearchAgrees ==
    \A h \in Registered, name \in EnvName : Clean(h.data) =>
        Search(name, h.vuz, h.data["diploma_number"]) = Lookup(h)

\* Whatever text is configured, the code of a stored row opens with the key that
\* the gateway derives and with the key of any pubver, under any of its
\* variables.  One that did not would fail every search that lists it.
CodesOpen ==
    \A c \in Stored : GatewayOpens(c) /\ \A name \in EnvName : Opens(name, c)

\* A record reported "ok" is one diploma to all who read the tables: the download
\* and the share page show the status that the verifier gives, revocations
\* included.  A search by its number, with or without the name, does not fail and
\* lists no other diploma of its university; it leaves this one out only if more
\* universities have a diploma of that number and name than a search may list.
GatewayViewsAgree ==
    \A up \in Upload : rows[up] = "ok" =>
        LET h == DiplomaHash(up.vuz, Parsed(up))
            number == h.data["diploma_number"]
        IN  /\ DownloadStatus(up) = Lookup(h)
            /\ FindStudentByHash(h) = Lookup(h)
            /\ \A name \in {[text |-> Blank, spaced |-> FALSE], h.data["full_name"]} :
                  LET holders == {g.vuz : g \in Named(ByNumber(number), name)} IN
                  \A page \in SearchStudents(number, name) :
                     /\ ~page.failed
                     /\ \A g \in page.found : g.vuz = up.vuz => g = h
                     /\ h \in page.found \/ Cardinality(holders) > SearchLimit

\* As documented, the verifier recomputes the hash that the crypto service has
\* put into the code (pubver/README.md:32-38): no code of an existing university
\* is refused as an invalid payload.
IssuedCodesVerify ==
    \A q \in Request : request[q].pc = "invalid" => request[q].code.vuz \notin live

-----------------------------------------------------------------------------
(* The tables that the verifier and the gateway read are a diploma ledger: the
   one that the pipeline is shown to implement. *)

Number == University \X Field

HashesAt(n) == {h \in Registered : <<h.vuz, h.data["diploma_number"]>> = n}

HashAt(n) == CHOOSE h \in HashesAt(n) : TRUE

Ledger == INSTANCE DiplomaLedger
          WITH Task       <- Upload,
               NumberVuz  <- [n \in Number |-> n[1]],
               TaskNumber <- [up \in Upload |-> <<up.vuz, Parsed(up)["diploma_number"]>>],
               TaskHash   <- [up \in Upload |-> DiplomaHash(up.vuz, Parsed(up))],
               hash       <- [n \in Number |-> IF HashesAt(n) = {} THEN None ELSE HashAt(n)],
               status     <- [n \in Number |->
                                IF HashesAt(n) = {} THEN "absent" ELSE status[HashAt(n)]]

\* Hashes are stored and looked up by their text, numbers are unique as they were
\* uploaded: all the same every number has at most one diploma, an "ok" row is of
\* the diploma its number has, and a status only ever goes from active to revoked.
ImplementsLedger == Ledger!Spec
=============================================================================
