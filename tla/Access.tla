------------------------------- MODULE Access -------------------------------
(***************************************************************************)
(* Who may act for a university: registration, the administrator's         *)
(* decisions, log-in, API keys, and the middleware between a request and   *)
(* its handler.  Credentials outlive the status they were issued under, so *)
(* the middleware looks the university up for every request; the status    *)
(* may still change between that query and what the handler does.          *)
(*                                                                         *)
(* One action is one statement or one step between two.  The deletion of a *)
(* university is a transaction of two steps: a batch may be inserted       *)
(* between them.                                                           *)
(***************************************************************************)
EXTENDS Naturals

CONSTANTS
    University,       \* ids of universities; an id is never used twice
    Email,            \* e-mail addresses
    UniversityEmail,  \* university -> its e-mail
    DemoEmail,        \* DEMO_UNIVERSITY_EMAIL
    Request,          \* requests to the gateway
    RequestKind,      \* request -> what it asks for
    None              \* no credential, no university

\* POST /auth/login; POST /vuz/api-keys, PUT /vuz/signing-key; POST
\* /diplomas/upload, PATCH /diplomas/{hash}/revoke.
VuzKind == {"apikey", "signkey"}

DiplomaKind == {"upload", "revoke"}

ASSUME DataAssumption ==
    /\ UniversityEmail \in [University -> Email]
    /\ DemoEmail \in Email
    /\ RequestKind \in [Request -> {"login"} \cup VuzKind \cup DiplomaKind]
    /\ None \notin University
    /\ None \notin [by : Request, vuz : University]

VARIABLES
    status,     \* universities.status, or that the row is not there
    batches,    \* rows of batches, by the upload that made them
    keys,       \* rows of api_keys, by the request that made them
    tokens,     \* access tokens given out, by the log-in
    expired,    \* those past their expiry
    purging,    \* universities a DeleteCascade is at work on
    removed,    \* the batches that transaction has deleted, not committed
    request,    \* the requests
    wasActive   \* history: the universities active at a time since the arrival

tables == <<status, batches, keys, purging, removed>>
vars == <<tables, tokens, expired, request, wasActive>>

-----------------------------------------------------------------------------
(* Values *)

Status == {"absent", "pending", "active", "blocked", "deleted"}

\* A batch, an API key or a token: the request that made it, and for whom.
Made == [by : Request, vuz : University]

Live == {u \in University : status[u] \in {"pending", "active", "blocked"}}

Active == {u \in University : status[u] = "active"}

Of(u, rows) == {x \in rows : x.vuz = u}

InFlight == {r \in Request : request[r].pc \notin {"new", "done", "refused"}}

\* The status of u becomes s, and the requests in flight have seen it.
SetStatus(u, s) ==
    /\ status' = [status EXCEPT ![u] = s]
    /\ wasActive' = [r \in Request |->
          IF s = "active" /\ r \in InFlight THEN wasActive[r] \cup {u} ELSE wasActive[r]]

Ended(pc, u) == [pc |-> pc, token |-> None, key |-> None, vuz |-> u]

\* The request goes on, as university u.
Goto(r, pc, u) ==
    request' = [request EXCEPT ![r] =
                  [pc |-> pc, token |-> request[r].token, key |-> request[r].key, vuz |-> u]]

\* It is answered with an error, or without one.
Refuse(r) == request' = [request EXCEPT ![r] = Ended("refused", None)]

Finish(r) == request' = [request EXCEPT ![r] = Ended("done", request[r].vuz)]

-----------------------------------------------------------------------------
(* The rows of universities *)

\* Mutant: there is no unique index on the e-mail.
EmailFree_Always(e) == e \in Email

EmailFree(e) == \A u \in Live : UniversityEmail[u] # e

\* AuthService.Register: e-mails are unique.
Register(u) ==
    /\ status[u] = "absent"
    /\ EmailFree(UniversityEmail[u])
    /\ SetStatus(u, "pending")
    /\ UNCHANGED <<batches, keys, purging, removed, tokens, expired, request>>

\* AdminService.ApproveUniversity and UpdateUniversityStatus.
UpdateStatus(u, s) ==
    /\ u \in Live
    /\ SetStatus(u, s)
    /\ UNCHANGED <<batches, keys, purging, removed, tokens, expired, request>>

\* A restart of the gateway cuts the requests in flight, and
\* ensureDemoUniversity makes the demo university, or activates it again.  That
\* UpsertDemo may also take over the row with its vuz_code is in GatewayProcess.
Restart(u) ==
    /\ UniversityEmail[u] = DemoEmail
    /\ u \in Live \/ (status[u] = "absent" /\ EmailFree(DemoEmail))
    /\ status' = [status EXCEPT ![u] = "active"]
    /\ request' = [r \in Request |->
         IF r \in InFlight THEN Ended("refused", None) ELSE request[r]]
    /\ purging' = {}
    /\ removed' = {}
    /\ UNCHANGED <<batches, keys, tokens, expired, wasActive>>

\* DeleteCascade up to the deletion of the batches that are there now.
DeleteBatches(u) ==
    /\ u \in Live \ purging
    /\ purging' = purging \cup {u}
    /\ removed' = removed \cup Of(u, batches)
    /\ UNCHANGED <<status, batches, keys, tokens, expired, request, wasActive>>

\* Mutant: batches do not refer to their university.
DeleteUniversity_NoForeignKey(u) ==
    /\ u \in purging
    /\ purging' = purging \ {u}
    /\ removed' = removed \ Of(u, removed)
    /\ batches' = batches \ Of(u, removed)
    /\ keys' = keys \ Of(u, keys)
    /\ SetStatus(u, "deleted")
    /\ UNCHANGED <<tokens, expired, request>>

\* The rest of it.  API keys go with the university (ON DELETE CASCADE); a
\* batch inserted meanwhile keeps it, and everything is rolled back.
DeleteUniversity(u) ==
    /\ u \in purging
    /\ purging' = purging \ {u}
    /\ removed' = removed \ Of(u, removed)
    /\ \/ /\ Of(u, batches) \subseteq removed
          /\ batches' = batches \ Of(u, batches)
          /\ keys' = keys \ Of(u, keys)
          /\ SetStatus(u, "deleted")
       \/ UNCHANGED <<status, batches, keys, wasActive>>
    /\ UNCHANGED <<tokens, expired, request>>

-----------------------------------------------------------------------------
(* Log-in *)

\* FindByEmail with the e-mail given, the password and the status.
FindByEmail(r) ==
    /\ RequestKind[r] = "login"
    /\ request[r].pc = "arrived"
    /\ \/ \E u \in Active : Goto(r, "issue", u)
       \/ Refuse(r)
    /\ UNCHANGED <<tables, tokens, expired, wasActive>>

IssueAccessToken(r) ==
    /\ request[r].pc = "issue"
    /\ tokens' = tokens \cup {[by |-> r, vuz |-> request[r].vuz]}
    /\ Finish(r)
    /\ UNCHANGED <<tables, expired, wasActive>>

Expire(k) ==
    /\ k \in tokens
    /\ expired' = expired \cup {k}
    /\ UNCHANGED <<tables, tokens, request, wasActive>>

-----------------------------------------------------------------------------
(* The middleware *)

\* A request arrives with the credentials its sender has.
Arrive(r) ==
    /\ request[r].pc = "new"
    /\ \E token \in tokens \cup {None}, key \in keys \cup {None} :
          request' = [request EXCEPT ![r] =
                        [pc |-> "arrived", token |-> token, key |-> key, vuz |-> None]]
    /\ wasActive' = [wasActive EXCEPT ![r] = Active]
    /\ UNCHANGED <<tables, tokens, expired>>

\* Middleware.JWT and UniversityOrAPIKey up to their query: a token that does
\* not hold is no obstacle if there is an API key too.
ParseAccessToken(r) ==
    /\ RequestKind[r] # "login"
    /\ request[r].pc = "arrived"
    /\ IF request[r].token \in tokens \ expired
       THEN Goto(r, "check", request[r].token.vuz)
       ELSE IF RequestKind[r] \in DiplomaKind /\ request[r].key # None
            THEN Goto(r, "resolve", None)
            ELSE Refuse(r)
    /\ UNCHANGED <<tables, tokens, expired, wasActive>>

\* Mutant: the status in the token is enough.
FindByID_TrustsToken(r) ==
    /\ request[r].pc = "check"
    /\ Goto(r, "admitted", request[r].vuz)
    /\ UNCHANGED <<tables, tokens, expired, wasActive>>

\* ensureUniversityIsActive.
FindByID(r) ==
    /\ request[r].pc = "check"
    /\ IF request[r].vuz \in Active THEN Goto(r, "admitted", request[r].vuz) ELSE Refuse(r)
    /\ UNCHANGED <<tables, tokens, expired, wasActive>>

\* FindActiveUniversityByHash.
ResolveActiveUniversity(r) ==
    /\ request[r].pc = "resolve"
    /\ IF request[r].key \in keys /\ request[r].key.vuz \in Active
       THEN Goto(r, "admitted", request[r].key.vuz)
       ELSE Refuse(r)
    /\ UNCHANGED <<tables, tokens, expired, wasActive>>

-----------------------------------------------------------------------------
(* The handlers, as far as they need the university *)

\* Inserts refer to the university, updates name it in their WHERE.
Insertable(u) == u \in Live

\* CreateBatchWithRecords, APIKeyRepository.Create, MarkDiplomaRevoked or
\* UpdatePublicKey.
Act(r) ==
    LET u == request[r].vuz IN
    /\ request[r].pc = "admitted"
    /\ Insertable(u)
    /\ batches' = IF RequestKind[r] = "upload" THEN batches \cup {[by |-> r, vuz |-> u]} ELSE batches
    /\ keys' = IF RequestKind[r] = "apikey" THEN keys \cup {[by |-> r, vuz |-> u]} ELSE keys
    /\ Finish(r)
    /\ UNCHANGED <<status, purging, removed, tokens, expired, wasActive>>

\* A query fails, or finds nothing to change.
RequestError(r) ==
    /\ r \in InFlight
    /\ Refuse(r)
    /\ UNCHANGED <<tables, tokens, expired, wasActive>>

-----------------------------------------------------------------------------
NewRequest == [pc |-> "new", token |-> None, key |-> None, vuz |-> None]

Init ==
    /\ status = [u \in University |-> "absent"]
    /\ batches = {}
    /\ keys = {}
    /\ tokens = {}
    /\ expired = {}
    /\ purging = {}
    /\ removed = {}
    /\ request = [r \in Request |-> NewRequest]
    /\ wasActive = [r \in Request |-> {}]

Login(r) == FindByEmail(r) \/ IssueAccessToken(r)

Middleware(r) == ParseAccessToken(r) \/ FindByID(r) \/ ResolveActiveUniversity(r)

Next ==
    \/ \E u \in University :
         \/ Register(u) \/ Restart(u) \/ DeleteBatches(u) \/ DeleteUniversity(u)
         \/ \E s \in {"pending", "active", "blocked"} : UpdateStatus(u, s)
    \/ \E k \in tokens : Expire(k)
    \/ \E r \in Request : Arrive(r) \/ Login(r) \/ Middleware(r) \/ Act(r) \/ RequestError(r)

Spec == Init /\ [][Next]_vars

-----------------------------------------------------------------------------
(* Properties *)

RequestState ==
    [pc    : {"new", "arrived", "issue", "check", "resolve", "admitted", "done", "refused"},
     token : Made \cup {None},
     key   : Made \cup {None},
     vuz   : University \cup {None}]

\* Every variable has its type; two universities never have one e-mail.
TypeOK ==
    /\ status \in [University -> Status]
    /\ \A u, v \in Live : UniversityEmail[u] = UniversityEmail[v] => u = v
    /\ batches \subseteq Made
    /\ keys \subseteq Made
    /\ tokens \subseteq Made
    /\ expired \subseteq tokens
    /\ purging \subseteq Live
    /\ removed \subseteq Made
    /\ request \in [Request -> RequestState]
    /\ wasActive \in [Request -> SUBSET University]

\* What a request does, or the token it logs in for, is done for a university
\* that was active at some moment since the request arrived, however old its
\* credentials are: a university that stays blocked gets nothing from what is
\* sent after the block.
DoneWhileActive ==
    \A r \in Request : request[r].pc = "done" => request[r].vuz \in wasActive[r]

\* No batch and no API key is left behind by DeleteCascade, whatever is
\* inserted while it runs.
RowsHaveUniversities == \A x \in batches \cup keys : x.vuz \in Live
=============================================================================
