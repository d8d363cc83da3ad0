----------------------------- MODULE ShareLinks -----------------------------
(***************************************************************************)
(* The share links of StudentService: a student asks for a link to a       *)
(* diploma (a URL, or a QR code of it), and whoever has the link sees the  *)
(* diploma until the link expires.  The JWT and the row of share_links     *)
(* both carry the expiry: the JWT in whole seconds, the row exactly.       *)
(*                                                                         *)
(* Time passes in half seconds.  One action is one statement or one        *)
(* reading of the clock; the deletion of a university is a transaction of  *)
(* two, because a link may be inserted between them.                       *)
(***************************************************************************)
EXTENDS Integers, FiniteSets

CONSTANTS
    University,   \* ids of universities
    Diploma,      \* hashes of the diplomas
    DiplomaVuz,   \* diploma -> its university
    Request,      \* POST /student/share and GET /student/qr requests
    RequestHash,  \* request -> the diploma it names
    RequestTtl,   \* request -> the lifetime it asks for, 0 for none
    DefaultTtl,   \* SHARE_LINK_TTL
    Visit,        \* GET /student/share/{token} requests
    MaxTime,      \* the clock stops here (bound)
    None          \* no token, no link, nothing shown

ASSUME DataAssumption ==
    /\ DiplomaVuz \in [Diploma -> University]
    /\ RequestHash \in [Request -> Diploma]
    /\ RequestTtl \in [Request -> Nat]
    /\ DefaultTtl \in Nat \ {0}
    /\ MaxTime \in Nat
    /\ None \notin [diploma : Diploma, iat : Nat, exp : Nat]
    /\ None \notin [expires : Nat, uses : Nat]
    /\ IsFiniteSet(Visit)

VARIABLES
    now,       \* the clock, in half seconds
    status,    \* diploma_hashes.status of each diploma, "absent" without a row
    listed,    \* diplomas with an "ok" row in batch_results
    live,      \* universities that exist
    purging,   \* universities a DeleteCascade is at work on
    removed,   \* the links that transaction has deleted, not committed
    links,     \* share_links: token -> expires_at and used_count
    share,     \* the requests for links
    visit      \* the requests that open one

registry == <<status, listed, live, purging, removed>>
vars == <<now, registry, links, share, visit>>

-----------------------------------------------------------------------------
(* Values *)

Token == [diploma : Diploma, iat : Nat, exp : Nat]

Link == [expires : Nat, uses : Nat]

Status == {"absent", "active", "revoked"}

Tokens == DOMAIN links

TokensOf(u) == {k \in Tokens : DiplomaVuz[k.diploma] = u}

\* jwt.NewNumericDate drops the fraction of a second.
NumericDate(time) == time \div 2

\* FindStudentByHash joins the hash, an "ok" row and the university.
Found(d) == d \in listed /\ status[d] # "absent"

-----------------------------------------------------------------------------
(* The registry, as other components change it *)

Tick ==
    /\ now < MaxTime
    /\ now' = now + 1
    /\ UNCHANGED <<registry, links, share, visit>>

\* insert_diploma_hash, and later the row of the record.
RegisterDiploma(d) ==
    /\ DiplomaVuz[d] \in live
    /\ \/ /\ status[d] = "absent"
          /\ status' = [status EXCEPT ![d] = "active"]
          /\ UNCHANGED listed
       \/ /\ status[d] # "absent"
          /\ listed' = listed \cup {d}
          /\ UNCHANGED status
    /\ UNCHANGED <<now, live, purging, removed, links, share, visit>>

MarkDiplomaRevoked(d) ==
    /\ status[d] # "absent"
    /\ status' = [status EXCEPT ![d] = "revoked"]
    /\ UNCHANGED <<now, listed, live, purging, removed, links, share, visit>>

\* DeleteCascade begins: the links that are there now will go.
DeleteShareLinks(u) ==
    /\ u \in live \ purging
    /\ purging' = purging \cup {u}
    /\ removed' = removed \cup TokensOf(u)
    /\ UNCHANGED <<now, status, listed, live, links, share, visit>>

\* Mutant: no foreign key holds the hashes back.
DeleteHashes_NoForeignKey(u) ==
    /\ u \in purging
    /\ purging' = purging \ {u}
    /\ removed' = removed \ TokensOf(u)
    /\ links' = [k \in Tokens \ (removed \cap TokensOf(u)) |-> links[k]]
    /\ status' = [d \in Diploma |-> IF DiplomaVuz[d] = u THEN "absent" ELSE status[d]]
    /\ listed' = {d \in listed : DiplomaVuz[d] # u}
    /\ live' = live \ {u}
    /\ UNCHANGED <<now, share, visit>>

\* The rest of it: a link inserted meanwhile refers to one of the hashes, and
\* the whole transaction is rolled back.
DeleteHashes(u) ==
    /\ u \in purging
    /\ purging' = purging \ {u}
    /\ removed' = removed \ TokensOf(u)
    /\ \/ /\ TokensOf(u) \subseteq removed
          /\ links' = [k \in Tokens \ TokensOf(u) |-> links[k]]
          /\ status' = [d \in Diploma |-> IF DiplomaVuz[d] = u THEN "absent" ELSE status[d]]
          /\ listed' = {d \in listed : DiplomaVuz[d] # u}
          /\ live' = live \ {u}
       \/ /\ ~(TokensOf(u) \subseteq removed)
          /\ UNCHANGED <<links, status, listed, live>>
    /\ UNCHANGED <<now, share, visit>>

-----------------------------------------------------------------------------
(* StudentService.CreateShareLink, also the first part of RenderShareQR *)

ShareState ==
    [pc : {"new", "issue", "insert", "done", "notfound", "error"},
     token : Token \cup {None}, expires : Nat]

ShareGoto(r, pc) ==
    share' = [share EXCEPT ![r] = [pc |-> pc, token |-> share[r].token,
                                   expires |-> share[r].expires]]

\* Mutant: a registered hash is enough.
CheckDiploma_Unlisted(r) ==
    /\ share[r].pc = "new"
    /\ ShareGoto(r, IF status[RequestHash[r]] # "absent" THEN "issue" ELSE "notfound")
    /\ UNCHANGED <<now, registry, links, visit>>

\* FindStudentByHash: a diploma whose record has no row yet is not found.
CheckDiploma(r) ==
    /\ share[r].pc = "new"
    /\ ShareGoto(r, IF Found(RequestHash[r]) THEN "issue" ELSE "notfound")
    /\ UNCHANGED <<now, registry, links, visit>>

Ttl(r) == IF RequestTtl[r] = 0 THEN DefaultTtl ELSE RequestTtl[r]

\* The token and the expiry of a link made now.
Issued(r, ttl) ==
    [pc |-> "insert",
     token |-> [diploma |-> RequestHash[r], iat |-> NumericDate(now),
                exp |-> NumericDate(now + ttl)],
     expires |-> now + ttl]

\* Mutant: the lifetime asked for is ignored.
IssueShareToken_DefaultTtl(r) ==
    /\ share[r].pc = "issue"
    /\ share' = [share EXCEPT ![r] = Issued(r, DefaultTtl)]
    /\ UNCHANGED <<now, registry, links, visit>>

IssueShareToken(r) ==
    /\ share[r].pc = "issue"
    /\ share' = [share EXCEPT ![r] = Issued(r, Ttl(r))]
    /\ UNCHANGED <<now, registry, links, visit>>

\* UNIQUE(token) and the foreign key of share_links.
CanInsertLink(k) == k \notin Tokens /\ status[k.diploma] # "absent"

InsertLink(k, expires) ==
    links' = [j \in Tokens \cup {k} |->
                 IF j = k THEN [expires |-> expires, uses |-> 0] ELSE links[j]]

CreateShareLink(r) ==
    LET k == share[r].token IN
    /\ share[r].pc = "insert"
    /\ \/ /\ CanInsertLink(k)
          /\ InsertLink(k, share[r].expires)
          /\ ShareGoto(r, "done")
       \/ /\ ~CanInsertLink(k)
          /\ ShareGoto(r, "error")
          /\ UNCHANGED links
    /\ UNCHANGED <<now, registry, visit>>

\* A query fails, before or after its effect: the link may be there unknown to all.
ShareError(r) ==
    /\ share[r].pc \in {"new", "insert"}
    /\ ShareGoto(r, "error")
    /\ \/ UNCHANGED links
       \/ /\ share[r].pc = "insert"
          /\ CanInsertLink(share[r].token)
          /\ InsertLink(share[r].token, share[r].expires)
    /\ UNCHANGED <<now, registry, visit>>

-----------------------------------------------------------------------------
(* StudentService.ResolveShareLink *)

VisitState ==
    [pc : {"new", "find", "read", "count", "answered",
           "invalid", "expired", "notfound", "error"},
     token : Token \cup {None},
     began : Nat,                      \* when the token was parsed,
     seen  : Status,                   \* and the diploma's status then
     link  : Link \cup {None},         \* the row found
     shown : Status]                   \* the status in the answer

NewVisit == [pc |-> "new", token |-> None, began |-> 0, seen |-> "absent",
             link |-> None, shown |-> "absent"]

\* v goes on at pc with the row and the status it has got so far.
VisitWith(v, pc, link, shown) ==
    visit' = [visit EXCEPT ![v] = [pc |-> pc, token |-> visit[v].token,
                                   began |-> visit[v].began, seen |-> visit[v].seen,
                                   link |-> link, shown |-> shown]]

VisitGoto(v, pc) == VisitWith(v, pc, visit[v].link, visit[v].shown)

\* Tokens that were given to a student, who may pass them on.
KnownTokens == {share[r].token : r \in {q \in Request : share[q].pc = "done"}}

\* ParseWithClaims: the signature is right, the time may be over.
ParseShareToken(v, k) ==
    /\ visit[v].pc = "new"
    /\ visit' = [visit EXCEPT ![v] =
                    [pc |-> IF now < 2 * k.exp THEN "find" ELSE "invalid",
                     token |-> k, began |-> now, seen |-> status[k.diploma],
                     link |-> None, shown |-> "absent"]]
    /\ UNCHANGED <<now, registry, links, share>>

\* FindShareLink, and at once the comparison of its expiry with the clock.
FindShareLink(v) ==
    LET k == visit[v].token IN
    /\ visit[v].pc = "find"
    /\ \/ /\ k \in Tokens
          /\ VisitWith(v, IF links[k].expires < now THEN "expired" ELSE "read", links[k], "absent")
       \/ /\ k \notin Tokens
          /\ VisitGoto(v, "invalid")
    /\ UNCHANGED <<now, registry, links, share>>

\* Mutant: the link is taken as proof that the diploma is there and active.
FindStudentByHash_Snapshot(v) ==
    /\ visit[v].pc = "read"
    /\ VisitWith(v, "count", visit[v].link, "active")
    /\ UNCHANGED <<now, registry, links, share>>

FindStudentByHash(v) ==
    LET d == visit[v].token.diploma IN
    /\ visit[v].pc = "read"
    /\ \/ /\ Found(d)
          /\ VisitWith(v, "count", visit[v].link, status[d])
       \/ /\ ~Found(d)
          /\ VisitGoto(v, "notfound")
    /\ UNCHANGED <<now, registry, links, share>>

\* Mutant: the count that was read is written back.
Counted_ReadModifyWrite(v) ==
    LET k == visit[v].token IN
    links' = [j \in Tokens |-> IF j = k THEN [expires |-> links[j].expires,
                                              uses |-> visit[v].link.uses + 1]
                                        ELSE links[j]]

\* Mutant: the row is made when it is not there.
Counted_Upsert(v) ==
    LET k == visit[v].token IN
    links' = [j \in Tokens \cup {k} |->
                 IF j \notin Tokens THEN [expires |-> None, uses |-> 1]
                 ELSE IF j = k THEN [expires |-> links[j].expires, uses |-> links[j].uses + 1]
                 ELSE links[j]]

\* SET used_count = used_count + 1: no row, nothing to count, and no error.
Counted(v) ==
    LET k == visit[v].token IN
    links' = [j \in Tokens |-> IF j = k THEN [expires |-> links[j].expires,
                                              uses |-> links[j].uses + 1]
                                        ELSE links[j]]

IncrementShareLinkUsage(v) ==
    /\ visit[v].pc = "count"
    /\ Counted(v)
    /\ VisitGoto(v, "answered")
    /\ UNCHANGED <<now, registry, share>>

ResolveError(v) ==
    /\ visit[v].pc \in {"find", "read", "count"}
    /\ VisitGoto(v, "error")
    /\ \/ UNCHANGED links
       \/ visit[v].pc = "count" /\ Counted(v)
    /\ UNCHANGED <<now, registry, share>>

-----------------------------------------------------------------------------

Init ==
    /\ now = 0
    /\ status = [d \in Diploma |-> "absent"]
    /\ listed = {}
    /\ live = University
    /\ purging = {}
    /\ removed = {}
    /\ links = [k \in {} |-> None]
    /\ share = [r \in Request |-> [pc |-> "new", token |-> None, expires |-> 0]]
    /\ visit = [v \in Visit |-> NewVisit]

RegistryStep ==
    \/ \E d \in Diploma : RegisterDiploma(d) \/ MarkDiplomaRevoked(d)
    \/ \E u \in University : DeleteShareLinks(u) \/ DeleteHashes(u)

ShareStep(r) ==
    \/ CheckDiploma(r)
    \/ IssueShareToken(r)
    \/ CreateShareLink(r)
    \/ ShareError(r)

VisitStep(v) ==
    \/ \E k \in KnownTokens : ParseShareToken(v, k)
    \/ FindShareLink(v)
    \/ FindStudentByHash(v)
    \/ IncrementShareLinkUsage(v)
    \/ ResolveError(v)

Next ==
    \/ Tick
    \/ RegistryStep
    \/ \E r \in Request : ShareStep(r)
    \/ \E v \in Visit : VisitStep(v)

Spec == Init /\ [][Next]_vars

-----------------------------------------------------------------------------
(* Properties *)

\* Every variable has its type; what a visit found is a row.
TypeOK ==
    /\ now \in Nat
    /\ status \in [Diploma -> Status]
    /\ listed \in SUBSET Diploma
    /\ live \in SUBSET University
    /\ purging \in SUBSET University
    /\ removed \in SUBSET Token
    /\ Tokens \in SUBSET Token
    /\ links \in [Tokens -> Link]
    /\ share \in [Request -> ShareState]
    /\ visit \in [Visit -> VisitState]

\* A link whose diploma is gone cannot exist, although links are inserted while
\* DeleteCascade is between its DELETEs: either the link or the deletion fails.
LinksHaveDiplomas ==
    \A k \in Tokens : status[k.diploma] # "absent" /\ DiplomaVuz[k.diploma] \in live

\* A link opens its diploma no longer than its student asked for: whoever comes
\* later gets no answer, in spite of the two clocks (whole seconds in the JWT,
\* the exact time in the row) and of the time between the two checks.
AnswersInTime ==
    \A r \in Request, v \in Visit :
        /\ share[r].pc = "done"
        /\ visit[v].pc = "answered"
        /\ visit[v].token = share[r].token
        => visit[v].began <= 2 * share[r].token.iat + 1 + Ttl(r)

\* An answer is never older than the visit: a diploma revoked before it began is
\* shown as revoked, one that was deleted before it began is not shown at all.
AnswersAreFresh ==
    \A v \in Visit : visit[v].pc = "answered" =>
        /\ visit[v].seen # "absent"
        /\ visit[v].seen = "revoked" => visit[v].shown = "revoked"

\* Within its lifetime a link that was given out leads to its diploma, unless the
\* university was deleted: no other request, no failed one, no deletion that was
\* rolled back and neither of the two clocks makes ResolveShareLink refuse it.
LinksOpen ==
    \A v \in Visit :
        LET k == visit[v].token IN
        /\ visit[v].pc \in {"invalid", "expired", "notfound"}
        /\ DiplomaVuz[k.diploma] \in live
        => now >= 2 * k.exp

Answered(k) == {v \in Visit : visit[v].token = k /\ visit[v].pc = "answered"}
Failed(k)   == {v \in Visit : visit[v].token = k /\ visit[v].pc = "error"}

\* used_count counts the answers, however many visits run at once; only a visit
\* that failed may be counted without having been answered.
UsesCountAnswers ==
    \A k \in Tokens :
        /\ Cardinality(Answered(k)) <= links[k].uses
        /\ links[k].uses <= Cardinality(Answered(k)) + Cardinality(Failed(k))
=============================================================================
