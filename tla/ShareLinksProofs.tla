-------------------------- MODULE ShareLinksProofs --------------------------
(***************************************************************************)
(* Proofs about ShareLinks, for any diplomas, requests, visits and times.  *)
(***************************************************************************)
EXTENDS ShareLinks, FiniteSetTheorems, TLAPS

\* Tokens in a student's or a visitor's hands are tokens.
TypeInv ==
    /\ TypeOK
    /\ \A r \in Request : share[r].pc \in {"insert", "done"} =>
          share[r].token \in Token /\ share[r].token.diploma = RequestHash[r]
    /\ \A v \in Visit : visit[v].pc # "new" => visit[v].token \in Token

LEMMA InitTypeInv == Init => TypeInv
  BY DataAssumption DEF Init, TypeInv, TypeOK, Status, Tokens, Token, Link, ShareState,
     VisitState, NewVisit

\* What the steps that insert or count do to the table.
LEMMA InsertTyped ==
  ASSUME TypeInv, NEW k \in Token, NEW expires \in Nat, InsertLink(k, expires)
  PROVE  Tokens' = Tokens \cup {k} /\ links' \in [Tokens' -> Link]
  BY DEF TypeInv, TypeOK, InsertLink, Tokens, Link

LEMMA RequestInserts ==
  ASSUME TypeInv, NEW r \in Request, share[r].pc = "insert",
         InsertLink(share[r].token, share[r].expires) \/ UNCHANGED links
  PROVE  /\ Tokens' \in SUBSET Token /\ links' \in [Tokens' -> Link]
         /\ Tokens' = Tokens \/ Tokens' = Tokens \cup {share[r].token}
<1>1. share[r].token \in Token /\ share[r].expires \in Nat
  BY DEF TypeInv, TypeOK, ShareState
<1>2. Tokens \in SUBSET Token /\ links \in [Tokens -> Link]
  BY DEF TypeInv, TypeOK
<1>3. CASE InsertLink(share[r].token, share[r].expires)
  BY <1>1, <1>2, <1>3, InsertTyped
<1>4. CASE UNCHANGED links
  BY <1>2, <1>4 DEF Tokens
<1> QED
  BY <1>3, <1>4

LEMMA CountedTyped ==
  ASSUME TypeInv, NEW v \in Visit, Counted(v)
  PROVE  Tokens' = Tokens /\ links' \in [Tokens' -> Link]
  BY DEF TypeInv, TypeOK, Counted, Tokens, Link

LEMMA DeleteTyped ==
  ASSUME TypeInv, NEW u \in University, links' = [k \in Tokens \ TokensOf(u) |-> links[k]]
  PROVE  Tokens' = Tokens \ TokensOf(u) /\ links' \in [Tokens' -> Link]
  BY DEF TypeInv, TypeOK, Tokens, Link

LEMMA IssuedTyped ==
  ASSUME TypeInv, NEW r \in Request
  PROVE  /\ Ttl(r) \in Nat
         /\ NumericDate(now) \in Nat
         /\ NumericDate(now + Ttl(r)) \in Nat
         /\ Issued(r, Ttl(r)) \in ShareState
         /\ Issued(r, Ttl(r)).token \in Token
         /\ Issued(r, Ttl(r)).token.diploma = RequestHash[r]
<1>1. Ttl(r) \in Nat /\ now \in Nat /\ RequestHash[r] \in Diploma
  BY DataAssumption DEF TypeInv, TypeOK, Ttl
<1>2. NumericDate(now) \in Nat /\ NumericDate(now + Ttl(r)) \in Nat
  BY <1>1 DEF NumericDate
<1>3. Issued(r, Ttl(r)).token \in Token
  BY <1>1, <1>2 DEF Issued, Token
<1> QED
  BY <1>1, <1>2, <1>3 DEF Issued, ShareState

LEMMA VisitTyped ==
  ASSUME TypeInv, NEW v \in Visit, visit[v].pc # "new",
         NEW pc \in {"read", "count", "answered", "invalid", "expired", "notfound", "error"},
         NEW link \in Link \cup {None}, NEW shown \in Status, VisitWith(v, pc, link, shown)
  PROVE  /\ visit' \in [Visit -> VisitState]
         /\ \A w \in Visit : visit'[w].pc # "new" => visit'[w].token \in Token
  BY DEF TypeInv, TypeOK, VisitWith, VisitState

LEMMA VisitMoves ==
  ASSUME TypeInv, NEW v \in Visit, visit[v].pc # "new",
         NEW pc \in {"read", "count", "answered", "invalid", "expired", "notfound", "error"},
         VisitGoto(v, pc)
  PROVE  /\ visit' \in [Visit -> VisitState]
         /\ \A w \in Visit : visit'[w].pc # "new" => visit'[w].token \in Token
<1>1. visit[v].link \in Link \cup {None} /\ visit[v].shown \in Status
  BY DEF TypeInv, TypeOK, VisitState
<1> QED
  BY <1>1, VisitTyped DEF VisitGoto

LEMMA KnownTyped ==
  ASSUME TypeInv, NEW k \in KnownTokens
  PROVE  /\ k \in Token
         /\ \E r \in Request : share[r].pc = "done" /\ share[r].token = k
  BY DEF TypeInv, KnownTokens

LEMMA NextTypeInv == TypeInv /\ [Next]_vars => TypeInv'
<1> SUFFICES ASSUME TypeInv, [Next]_vars PROVE TypeInv'
  OBVIOUS
<1> USE DataAssumption DEF TypeInv, TypeOK, registry
<1>1. CASE Tick
  BY <1>1 DEF Tick, Tokens
<1>2. ASSUME NEW d \in Diploma, RegisterDiploma(d) PROVE TypeInv'
  BY <1>2 DEF RegisterDiploma, Tokens, Status
<1>3. ASSUME NEW d \in Diploma, MarkDiplomaRevoked(d) PROVE TypeInv'
  BY <1>3 DEF MarkDiplomaRevoked, Tokens, Status
<1>4. ASSUME NEW u \in University, DeleteShareLinks(u) PROVE TypeInv'
  BY <1>4 DEF DeleteShareLinks, TokensOf, Tokens
<1>5. ASSUME NEW u \in University, DeleteHashes(u) PROVE TypeInv'
  <2>1. Tokens' \in SUBSET Token /\ links' \in [Tokens' -> Link]
    BY <1>5, DeleteTyped DEF DeleteHashes, Tokens
  <2> QED
    BY <1>5, <2>1 DEF DeleteHashes, Status
<1>6. ASSUME NEW r \in Request, CheckDiploma(r) PROVE TypeInv'
  BY <1>6 DEF CheckDiploma, ShareGoto, ShareState, Tokens
<1>7. ASSUME NEW r \in Request, IssueShareToken(r) PROVE TypeInv'
  BY <1>7, IssuedTyped DEF IssueShareToken, Tokens
<1>8. ASSUME NEW r \in Request, CreateShareLink(r) PROVE TypeInv'
  <2>1. Tokens' \in SUBSET Token /\ links' \in [Tokens' -> Link]
    BY <1>8, RequestInserts DEF CreateShareLink
  <2>2. share[r].pc = "insert" /\ (ShareGoto(r, "done") \/ ShareGoto(r, "error"))
    BY <1>8 DEF CreateShareLink
  <2>3. /\ share' \in [Request -> ShareState]
        /\ \A q \in Request : share'[q].pc \in {"insert", "done"} =>
              share'[q].token \in Token /\ share'[q].token.diploma = RequestHash[q]
    BY <2>2 DEF ShareGoto, ShareState
  <2> QED
    BY <1>8, <2>1, <2>3 DEF CreateShareLink
<1>9. ASSUME NEW r \in Request, ShareError(r) PROVE TypeInv'
  <2>1. Tokens' \in SUBSET Token /\ links' \in [Tokens' -> Link]
    <3>1. CASE share[r].pc = "insert"
      BY <1>9, <3>1, RequestInserts DEF ShareError
    <3>2. CASE share[r].pc # "insert"
      BY <1>9, <3>2 DEF ShareError, Tokens
    <3> QED
      BY <3>1, <3>2
  <2> QED
    BY <1>9, <2>1 DEF ShareError, ShareGoto, ShareState
<1>10. ASSUME NEW v \in Visit, NEW k \in KnownTokens, ParseShareToken(v, k) PROVE TypeInv'
  <2>1. k \in Token /\ status[k.diploma] \in Status
    BY KnownTyped DEF Token
  <2> QED
    BY <1>10, <2>1 DEF ParseShareToken, VisitState, Tokens, Status
<1>11. ASSUME NEW v \in Visit, FindShareLink(v) PROVE TypeInv'
  <2>1. visit[v].pc # "new" /\ (visit[v].token \in Tokens => links[visit[v].token] \in Link)
    BY <1>11 DEF FindShareLink
  <2>2. "absent" \in Status
    BY DEF Status
  <2>3. /\ visit' \in [Visit -> VisitState]
        /\ \A w \in Visit : visit'[w].pc # "new" => visit'[w].token \in Token
    <3>1. CASE visit[v].token \in Tokens
      BY <1>11, <2>1, <2>2, <3>1, VisitTyped DEF FindShareLink
    <3>2. CASE visit[v].token \notin Tokens
      BY <1>11, <2>1, <3>2, VisitMoves DEF FindShareLink
    <3> QED
      BY <3>1, <3>2
  <2> QED
    BY <1>11, <2>3 DEF FindShareLink, Tokens
<1>12. ASSUME NEW v \in Visit, FindStudentByHash(v) PROVE TypeInv'
  <2>1. visit[v].pc # "new" /\ status[visit[v].token.diploma] \in Status
    BY <1>12 DEF FindStudentByHash, Token
  <2>2. visit[v].link \in Link \cup {None}
    BY DEF VisitState
  <2>3. /\ visit' \in [Visit -> VisitState]
        /\ \A w \in Visit : visit'[w].pc # "new" => visit'[w].token \in Token
    <3>1. CASE Found(visit[v].token.diploma)
      BY <1>12, <2>1, <2>2, <3>1, VisitTyped DEF FindStudentByHash
    <3>2. CASE ~Found(visit[v].token.diploma)
      BY <1>12, <2>1, <3>2, VisitMoves DEF FindStudentByHash
    <3> QED
      BY <3>1, <3>2
  <2> QED
    BY <1>12, <2>3 DEF FindStudentByHash, Tokens
<1>13. ASSUME NEW v \in Visit, IncrementShareLinkUsage(v) PROVE TypeInv'
  <2>1. /\ visit' \in [Visit -> VisitState]
        /\ \A w \in Visit : visit'[w].pc # "new" => visit'[w].token \in Token
    BY <1>13, VisitMoves DEF IncrementShareLinkUsage
  <2> QED
    BY <1>13, <2>1, CountedTyped DEF IncrementShareLinkUsage
<1>14. ASSUME NEW v \in Visit, ResolveError(v) PROVE TypeInv'
  <2>1. Tokens' \in SUBSET Token /\ links' \in [Tokens' -> Link]
    BY <1>14, CountedTyped DEF ResolveError, Tokens
  <2>2. /\ visit' \in [Visit -> VisitState]
        /\ \A w \in Visit : visit'[w].pc # "new" => visit'[w].token \in Token
    BY <1>14, VisitMoves DEF ResolveError
  <2> QED
    BY <1>14, <2>1, <2>2 DEF ResolveError
<1>15. CASE UNCHANGED vars
  BY <1>15 DEF vars, Tokens
<1> QED
  BY <1>1, <1>2, <1>3, <1>4, <1>5, <1>6, <1>7, <1>8, <1>9, <1>10, <1>11, <1>12, <1>13, <1>14,
     <1>15 DEF Next, RegistryStep, ShareStep, VisitStep

-----------------------------------------------------------------------------
(* The tables: links refer to diplomas, diplomas to universities. *)

Gone(d) == DiplomaVuz[d] \notin live

RegisteredInv ==
    /\ LinksHaveDiplomas
    /\ \A d \in Diploma : status[d] # "absent" => ~Gone(d)

\* A diploma that was there is there, and a link, until the university goes.
Remembers ==
    /\ live' \in SUBSET live
    /\ \A d \in Diploma : status[d] # "absent" => status'[d] # "absent" \/ Gone(d)'
    /\ \A d \in Diploma : status[d] = "revoked" => status'[d] = "revoked" \/ Gone(d)'
    /\ \A k \in Tokens : k \in Tokens' \/ Gone(k.diploma)'

\* All that changes but for the registry is a new link or the count of one.
LinkSteps ==
    /\ UNCHANGED <<status, live>>
    /\ \/ Tokens' = Tokens
       \/ \E k \in Token : Tokens' = Tokens \cup {k} /\ status[k.diploma] # "absent"

LEMMA StepsAreLinkSteps ==
  ASSUME TypeInv,
         \/ \E r \in Request : ShareStep(r)
         \/ \E v \in Visit : VisitStep(v)
         \/ Tick
         \/ UNCHANGED vars
  PROVE  LinkSteps
<1> USE DEF LinkSteps, registry
<1>1. ASSUME NEW r \in Request, CheckDiploma(r) \/ IssueShareToken(r) PROVE LinkSteps
  BY <1>1 DEF CheckDiploma, IssueShareToken, Tokens
<1>2. ASSUME NEW r \in Request, CreateShareLink(r) \/ ShareError(r) PROVE LinkSteps
  <2>1. CASE UNCHANGED links
    BY <1>2, <2>1 DEF CreateShareLink, ShareError, Tokens
  <2>2. CASE /\ share[r].pc = "insert"
             /\ CanInsertLink(share[r].token)
             /\ InsertLink(share[r].token, share[r].expires)
    <3>1. share[r].token \in Token /\ status[share[r].token.diploma] # "absent"
      BY <2>2 DEF TypeInv, CanInsertLink
    <3>2. Tokens' = Tokens \/ Tokens' = Tokens \cup {share[r].token}
      BY <2>2, RequestInserts
    <3> QED
      BY <1>2, <3>1, <3>2 DEF CreateShareLink, ShareError
  <2> QED
    BY <1>2, <2>1, <2>2 DEF CreateShareLink, ShareError
<1>3. ASSUME NEW v \in Visit, VisitStep(v) PROVE LinkSteps
  <2>1. CASE Counted(v)
    BY <1>3, <2>1, CountedTyped
    DEF VisitStep, ParseShareToken, FindShareLink, FindStudentByHash, IncrementShareLinkUsage,
        ResolveError
  <2>2. CASE UNCHANGED links
    BY <1>3, <2>2
    DEF VisitStep, ParseShareToken, FindShareLink, FindStudentByHash, IncrementShareLinkUsage,
        ResolveError, Tokens
  <2> QED
    BY <1>3, <2>1, <2>2
    DEF VisitStep, ParseShareToken, FindShareLink, FindStudentByHash, IncrementShareLinkUsage,
        ResolveError
<1>4. CASE Tick \/ UNCHANGED vars
  BY <1>4 DEF Tick, vars, Tokens
<1> QED
  BY <1>1, <1>2, <1>3, <1>4 DEF ShareStep

LEMMA RegistrySteps ==
  ASSUME TypeInv, RegisteredInv, [Next]_vars
  PROVE  RegisteredInv' /\ Remembers
<1> USE DataAssumption DEF Remembers, RegisteredInv, LinksHaveDiplomas, Gone
<1>0. /\ Tokens \in SUBSET Token /\ live \in SUBSET University
      /\ status \in [Diploma -> Status]
      /\ \A k \in Token : k.diploma \in Diploma
  BY DEF TypeInv, TypeOK, Token
<1>1. ASSUME NEW d \in Diploma, RegisterDiploma(d) PROVE RegisteredInv' /\ Remembers
  BY <1>0, <1>1 DEF RegisterDiploma, Tokens
<1>2. ASSUME NEW d \in Diploma, MarkDiplomaRevoked(d) PROVE RegisteredInv' /\ Remembers
  BY <1>0, <1>2 DEF MarkDiplomaRevoked, Tokens
<1>3. ASSUME NEW u \in University, DeleteShareLinks(u) PROVE RegisteredInv' /\ Remembers
  BY <1>0, <1>3 DEF DeleteShareLinks, Tokens
<1>4. ASSUME NEW u \in University, DeleteHashes(u) PROVE RegisteredInv' /\ Remembers
  <2>1. CASE UNCHANGED <<links, status, live>>
    BY <1>0, <2>1 DEF Tokens
  <2>2. CASE /\ links' = [k \in Tokens \ TokensOf(u) |-> links[k]]
             /\ status' = [d \in Diploma |-> IF DiplomaVuz[d] = u THEN "absent" ELSE status[d]]
             /\ live' = live \ {u}
    <3>1. Tokens' = Tokens \ TokensOf(u)
      BY <2>2, DeleteTyped
    <3> QED
      BY <1>0, <2>2, <3>1 DEF TokensOf
  <2> QED
    BY <1>4, <2>1, <2>2 DEF DeleteHashes
<1>5. CASE LinkSteps
  BY <1>0, <1>5 DEF LinkSteps
<1> QED
  BY <1>1, <1>2, <1>3, <1>4, <1>5, StepsAreLinkSteps DEF Next, RegistryStep

TablesInv == TypeInv /\ RegisteredInv

LEMMA TablesInvariant == Spec => []TablesInv
<1>1. Init => TablesInv
  BY InitTypeInv DEF Init, TablesInv, RegisteredInv, LinksHaveDiplomas, Tokens
<1>2. TablesInv /\ [Next]_vars => TablesInv'
  BY NextTypeInv, RegistrySteps DEF TablesInv
<1> QED
  BY <1>1, <1>2, PTL DEF Spec

\* Every variable keeps its type.
THEOREM LinksTyped == Spec => []TypeOK
<1>1. TablesInv => TypeOK
  BY DEF TablesInv, TypeInv
<1> QED
  BY TablesInvariant, <1>1, PTL

\* However links are inserted while a university is deleted, no link is left
\* without its diploma.
THEOREM NoLinkDangles == Spec => []LinksHaveDiplomas
<1>1. TablesInv => LinksHaveDiplomas
  BY DEF TablesInv, RegisteredInv
<1> QED
  BY TablesInvariant, <1>1, PTL

-----------------------------------------------------------------------------
(* What requests and visits hold. *)

Kept(d) == status[d] # "absent" \/ Gone(d)

Passed(v) == visit[v].pc \in {"find", "read", "count", "answered"}

\* A token that was given away has its link and its diploma, or the university
\* is gone and neither will come back; its expiry is in time.
RequestInv(r) ==
    /\ share[r].pc \in {"issue", "insert", "done"} => Kept(RequestHash[r])
    /\ share[r].pc = "done" => share[r].token \in Tokens \/ Gone(share[r].token.diploma)
    /\ share[r].pc \in {"insert", "done"} =>
          2 * share[r].token.exp <= 2 * share[r].token.iat + 1 + Ttl(r)

\* What a visit has seen can only have been revoked or deleted since.
VisitInv(v) ==
    /\ visit[v].pc # "new" =>
          /\ Kept(visit[v].token.diploma)
          /\ visit[v].token \in Tokens \/ Gone(visit[v].token.diploma)
    /\ Passed(v) => visit[v].began < 2 * visit[v].token.exp
    /\ visit[v].pc # "new" /\ visit[v].seen = "absent" => Gone(visit[v].token.diploma)
    /\ visit[v].pc # "new" /\ visit[v].seen = "revoked" =>
          status[visit[v].token.diploma] = "revoked" \/ Gone(visit[v].token.diploma)
    /\ visit[v].pc \in {"count", "answered"} =>
          /\ visit[v].seen # "absent"
          /\ visit[v].seen = "revoked" => visit[v].shown = "revoked"

OpenInv == (\A r \in Request : RequestInv(r)) /\ (\A v \in Visit : VisitInv(v))

LEMMA IssuedInTime ==
  ASSUME NEW r \in Request, NEW time \in Nat, NEW ttl \in Nat
  PROVE  2 * NumericDate(time + ttl) <= 2 * NumericDate(time) + 1 + ttl
  BY DEF NumericDate

LEMMA OpenKept ==
  ASSUME TypeInv, OpenInv, Remembers, UNCHANGED <<share, visit>>
  PROVE  OpenInv'
<1>0. /\ \A r \in Request : RequestHash[r] \in Diploma
      /\ \A r \in Request : share[r].pc = "done" => share[r].token.diploma \in Diploma
      /\ \A v \in Visit : visit[v].pc # "new" => visit[v].token.diploma \in Diploma
  BY DataAssumption DEF TypeInv, Token
<1>1. \A d \in Diploma : (Gone(d) => Gone(d)') /\ (Kept(d) => Kept(d)')
  BY DEF Remembers, Gone, Kept
<1>2. \A r \in Request : RequestInv(r)'
  BY <1>0, <1>1, DataAssumption DEF OpenInv, RequestInv, Remembers, Ttl, TypeInv
<1>3. \A v \in Visit : VisitInv(v)'
  BY <1>0, <1>1 DEF OpenInv, VisitInv, Passed, Remembers, TypeInv
<1> QED
  BY <1>2, <1>3 DEF OpenInv

\* A request moves; the registry and the visits stay.
LEMMA OpenRequest ==
  ASSUME TypeInv, OpenInv, Remembers, NEW r \in Request, ShareStep(r)
  PROVE  OpenInv'
<1>0. /\ UNCHANGED <<status, live, visit>>
      /\ \A k \in Tokens : k \in Tokens' \/ Gone(k.diploma)'
      /\ share \in [Request -> ShareState]
  BY DEF ShareStep, CheckDiploma, IssueShareToken, CreateShareLink, ShareError, Remembers,
     registry, TypeInv, TypeOK
<1>1. \A d \in Diploma : Gone(d)' = Gone(d) /\ Kept(d)' = Kept(d)
  BY <1>0 DEF Gone, Kept
<1>2. /\ \A q \in Request : RequestHash[q] \in Diploma
      /\ \A q \in Request : share[q].pc = "done" => share[q].token.diploma \in Diploma
      /\ \A v \in Visit : visit[v].pc # "new" => visit[v].token.diploma \in Diploma
  BY DataAssumption DEF TypeInv, Token
<1>3. (\A q \in Request : RequestInv(q)) /\ (\A v \in Visit : VisitInv(v))
  BY DEF OpenInv
<1>4. \A v \in Visit : VisitInv(v)'
  BY <1>0, <1>1, <1>2, <1>3 DEF VisitInv, Passed
<1>6. \A q \in Request \ {r} : share'[q] = share[q]
  BY <1>0 DEF ShareStep, CheckDiploma, IssueShareToken, CreateShareLink, ShareError, ShareGoto
<1>7. \A q \in Request \ {r} : RequestInv(q)'
  BY <1>0, <1>1, <1>2, <1>3, <1>6 DEF RequestInv, Ttl
<1>8. RequestInv(r)'
  <2>1. CASE CheckDiploma(r)
    BY <1>0, <1>1, <1>2, <2>1 DEF CheckDiploma, ShareGoto, Found, Kept, RequestInv
  <2>2. CASE IssueShareToken(r)
    <3>1. Kept(RequestHash[r])
      BY <1>3, <2>2 DEF IssueShareToken, RequestInv
    <3>2. 2 * NumericDate(now + Ttl(r)) <= 2 * NumericDate(now) + 1 + Ttl(r)
      BY IssuedInTime, IssuedTyped DEF TypeInv, TypeOK
    <3>3. share'[r] = Issued(r, Ttl(r))
      BY <1>0, <2>2 DEF IssueShareToken
    <3> QED
      BY <1>1, <1>2, <3>1, <3>2, <3>3 DEF Issued, RequestInv, Ttl
  <2>3. CASE CreateShareLink(r)
    <3>1. Kept(RequestHash[r]) /\ share[r].token \in Token
      BY <1>3, <2>3 DEF CreateShareLink, RequestInv, TypeInv
    <3>2. 2 * share[r].token.exp <= 2 * share[r].token.iat + 1 + Ttl(r)
      BY <1>3, <2>3 DEF CreateShareLink, RequestInv
    <3>3. share'[r].token = share[r].token
      BY <1>0, <2>3 DEF CreateShareLink, ShareGoto
    <3>4. share'[r].pc = "done" => share[r].token \in Tokens'
      BY <1>0, <2>3 DEF CreateShareLink, ShareGoto, InsertLink, Tokens
    <3> QED
      BY <1>1, <1>2, <3>1, <3>2, <3>3, <3>4 DEF RequestInv, Ttl
  <2>4. CASE ShareError(r)
    BY <1>0, <2>4 DEF ShareError, ShareGoto, RequestInv
  <2> QED
    BY <2>1, <2>2, <2>3, <2>4 DEF ShareStep
<1> QED
  BY <1>4, <1>7, <1>8 DEF OpenInv

\* A visit moves; the registry and the requests stay, and so do the tokens.
LEMMA OpenVisit ==
  ASSUME TypeInv, RegisteredInv, OpenInv, NEW v \in Visit, VisitStep(v)
  PROVE  OpenInv'
<1>0. /\ UNCHANGED <<status, live, share>>
      /\ visit \in [Visit -> VisitState]
      /\ status \in [Diploma -> Status]
      /\ now \in Nat
  BY DEF VisitStep, ParseShareToken, FindShareLink, FindStudentByHash, IncrementShareLinkUsage,
     ResolveError, registry, TypeInv, TypeOK
<1>1. Tokens' = Tokens
  <2>1. CASE UNCHANGED links
    BY <2>1 DEF Tokens
  <2>2. CASE Counted(v)
    BY <2>2, CountedTyped
  <2> QED
    BY <2>1, <2>2 DEF VisitStep, ParseShareToken, FindShareLink, FindStudentByHash,
       IncrementShareLinkUsage, ResolveError
<1>2. \A d \in Diploma : Gone(d)' = Gone(d) /\ Kept(d)' = Kept(d)
  BY <1>0 DEF Gone, Kept
<1>3. \A w \in Visit : visit[w].pc # "new" => visit[w].token.diploma \in Diploma
  BY DEF TypeInv, Token
<1>4. (\A r \in Request : RequestInv(r)) /\ (\A w \in Visit : VisitInv(w))
  BY DEF OpenInv
<1>5. \A w \in Visit \ {v} : VisitInv(w)'
  <2>1. \A w \in Visit \ {v} : visit'[w] = visit[w]
    BY <1>0 DEF VisitStep, ParseShareToken, FindShareLink, FindStudentByHash,
       IncrementShareLinkUsage, ResolveError, VisitGoto, VisitWith
  <2> QED
    BY <1>0, <1>1, <1>2, <1>3, <1>4, <2>1 DEF VisitInv, Passed
<1>6. VisitInv(v)'
  <2>1. ASSUME NEW k \in KnownTokens, ParseShareToken(v, k) PROVE VisitInv(v)'
    <3>1. PICK r \in Request : share[r].pc = "done" /\ share[r].token = k
      BY KnownTyped
    <3>2. k.diploma = RequestHash[r] /\ k.diploma \in Diploma /\ k \in Token
      BY <3>1, DataAssumption DEF TypeInv, Token
    <3>3. Kept(k.diploma) /\ (k \in Tokens \/ Gone(k.diploma))
      BY <1>4, <3>1, <3>2 DEF RequestInv
    <3>4. visit'[v] = [pc |-> IF now < 2 * k.exp THEN "find" ELSE "invalid",
                       token |-> k, began |-> now, seen |-> status[k.diploma],
                       link |-> None, shown |-> "absent"]
      BY <1>0, <2>1 DEF ParseShareToken
    <3> QED
      BY <1>0, <1>1, <1>2, <3>2, <3>3, <3>4 DEF VisitInv, Passed, Kept
  <2>2. ASSUME NEW pc \in {"read", "invalid", "expired", "notfound", "error"}, NEW link,
               NEW shown, visit[v].pc # "new", pc = "read" => visit[v].pc = "find",
               VisitWith(v, pc, link, shown)
        PROVE  VisitInv(v)'
    <3>1. /\ visit'[v].pc = pc /\ visit'[v].token = visit[v].token
          /\ visit'[v].began = visit[v].began /\ visit'[v].seen = visit[v].seen
      BY <1>0, <2>2 DEF VisitWith
    <3> QED
      BY <1>0, <1>1, <1>2, <1>3, <1>4, <2>2, <3>1 DEF VisitInv, Passed
  <2>3. CASE FindShareLink(v)
    BY <2>2, <2>3 DEF FindShareLink, VisitGoto
  <2>4. CASE FindStudentByHash(v)
    <3>1. CASE ~Found(visit[v].token.diploma)
      BY <2>2, <2>4, <3>1 DEF FindStudentByHash, VisitGoto
    <3>2. CASE Found(visit[v].token.diploma)
      <4>1. /\ visit[v].pc = "read"
            /\ visit'[v].pc = "count" /\ visit'[v].token = visit[v].token
            /\ visit'[v].began = visit[v].began /\ visit'[v].seen = visit[v].seen
            /\ visit'[v].shown = status[visit[v].token.diploma]
        BY <1>0, <2>4, <3>2 DEF FindStudentByHash, VisitWith
      <4>2. ~Gone(visit[v].token.diploma)
        BY <1>3, <3>2, <4>1 DEF RegisteredInv, Found
      <4> QED
        BY <1>0, <1>1, <1>2, <1>3, <1>4, <4>1, <4>2 DEF VisitInv, Passed
    <3> QED
      BY <3>1, <3>2
  <2>5. CASE IncrementShareLinkUsage(v)
    <3>1. /\ visit[v].pc = "count"
          /\ visit'[v].pc = "answered" /\ visit'[v].token = visit[v].token
          /\ visit'[v].began = visit[v].began /\ visit'[v].seen = visit[v].seen
          /\ visit'[v].shown = visit[v].shown
      BY <1>0, <2>5 DEF IncrementShareLinkUsage, VisitGoto, VisitWith
    <3> QED
      BY <1>0, <1>1, <1>2, <1>3, <1>4, <3>1 DEF VisitInv, Passed
  <2>6. CASE ResolveError(v)
    BY <2>2, <2>6 DEF ResolveError, VisitGoto
  <2> QED
    BY <2>1, <2>3, <2>4, <2>5, <2>6 DEF VisitStep
<1>7. \A r \in Request : RequestInv(r)'
  <2>1. \A r \in Request : RequestHash[r] \in Diploma
    BY DataAssumption
  <2>2. \A r \in Request : share[r].pc = "done" => share[r].token.diploma \in Diploma
    BY DEF TypeInv, Token
  <2> QED
    BY <1>0, <1>1, <1>2, <1>4, <2>1, <2>2 DEF RequestInv, Ttl
<1> QED
  BY <1>5, <1>6, <1>7 DEF OpenInv

OpenTablesInv == TablesInv /\ OpenInv

LEMMA OpenTablesInvariant == Spec => []OpenTablesInv
<1>1. Init => OpenTablesInv
  <2>1. Init => TablesInv
    BY InitTypeInv DEF Init, TablesInv, RegisteredInv, LinksHaveDiplomas, Tokens
  <2>2. Init => OpenInv
    BY DEF Init, OpenInv, RequestInv, VisitInv, Passed, NewVisit
  <2> QED
    BY <2>1, <2>2 DEF OpenTablesInv
<1>2. OpenTablesInv /\ [Next]_vars => OpenTablesInv'
  <2> SUFFICES ASSUME OpenTablesInv, [Next]_vars PROVE OpenTablesInv'
    OBVIOUS
  <2>1. TypeInv /\ RegisteredInv /\ OpenInv
    BY DEF OpenTablesInv, TablesInv
  <2>2. TablesInv' /\ Remembers
    BY <2>1, NextTypeInv, RegistrySteps DEF TablesInv
  <2>3. OpenInv'
    <3>1. CASE Tick \/ RegistryStep \/ UNCHANGED vars
      <4>1. UNCHANGED <<share, visit>>
        BY <3>1 DEF Tick, RegistryStep, RegisterDiploma, MarkDiplomaRevoked, DeleteShareLinks,
           DeleteHashes, vars
      <4> QED
        BY <2>1, <2>2, <4>1, OpenKept
    <3>2. CASE \E r \in Request : ShareStep(r)
      BY <2>1, <2>2, <3>2, OpenRequest
    <3>3. CASE \E v \in Visit : VisitStep(v)
      BY <2>1, <3>3, OpenVisit
    <3> QED
      BY <3>1, <3>2, <3>3 DEF Next
  <2> QED
    BY <2>2, <2>3 DEF OpenTablesInv
<1> QED
  BY <1>1, <1>2, PTL DEF Spec

\* Nobody who comes later than the lifetime the student asked for gets an answer.
THEOREM AnswersComeInTime == Spec => []AnswersInTime
<1>1. OpenTablesInv => AnswersInTime
  <2> SUFFICES ASSUME OpenTablesInv, NEW r \in Request, NEW v \in Visit,
                      share[r].pc = "done", visit[v].pc = "answered",
                      visit[v].token = share[r].token
               PROVE  visit[v].began <= 2 * share[r].token.iat + 1 + Ttl(r)
    BY DEF AnswersInTime
  <2>1. visit[v].began < 2 * share[r].token.exp
    BY DEF OpenTablesInv, OpenInv, VisitInv, Passed
  <2>2. 2 * share[r].token.exp <= 2 * share[r].token.iat + 1 + Ttl(r)
    BY DEF OpenTablesInv, OpenInv, RequestInv
  <2>3. /\ visit[v].began \in Nat /\ Ttl(r) \in Nat
        /\ share[r].token.iat \in Nat /\ share[r].token.exp \in Nat
    BY IssuedTyped DEF OpenTablesInv, TablesInv, TypeInv, TypeOK, VisitState, Token
  <2> QED
    BY <2>1, <2>2, <2>3
<1> QED
  BY OpenTablesInvariant, <1>1, PTL

\* A diploma that was revoked or deleted before the visit is not shown as valid.
THEOREM AnswersStayFresh == Spec => []AnswersAreFresh
<1>1. OpenTablesInv => AnswersAreFresh
  BY DEF OpenTablesInv, OpenInv, VisitInv, AnswersAreFresh
<1> QED
  BY OpenTablesInvariant, <1>1, PTL

-----------------------------------------------------------------------------
(* The lifetime of a link that was given out. *)

Listed(d) == d \in listed \/ Gone(d)

Refused(v) == visit[v].pc \in {"invalid", "expired", "notfound"}

RequestLife(r) ==
    /\ share[r].pc \in {"issue", "insert", "done"} => Listed(RequestHash[r])
    /\ share[r].pc = "insert" => 2 * share[r].token.exp <= share[r].expires

VisitLife(v) ==
    /\ visit[v].pc # "new" => Listed(visit[v].token.diploma)
    /\ Refused(v) => Gone(visit[v].token.diploma) \/ 2 * visit[v].token.exp <= now

\* The row outlives the token, and a diploma that had its row in batch_results
\* when the link was asked for keeps it as long as the university.
LifeInv ==
    /\ \A k \in Tokens : 2 * k.exp <= links[k].expires
    /\ \A r \in Request : RequestLife(r)
    /\ \A v \in Visit : VisitLife(v)

\* No step turns back the clock, unlists a diploma or moves an expiry.
LEMMA LifeGoesOn ==
  ASSUME TypeInv, [Next]_vars
  PROVE  /\ now' \in Nat /\ now <= now'
         /\ \A d \in Diploma : (Listed(d) => Listed(d)') /\ (Gone(d) => Gone(d)')
<1> USE DEF Listed, Gone, registry
<1>0. now \in Nat
  BY DEF TypeInv, TypeOK
<1>1. CASE Tick
  BY <1>0, <1>1 DEF Tick
<1>2. CASE RegistryStep
  <2>1. ASSUME NEW d \in Diploma, RegisterDiploma(d) \/ MarkDiplomaRevoked(d)
        PROVE  UNCHANGED <<now, live>> /\ listed \in SUBSET (listed')
    BY <2>1 DEF RegisterDiploma, MarkDiplomaRevoked
  <2>2. ASSUME NEW u \in University, DeleteShareLinks(u)
        PROVE  UNCHANGED <<now, live, listed>>
    BY <2>2 DEF DeleteShareLinks
  <2>3. ASSUME NEW u \in University, DeleteHashes(u)
        PROVE  /\ UNCHANGED now
               /\ \/ UNCHANGED <<live, listed>>
                  \/ /\ live' = live \ {u}
                     /\ listed' = {d \in listed : DiplomaVuz[d] # u}
    BY <2>3 DEF DeleteHashes
  <2> QED
    BY <1>0, <1>2, <2>1, <2>2, <2>3 DEF RegistryStep
<1>3. CASE (\E r \in Request : ShareStep(r)) \/ (\E v \in Visit : VisitStep(v)) \/ UNCHANGED vars
  <2>1. UNCHANGED <<now, live, listed>>
    BY <1>3 DEF ShareStep, CheckDiploma, IssueShareToken, CreateShareLink, ShareError, VisitStep,
       ParseShareToken, FindShareLink, FindStudentByHash, IncrementShareLinkUsage, ResolveError,
       vars
  <2> QED
    BY <1>0, <2>1
<1> QED
  BY <1>1, <1>2, <1>3 DEF Next

LEMMA LifeOfRows ==
  ASSUME TypeInv, LifeInv, [Next]_vars
  PROVE  \A k \in Tokens' : 2 * k.exp <= links'[k].expires
<1>0. links \in [Tokens -> Link] /\ Tokens \in SUBSET Token /\ share \in [Request -> ShareState]
  BY DEF TypeInv, TypeOK
<1>1. CASE UNCHANGED links
  BY <1>1 DEF LifeInv, Tokens
<1>2. ASSUME NEW r \in Request, share[r].pc = "insert", InsertLink(share[r].token, share[r].expires)
      PROVE  \A k \in Tokens' : 2 * k.exp <= links'[k].expires
  <2>1. 2 * share[r].token.exp <= share[r].expires
    BY <1>2 DEF LifeInv, RequestLife
  <2> QED
    BY <1>2, <2>1 DEF LifeInv, InsertLink, Tokens
<1>3. ASSUME NEW v \in Visit, Counted(v)
      PROVE  \A k \in Tokens' : 2 * k.exp <= links'[k].expires
  BY <1>3 DEF LifeInv, Counted, Tokens
<1>4. ASSUME NEW u \in University, links' = [k \in Tokens \ TokensOf(u) |-> links[k]]
      PROVE  \A k \in Tokens' : 2 * k.exp <= links'[k].expires
  BY <1>4, DeleteTyped DEF LifeInv
<1>5. CASE Tick \/ UNCHANGED vars
  BY <1>1, <1>5 DEF Tick, vars
<1>6. CASE RegistryStep
  BY <1>1, <1>4, <1>6 DEF RegistryStep, RegisterDiploma, MarkDiplomaRevoked, DeleteShareLinks,
     DeleteHashes
<1>7. CASE \E r \in Request : ShareStep(r)
  BY <1>1, <1>2, <1>7 DEF ShareStep, CheckDiploma, IssueShareToken, CreateShareLink, ShareError
<1>8. CASE \E v \in Visit : VisitStep(v)
  BY <1>1, <1>3, <1>8 DEF VisitStep, ParseShareToken, FindShareLink, FindStudentByHash,
     IncrementShareLinkUsage, ResolveError
<1> QED
  BY <1>5, <1>6, <1>7, <1>8 DEF Next

\* A request that does not move keeps what it has.
LEMMA RequestLifeKept ==
  ASSUME TypeInv, LifeInv, [Next]_vars, NEW r \in Request, share'[r] = share[r]
  PROVE  RequestLife(r)'
<1>1. RequestLife(r) /\ RequestHash[r] \in Diploma
  BY DataAssumption DEF LifeInv
<1> QED
  BY <1>1, LifeGoesOn DEF RequestLife

LEMMA RequestLifeMoves ==
  ASSUME TypeInv, LifeInv, NEW r \in Request, ShareStep(r)
  PROVE  \A q \in Request : RequestLife(q)'
<1>0. share \in [Request -> ShareState] /\ RequestHash[r] \in Diploma /\ now \in Nat
  BY DataAssumption DEF TypeInv, TypeOK
<1>1. UNCHANGED <<listed, live>> /\ Next
  BY DEF ShareStep, CheckDiploma, IssueShareToken, CreateShareLink, ShareError, registry, Next
<1>2. \A q \in Request \ {r} : share'[q] = share[q]
  BY <1>0 DEF ShareStep, CheckDiploma, IssueShareToken, CreateShareLink, ShareError, ShareGoto
<1>3. RequestLife(r)
  BY DEF LifeInv
<1>4. Listed(RequestHash[r])' = Listed(RequestHash[r])
  BY <1>1 DEF Listed, Gone
<1>5. RequestLife(r)'
  <2>1. CASE CheckDiploma(r)
    BY <1>0, <1>4, <2>1 DEF CheckDiploma, ShareGoto, RequestLife, Found, Listed
  <2>2. CASE IssueShareToken(r)
    <3>1. Ttl(r) \in Nat
      BY IssuedTyped
    <3>2. 2 * NumericDate(now + Ttl(r)) <= now + Ttl(r)
      BY <1>0, <3>1 DEF NumericDate
    <3>3. share'[r] = Issued(r, Ttl(r)) /\ share[r].pc = "issue"
      BY <1>0, <2>2 DEF IssueShareToken
    <3> QED
      BY <1>3, <1>4, <3>2, <3>3 DEF RequestLife, Issued
  <2>3. CASE CreateShareLink(r) \/ ShareError(r)
    <3>1. share'[r].pc = "error" \/ (share[r].pc = "insert" /\ share'[r].pc = "done")
      BY <1>0, <2>3 DEF CreateShareLink, ShareError, ShareGoto
    <3> QED
      BY <1>3, <1>4, <3>1 DEF RequestLife
  <2> QED
    BY <2>1, <2>2, <2>3 DEF ShareStep
<1> QED
  BY <1>1, <1>2, <1>5, RequestLifeKept

LEMMA VisitLifeKept ==
  ASSUME TypeInv, LifeInv, [Next]_vars, NEW v \in Visit, visit'[v] = visit[v]
  PROVE  VisitLife(v)'
<1>1. VisitLife(v)
  BY DEF LifeInv
<1>2. CASE visit[v].pc = "new"
  BY <1>2 DEF VisitLife, Refused
<1>3. CASE visit[v].pc # "new"
  <2>1. PICK d \in Diploma, exp \in Nat : d = visit[v].token.diploma /\ exp = visit[v].token.exp
    BY <1>3 DEF TypeInv, Token
  <2>2. /\ now \in Nat /\ now' \in Nat /\ now <= now'
        /\ Listed(d) => Listed(d)'
        /\ Gone(d) => Gone(d)'
    BY LifeGoesOn DEF TypeInv, TypeOK
  <2>3. Listed(d) /\ (Refused(v) => Gone(d) \/ 2 * exp <= now)
    BY <1>1, <1>3, <2>1 DEF VisitLife
  <2>4. 2 * exp <= now => 2 * exp <= now'
    BY <2>2
  <2> QED
    BY <2>1, <2>2, <2>3, <2>4 DEF VisitLife, Refused
<1> QED
  BY <1>2, <1>3

\* A visit is refused for its time, or because the university is gone.
LEMMA VisitLifeMoves ==
  ASSUME TypeInv, OpenInv, LifeInv, NEW v \in Visit, VisitStep(v)
  PROVE  \A w \in Visit : VisitLife(w)'
<1>0. /\ visit \in [Visit -> VisitState] /\ now \in Nat
      /\ links \in [Tokens -> Link] /\ Tokens \in SUBSET Token
  BY DEF TypeInv, TypeOK
<1>1. UNCHANGED <<now, listed, live, status>> /\ Next
  BY DEF VisitStep, ParseShareToken, FindShareLink, FindStudentByHash, IncrementShareLinkUsage,
     ResolveError, registry, Next
<1>2. \A w \in Visit \ {v} : visit'[w] = visit[w]
  BY <1>0 DEF VisitStep, ParseShareToken, FindShareLink, FindStudentByHash,
     IncrementShareLinkUsage, ResolveError, VisitGoto, VisitWith
<1>3. VisitLife(v) /\ VisitInv(v)
  BY DEF LifeInv, OpenInv
<1>4. \A d : Listed(d)' = Listed(d) /\ Gone(d)' = Gone(d)
  BY <1>1 DEF Listed, Gone
<1>5. VisitLife(v)'
  <2>1. ASSUME NEW k \in KnownTokens, ParseShareToken(v, k) PROVE VisitLife(v)'
    <3>1. PICK r \in Request : share[r].pc = "done" /\ share[r].token = k
      BY KnownTyped
    <3>2. k.diploma = RequestHash[r] /\ k.exp \in Nat
      BY <3>1 DEF TypeInv, Token
    <3>3. Listed(k.diploma)
      BY <3>1, <3>2 DEF LifeInv, RequestLife
    <3>4. visit'[v].token = k /\ visit'[v].pc = IF now < 2 * k.exp THEN "find" ELSE "invalid"
      BY <1>0, <2>1 DEF ParseShareToken
    <3>5. visit'[v].pc \in {"invalid", "expired", "notfound"} => 2 * k.exp <= now
      BY <1>0, <3>2, <3>4
    <3> QED
      BY <1>1, <1>4, <3>3, <3>4, <3>5 DEF VisitLife, Refused
  <2>2. ASSUME visit[v].pc # "new", visit'[v].token = visit[v].token,
               visit'[v].pc \in {"invalid", "expired", "notfound"} =>
                  Gone(visit[v].token.diploma) \/ 2 * visit[v].token.exp <= now
        PROVE  VisitLife(v)'
    BY <1>1, <1>3, <1>4, <2>2 DEF VisitLife, Refused
  <2>3. CASE FindShareLink(v)
    <3>1. visit[v].pc = "find" /\ visit'[v].token = visit[v].token
      BY <1>0, <2>3 DEF FindShareLink, VisitGoto, VisitWith
    <3>2. CASE visit[v].token \notin Tokens
      BY <1>3, <2>2, <3>1, <3>2 DEF VisitInv
    <3>3. CASE visit[v].token \in Tokens
      <4>1. /\ 2 * visit[v].token.exp <= links[visit[v].token].expires
            /\ visit[v].token.exp \in Nat /\ links[visit[v].token].expires \in Nat
        BY <1>0, <3>3 DEF LifeInv, Token, Link
      <4>2. visit'[v].pc = IF links[visit[v].token].expires < now THEN "expired" ELSE "read"
        BY <1>0, <2>3, <3>3 DEF FindShareLink, VisitWith
      <4>3. visit'[v].pc \in {"invalid", "expired", "notfound"} => 2 * visit[v].token.exp <= now
        BY <1>0, <4>1, <4>2
      <4> QED
        BY <2>2, <3>1, <4>3
    <3> QED
      BY <3>2, <3>3
  <2>4. CASE FindStudentByHash(v)
    <3>1. visit[v].pc = "read" /\ visit'[v].token = visit[v].token
      BY <1>0, <2>4 DEF FindStudentByHash, VisitGoto, VisitWith
    <3>2. CASE Found(visit[v].token.diploma)
      <4>1. visit'[v].pc = "count"
        BY <1>0, <2>4, <3>2 DEF FindStudentByHash, VisitWith
      <4> QED
        BY <2>2, <3>1, <4>1
    <3>3. CASE ~Found(visit[v].token.diploma)
      <4>1. Listed(visit[v].token.diploma) /\ Kept(visit[v].token.diploma)
        BY <1>3, <3>1 DEF VisitLife, VisitInv
      <4>2. Gone(visit[v].token.diploma)
        BY <3>3, <4>1 DEF Listed, Kept, Found
      <4> QED
        BY <2>2, <3>1, <4>2
    <3> QED
      BY <3>2, <3>3
  <2>5. CASE IncrementShareLinkUsage(v) \/ ResolveError(v)
    <3>1. /\ visit[v].pc # "new" /\ visit'[v].token = visit[v].token
          /\ visit'[v].pc \in {"answered", "error"}
      BY <1>0, <2>5 DEF IncrementShareLinkUsage, ResolveError, VisitGoto, VisitWith
    <3> QED
      BY <2>2, <3>1
  <2> QED
    BY <2>1, <2>3, <2>4, <2>5 DEF VisitStep
<1> QED
  BY <1>1, <1>2, <1>5, VisitLifeKept

LEMMA NextLifeInv ==
  ASSUME TypeInv, OpenInv, LifeInv, [Next]_vars
  PROVE  LifeInv'
<1>1. \A k \in Tokens' : 2 * k.exp <= links'[k].expires
  BY LifeOfRows
<1>2. CASE \E r \in Request : ShareStep(r)
  <2>1. UNCHANGED visit
    BY <1>2 DEF ShareStep, CheckDiploma, IssueShareToken, CreateShareLink, ShareError
  <2>2. \A r \in Request : RequestLife(r)'
    BY <1>2, RequestLifeMoves
  <2>3. \A v \in Visit : VisitLife(v)'
    BY <2>1, VisitLifeKept
  <2> QED
    BY <1>1, <2>2, <2>3 DEF LifeInv
<1>3. CASE \E v \in Visit : VisitStep(v)
  <2>1. UNCHANGED share
    BY <1>3 DEF VisitStep, ParseShareToken, FindShareLink, FindStudentByHash,
       IncrementShareLinkUsage, ResolveError
  <2>2. \A v \in Visit : VisitLife(v)'
    BY <1>3, VisitLifeMoves
  <2>3. \A r \in Request : RequestLife(r)'
    BY <2>1, RequestLifeKept
  <2> QED
    BY <1>1, <2>2, <2>3 DEF LifeInv
<1>4. CASE Tick \/ RegistryStep \/ UNCHANGED vars
  <2>1. UNCHANGED <<share, visit>>
    BY <1>4 DEF Tick, RegistryStep, RegisterDiploma, MarkDiplomaRevoked, DeleteShareLinks,
       DeleteHashes, vars
  <2> QED
    BY <1>1, <2>1, RequestLifeKept, VisitLifeKept DEF LifeInv
<1> QED
  BY <1>2, <1>3, <1>4 DEF Next

\* A link that was given out is refused only after its lifetime or its university.
THEOREM LinksOpenInTime == Spec => []LinksOpen
<1>1. Init => LifeInv
  BY DEF Init, LifeInv, RequestLife, VisitLife, Refused, NewVisit, Tokens
<1>2. OpenTablesInv /\ LifeInv /\ [Next]_vars => LifeInv'
  BY NextLifeInv DEF OpenTablesInv, TablesInv
<1>3. OpenTablesInv /\ LifeInv => LinksOpen
  <2> SUFFICES ASSUME OpenTablesInv, LifeInv, NEW v \in Visit,
                      visit[v].pc \in {"invalid", "expired", "notfound"},
                      DiplomaVuz[visit[v].token.diploma] \in live
               PROVE  now >= 2 * visit[v].token.exp
    BY DEF LinksOpen
  <2>1. 2 * visit[v].token.exp <= now
    BY DEF LifeInv, VisitLife, Refused, Gone
  <2>2. visit[v].token.exp \in Nat /\ now \in Nat
    BY DEF OpenTablesInv, TablesInv, TypeInv, TypeOK, Token
  <2> QED
    BY <2>1, <2>2
<1> QED
  BY OpenTablesInvariant, <1>1, <1>2, <1>3, PTL DEF Spec

-----------------------------------------------------------------------------
(* The counts. *)

LEMMA VisitsFinite ==
  ASSUME NEW k
  PROVE  /\ IsFiniteSet(Answered(k)) /\ Cardinality(Answered(k)) \in Nat
         /\ IsFiniteSet(Failed(k)) /\ Cardinality(Failed(k)) \in Nat
<1>1. Answered(k) \subseteq Visit /\ Failed(k) \subseteq Visit
  BY DEF Answered, Failed
<1> QED
  BY <1>1, DataAssumption, FS_Subset, FS_CardinalityType

\* The rows that a step leaves keep their counts when it leaves the visits.
LEMMA UsesKept ==
  ASSUME UsesCountAnswers, UNCHANGED visit, Tokens' \in SUBSET Tokens,
         \A k \in Tokens' : links'[k] = links[k]
  PROVE  UsesCountAnswers'
  BY DEF UsesCountAnswers, Answered, Failed

LEMMA UsesRegistry ==
  ASSUME TypeInv, UsesCountAnswers, RegistryStep
  PROVE  UsesCountAnswers'
<1>1. UNCHANGED visit
  BY DEF RegistryStep, RegisterDiploma, MarkDiplomaRevoked, DeleteShareLinks, DeleteHashes
<1>2. CASE UNCHANGED links
  BY <1>1, <1>2, UsesKept DEF Tokens
<1>3. ASSUME NEW u \in University, links' = [k \in Tokens \ TokensOf(u) |-> links[k]]
      PROVE  UsesCountAnswers'
  <2>1. Tokens' = Tokens \ TokensOf(u)
    BY <1>3, DeleteTyped
  <2>2. \A k \in Tokens' : links'[k] = links[k]
    BY <1>3, <2>1
  <2> QED
    BY <1>1, <2>1, <2>2, UsesKept
<1> QED
  BY <1>2, <1>3 DEF RegistryStep, RegisterDiploma, MarkDiplomaRevoked, DeleteShareLinks,
     DeleteHashes

\* A new link has had no visits: its token was not given to anybody yet.
LEMMA UsesRequest ==
  ASSUME TypeInv, RegisteredInv, OpenInv, UsesCountAnswers, NEW r \in Request, ShareStep(r)
  PROVE  UsesCountAnswers'
<1>1. UNCHANGED visit
  BY DEF ShareStep, CheckDiploma, IssueShareToken, CreateShareLink, ShareError
<1>2. CASE UNCHANGED links
  BY <1>1, <1>2, UsesKept DEF Tokens
<1>3. ASSUME share[r].pc = "insert", CanInsertLink(share[r].token),
             InsertLink(share[r].token, share[r].expires)
      PROVE  UsesCountAnswers'
  <2> DEFINE t == share[r].token
  <2>1. t \in Token /\ t.diploma \in Diploma /\ t \notin Tokens
    BY <1>3 DEF TypeInv, Token, CanInsertLink
  <2>2. ~Gone(t.diploma)
    BY <1>3, <2>1 DEF RegisteredInv, CanInsertLink
  <2>3. \A v \in Visit : visit[v].pc # "new" => visit[v].token # t
    BY <2>1, <2>2 DEF OpenInv, VisitInv
  <2>4. Answered(t) = {} /\ Failed(t) = {}
    BY <2>3 DEF Answered, Failed
  <2>5. /\ Tokens' = Tokens \cup {t} /\ links'[t].uses = 0
        /\ \A k \in Tokens : links'[k] = links[k]
    BY <1>3, <2>1 DEF InsertLink, Tokens
  <2>6. \A k : Answered(k)' = Answered(k) /\ Failed(k)' = Failed(k)
    BY <1>1 DEF Answered, Failed
  <2>7. Cardinality(Answered(t)) = 0 /\ Cardinality(Failed(t)) = 0
    BY <2>4, FS_EmptySet
  <2> QED
    BY <2>5, <2>6, <2>7 DEF UsesCountAnswers
<1> QED
  BY <1>2, <1>3 DEF ShareStep, CheckDiploma, IssueShareToken, CreateShareLink, ShareError

\* A visit moves on without having been counted.
LEMMA UsesStays ==
  ASSUME UsesCountAnswers, UNCHANGED links, NEW v \in Visit,
         \A w \in Visit \ {v} : visit'[w] = visit[w],
         visit[v].pc \notin {"answered", "error"}, visit'[v].pc \notin {"answered", "error"}
  PROVE  UsesCountAnswers'
<1>1. \A k : Answered(k)' = Answered(k) /\ Failed(k)' = Failed(k)
  BY DEF Answered, Failed
<1> QED
  BY <1>1 DEF UsesCountAnswers, Tokens

\* A visit ends, counted or not.
LEMMA UsesVisitEnds ==
  ASSUME TypeInv, UsesCountAnswers, NEW v \in Visit,
         NEW pc \in {"answered", "error"}, VisitGoto(v, pc),
         visit[v].pc \in {"find", "read", "count"},
         Counted(v) \/ (pc = "error" /\ UNCHANGED links)
  PROVE  UsesCountAnswers'
<1>0. PICK t : t = visit[v].token
  OBVIOUS
<1>1. visit \in [Visit -> VisitState] /\ links \in [Tokens -> Link]
  BY DEF TypeInv, TypeOK
<1>2. visit'[v].pc = pc /\ visit'[v].token = t /\ \A w \in Visit \ {v} : visit'[w] = visit[w]
  BY <1>0, <1>1 DEF VisitGoto, VisitWith
<1>3. v \notin Answered(t) /\ v \notin Failed(t)
  BY <1>0 DEF Answered, Failed
<1>4. \A k : k # t => Answered(k)' = Answered(k) /\ Failed(k)' = Failed(k)
  BY <1>0, <1>2 DEF Answered, Failed
<1>5. Tokens' = Tokens
  BY CountedTyped DEF Tokens
<1>6. ASSUME NEW k \in Tokens, k # t
      PROVE  links'[k] = links[k]
  BY <1>0, <1>1, <1>6 DEF Counted, Tokens, Link
<1>7. SUFFICES ASSUME t \in Tokens
               PROVE  /\ Cardinality(Answered(t)') <= links'[t].uses
                      /\ links'[t].uses <= Cardinality(Answered(t)') + Cardinality(Failed(t)')
  BY <1>4, <1>5, <1>6 DEF UsesCountAnswers
<1>8. /\ links[t].uses \in Nat
      /\ Cardinality(Answered(t)) <= links[t].uses
      /\ links[t].uses <= Cardinality(Answered(t)) + Cardinality(Failed(t))
  BY <1>1, <1>7 DEF UsesCountAnswers, Link
<1>9. /\ IsFiniteSet(Answered(t)) /\ Cardinality(Answered(t)) \in Nat
      /\ IsFiniteSet(Failed(t)) /\ Cardinality(Failed(t)) \in Nat
  BY VisitsFinite
<1>10. links'[t].uses = links[t].uses + 1 \/ (pc = "error" /\ links'[t].uses = links[t].uses)
  BY <1>0, <1>7 DEF Counted
<1>11. CASE pc = "answered"
  <2>1. Answered(t)' = Answered(t) \cup {v} /\ Failed(t)' = Failed(t)
    BY <1>2, <1>3, <1>11 DEF Answered, Failed
  <2>2. Cardinality(Answered(t) \cup {v}) = Cardinality(Answered(t)) + 1
    BY <1>3, <1>9, FS_AddElement
  <2> QED
    BY <1>8, <1>9, <1>10, <1>11, <2>1, <2>2
<1>12. CASE pc = "error"
  <2>1. Answered(t)' = Answered(t) /\ Failed(t)' = Failed(t) \cup {v}
    BY <1>2, <1>3, <1>12 DEF Answered, Failed
  <2>2. Cardinality(Failed(t) \cup {v}) = Cardinality(Failed(t)) + 1
    BY <1>3, <1>9, FS_AddElement
  <2> QED
    BY <1>8, <1>9, <1>10, <2>1, <2>2
<1> QED
  BY <1>11, <1>12

LEMMA UsesVisit ==
  ASSUME TypeInv, TypeInv', UsesCountAnswers, NEW v \in Visit, VisitStep(v)
  PROVE  UsesCountAnswers'
<1>0. visit \in [Visit -> VisitState]
  BY DEF TypeInv, TypeOK
<1>1. CASE IncrementShareLinkUsage(v)
  BY <1>1, UsesVisitEnds DEF IncrementShareLinkUsage
<1>2. CASE ResolveError(v)
  BY <1>2, UsesVisitEnds DEF ResolveError
<1>3. ASSUME NEW k \in KnownTokens, ParseShareToken(v, k) PROVE UsesCountAnswers'
  <2>1. /\ visit[v].pc = "new" /\ visit'[v].pc \in {"find", "invalid"} /\ UNCHANGED links
        /\ \A w \in Visit \ {v} : visit'[w] = visit[w]
    BY <1>0, <1>3 DEF ParseShareToken
  <2> QED
    BY <2>1, UsesStays
<1>4. CASE FindShareLink(v) \/ FindStudentByHash(v)
  <2>1. /\ visit[v].pc \in {"find", "read"} /\ UNCHANGED links
        /\ visit'[v].pc \in {"read", "expired", "invalid", "count", "notfound"}
        /\ \A w \in Visit \ {v} : visit'[w] = visit[w]
    BY <1>0, <1>4 DEF FindShareLink, FindStudentByHash, VisitGoto, VisitWith
  <2> QED
    BY <2>1, UsesStays
<1> QED
  BY <1>1, <1>2, <1>3, <1>4 DEF VisitStep

\* However many visits run at once, used_count counts the answers.
THEOREM UsesAreCounted == Spec => []UsesCountAnswers
<1>1. Init => UsesCountAnswers
  BY DEF Init, UsesCountAnswers, Tokens
<1>2. OpenTablesInv /\ OpenTablesInv' /\ UsesCountAnswers /\ [Next]_vars => UsesCountAnswers'
  <2> SUFFICES ASSUME OpenTablesInv, OpenTablesInv', UsesCountAnswers, [Next]_vars
               PROVE  UsesCountAnswers'
    OBVIOUS
  <2>1. TypeInv /\ TypeInv' /\ RegisteredInv /\ OpenInv
    BY DEF OpenTablesInv, TablesInv
  <2>2. CASE Tick \/ UNCHANGED vars
    BY <2>2, UsesKept DEF Tick, vars, Tokens
  <2>3. CASE RegistryStep
    BY <2>1, <2>3, UsesRegistry
  <2>4. CASE \E r \in Request : ShareStep(r)
    BY <2>1, <2>4, UsesRequest
  <2>5. CASE \E v \in Visit : VisitStep(v)
    BY <2>1, <2>5, UsesVisit
  <2> QED
    BY <2>2, <2>3, <2>4, <2>5 DEF Next
<1> QED
  BY OpenTablesInvariant, <1>1, <1>2, PTL DEF Spec
=============================================================================
