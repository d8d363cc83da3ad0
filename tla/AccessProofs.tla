---------------------------- MODULE AccessProofs ----------------------------
(***************************************************************************)
(* Proofs about Access, for any universities, e-mails and requests.        *)
(***************************************************************************)
EXTENDS Access, TLAPS

(* A request in flight has seen every university that is active now; so the
   status the middleware reads is in its history, and stays there while the
   handler runs. *)

SeenInv ==
    /\ \A r \in InFlight : Active \subseteq wasActive[r]
    /\ \A r \in Request : request[r].pc \in {"issue", "admitted"} =>
          request[r].vuz \in wasActive[r]

AccessInv == TypeOK /\ SeenInv /\ DoneWhileActive /\ RowsHaveUniversities

Pc == {"new", "arrived", "issue", "check", "resolve", "admitted", "done", "refused"}

-----------------------------------------------------------------------------
(* Steps of a request that change nothing else *)

\* A request may go on as u if u is in its history wherever that matters.
LEMMA RequestStep ==
  ASSUME AccessInv, NEW r \in Request, NEW s \in RequestState,
         request' = [request EXCEPT ![r] = s],
         UNCHANGED <<tables, wasActive>>,
         tokens' \in SUBSET Made, tokens \subseteq tokens', expired' \subseteq tokens',
         r \in InFlight,
         s.pc \in {"issue", "admitted", "done"} => s.vuz \in wasActive[r]
  PROVE  AccessInv'
<1>1. TypeOK'
  BY DEF AccessInv, TypeOK, tables, Live
<1>2. \A q \in Request : request'[q] = IF q = r THEN s ELSE request[q]
  BY DEF AccessInv, TypeOK
<1>3. SeenInv'
  BY <1>2 DEF AccessInv, SeenInv, InFlight, Active, tables
<1>4. DoneWhileActive' /\ RowsHaveUniversities'
  BY <1>2 DEF AccessInv, DoneWhileActive, RowsHaveUniversities, Live, tables
<1> QED
  BY <1>1, <1>3, <1>4 DEF AccessInv

LEMMA Refused ==
  ASSUME AccessInv, NEW r \in InFlight, Refuse(r), UNCHANGED <<tables, tokens, expired, wasActive>>
  PROVE  AccessInv'
<1>1. Ended("refused", None) \in RequestState /\ Ended("refused", None).pc = "refused"
  BY DEF Ended, RequestState
<1> QED
  BY <1>1, RequestStep DEF Refuse, InFlight, AccessInv, TypeOK

LEMMA GoesOn ==
  ASSUME AccessInv, NEW r \in InFlight, NEW u \in University \cup {None}, NEW pc \in Pc,
         Goto(r, pc, u), UNCHANGED <<tables, tokens, expired, wasActive>>,
         pc \in {"issue", "admitted", "done"} => u \in wasActive[r]
  PROVE  AccessInv'
<1> DEFINE s == [pc |-> pc, token |-> request[r].token, key |-> request[r].key, vuz |-> u]
<1>1. s \in RequestState /\ s.pc = pc /\ s.vuz = u
  BY DEF AccessInv, TypeOK, RequestState, Pc, InFlight
<1>2. request' = [request EXCEPT ![r] = s]
  BY DEF Goto
<1> HIDE DEF s
<1> QED
  BY <1>1, <1>2, RequestStep DEF InFlight, AccessInv, TypeOK

-----------------------------------------------------------------------------
(* Each step preserves the invariant *)

LEMMA StatusStep ==
  ASSUME AccessInv, NEW u \in University, NEW s \in {"pending", "active", "blocked"},
         u \in Live \/ (status[u] = "absent" /\ EmailFree(UniversityEmail[u])),
         SetStatus(u, s),
         UNCHANGED <<batches, keys, purging, removed, tokens, expired, request>>
  PROVE  AccessInv'
<1>1. status' = [status EXCEPT ![u] = s] /\ Live' = Live \cup {u}
  BY DEF SetStatus, AccessInv, TypeOK, Live, Status
<1>2. /\ wasActive' \in [Request -> SUBSET University]
      /\ \A r \in Request : wasActive[r] \subseteq wasActive'[r]
      /\ \A r \in InFlight : s = "active" => u \in wasActive'[r]
  BY DEF SetStatus, AccessInv, TypeOK, InFlight
<1>3. Active' \subseteq IF s = "active" THEN Active \cup {u} ELSE Active
  BY <1>1 DEF AccessInv, TypeOK, Active
<1>4. \A v, w \in Live' : UniversityEmail[v] = UniversityEmail[w] => v = w
  BY <1>1 DEF AccessInv, TypeOK, EmailFree
<1>5. TypeOK'
  BY <1>1, <1>2, <1>4 DEF AccessInv, TypeOK, Status
<1>6. InFlight' = InFlight /\ InFlight \subseteq Request
  BY DEF InFlight
<1>7. SeenInv'
  BY <1>2, <1>3, <1>6 DEF AccessInv, SeenInv
<1>8. DoneWhileActive' /\ RowsHaveUniversities'
  BY <1>1, <1>2 DEF AccessInv, DoneWhileActive, RowsHaveUniversities
<1> QED
  BY <1>5, <1>7, <1>8 DEF AccessInv

LEMMA RestartStep ==
  ASSUME AccessInv, NEW u \in University, Restart(u)
  PROVE  AccessInv'
<1>1. status' = [status EXCEPT ![u] = "active"] /\ Live' = Live \cup {u}
  BY DEF Restart, AccessInv, TypeOK, Live, Status
<1>2. \A v, w \in Live' : UniversityEmail[v] = UniversityEmail[w] => v = w
  BY <1>1 DEF Restart, AccessInv, TypeOK, EmailFree
<1>3. Ended("refused", None) \in RequestState
  BY DEF Ended, RequestState
<1>4. /\ request' \in [Request -> RequestState]
      /\ \A r \in Request : request'[r].pc = "refused" \/ (request'[r] = request[r] /\ r \notin InFlight)
  BY <1>3 DEF Restart, AccessInv, TypeOK, Ended
<1>5. TypeOK'
  BY <1>1, <1>2, <1>4 DEF Restart, AccessInv, TypeOK, Status
<1>6. InFlight' = {} /\ UNCHANGED <<batches, keys, wasActive>>
  BY <1>4 DEF InFlight, Restart
<1>7. SeenInv' /\ DoneWhileActive'
  BY <1>4, <1>6 DEF AccessInv, SeenInv, DoneWhileActive, InFlight
<1>8. RowsHaveUniversities'
  BY <1>1, <1>6 DEF AccessInv, RowsHaveUniversities
<1> QED
  BY <1>5, <1>7, <1>8 DEF AccessInv

LEMMA DeleteStep ==
  ASSUME AccessInv, NEW u \in University, DeleteUniversity(u)
  PROVE  AccessInv'
<1>0. /\ u \in purging /\ purging' = purging \ {u} /\ removed' = removed \ Of(u, removed)
      /\ UNCHANGED <<tokens, expired, request>>
  BY DEF DeleteUniversity
<1>1. CASE UNCHANGED <<status, batches, keys, wasActive>>
  <2>1. TypeOK'
    BY <1>0, <1>1 DEF AccessInv, TypeOK, Live
  <2> QED
    BY <1>0, <1>1, <2>1 DEF AccessInv, SeenInv, DoneWhileActive, RowsHaveUniversities, Live, Active,
       InFlight
<1>2. CASE /\ batches' = batches \ Of(u, batches)
           /\ keys' = keys \ Of(u, keys)
           /\ SetStatus(u, "deleted")
  <2>1. status' = [status EXCEPT ![u] = "deleted"] /\ Live' = Live \ {u} /\ Active' \subseteq Active
    BY <1>2 DEF SetStatus, AccessInv, TypeOK, Live, Active, Status
  <2>2. wasActive' = wasActive
    BY <1>2 DEF SetStatus, AccessInv, TypeOK
  <2>3. TypeOK'
    BY <1>0, <1>2, <2>1, <2>2 DEF AccessInv, TypeOK, Status
  <2>4. SeenInv' /\ DoneWhileActive'
    BY <1>0, <2>1, <2>2 DEF AccessInv, SeenInv, DoneWhileActive, InFlight
  <2>5. RowsHaveUniversities'
    BY <1>2, <2>1 DEF AccessInv, RowsHaveUniversities, Of
  <2> QED
    BY <2>3, <2>4, <2>5 DEF AccessInv
<1> QED
  BY <1>1, <1>2 DEF DeleteUniversity

LEMMA ArriveStep ==
  ASSUME AccessInv, NEW r \in Request, Arrive(r)
  PROVE  AccessInv'
<1>1. PICK token \in tokens \cup {None}, key \in keys \cup {None} :
        request' = [request EXCEPT ![r] =
                      [pc |-> "arrived", token |-> token, key |-> key, vuz |-> None]]
  BY DEF Arrive
<1> DEFINE s == [pc |-> "arrived", token |-> token, key |-> key, vuz |-> None]
<1>2. s \in RequestState /\ s.pc = "arrived"
  BY DEF AccessInv, TypeOK, RequestState
<1>3. \A q \in Request : request'[q] = IF q = r THEN s ELSE request[q]
  BY <1>1 DEF AccessInv, TypeOK
<1> HIDE DEF s
<1>4. /\ wasActive' \in [Request -> SUBSET University]
      /\ \A q \in Request : wasActive'[q] = IF q = r THEN Active ELSE wasActive[q]
  BY DEF Arrive, AccessInv, TypeOK, Active
<1>5. UNCHANGED <<status, batches, keys, purging, removed, tokens, expired>>
  BY DEF Arrive, tables
<1>6. request' \in [Request -> RequestState]
  BY <1>1, <1>2 DEF AccessInv, TypeOK, s
<1>7. TypeOK'
  BY <1>4, <1>5, <1>6 DEF AccessInv, TypeOK, Live
<1>8. SeenInv'
  BY <1>2, <1>3, <1>4, <1>5 DEF AccessInv, SeenInv, InFlight, Active
<1>9. DoneWhileActive' /\ RowsHaveUniversities'
  BY <1>2, <1>3, <1>4, <1>5 DEF AccessInv, DoneWhileActive, RowsHaveUniversities, Live
<1> QED
  BY <1>7, <1>8, <1>9 DEF AccessInv

LEMMA LoginStep ==
  ASSUME AccessInv, NEW r \in Request, Login(r)
  PROVE  AccessInv'
<1>1. CASE FindByEmail(r)
  <2>1. r \in InFlight /\ UNCHANGED <<tables, tokens, expired, wasActive>>
    BY <1>1 DEF FindByEmail, InFlight
  <2>2. CASE Refuse(r)
    BY <2>1, <2>2, Refused
  <2>3. ASSUME NEW u \in Active, Goto(r, "issue", u) PROVE AccessInv'
    BY <2>1, <2>3, GoesOn DEF AccessInv, SeenInv, Active, Pc
  <2> QED
    BY <1>1, <2>2, <2>3 DEF FindByEmail
<1>2. CASE IssueAccessToken(r)
  <2> DEFINE u == request[r].vuz
             s == Ended("done", u)
  <2>1. r \in InFlight /\ u \in wasActive[r] /\ u \in University
    BY <1>2 DEF IssueAccessToken, InFlight, AccessInv, SeenInv, TypeOK
  <2>2. s \in RequestState /\ s.vuz = u
    BY <2>1 DEF Ended, RequestState
  <2>3. tokens' \in SUBSET Made /\ tokens \subseteq tokens' /\ expired' \subseteq tokens'
    BY <1>2, <2>1 DEF IssueAccessToken, AccessInv, TypeOK, Made
  <2>4. request' = [request EXCEPT ![r] = s] /\ UNCHANGED <<tables, wasActive>>
    BY <1>2 DEF IssueAccessToken, Finish
  <2> HIDE DEF s, u
  <2> QED
    BY <2>1, <2>2, <2>3, <2>4, RequestStep
<1> QED
  BY <1>1, <1>2 DEF Login

LEMMA MiddlewareStep ==
  ASSUME AccessInv, NEW r \in Request, Middleware(r)
  PROVE  AccessInv'
<1>1. r \in InFlight /\ UNCHANGED <<tables, tokens, expired, wasActive>>
  BY DEF Middleware, ParseAccessToken, FindByID, ResolveActiveUniversity, InFlight
<1>2. CASE Refuse(r)
  BY <1>1, <1>2, Refused
<1>3. CASE ParseAccessToken(r) /\ ~Refuse(r)
  <2>1. CASE request[r].token \in tokens \ expired
    <3>1. request[r].token.vuz \in University
      BY <2>1 DEF AccessInv, TypeOK, Made
    <3> QED
      BY <1>1, <1>3, <2>1, <3>1, GoesOn DEF ParseAccessToken, Pc
  <2>2. CASE request[r].token \notin tokens \ expired
    BY <1>1, <1>3, <2>2, GoesOn DEF ParseAccessToken, Pc
  <2> QED
    BY <2>1, <2>2
<1>4. CASE FindByID(r) /\ ~Refuse(r)
  <2>1. request[r].vuz \in Active /\ Goto(r, "admitted", request[r].vuz)
    BY <1>4 DEF FindByID
  <2> QED
    BY <1>1, <2>1, GoesOn DEF AccessInv, SeenInv, Active, Pc
<1>5. CASE ResolveActiveUniversity(r) /\ ~Refuse(r)
  <2>1. request[r].key.vuz \in Active /\ Goto(r, "admitted", request[r].key.vuz)
    BY <1>5 DEF ResolveActiveUniversity
  <2> QED
    BY <1>1, <2>1, GoesOn DEF AccessInv, SeenInv, Active, Pc
<1> QED
  BY <1>2, <1>3, <1>4, <1>5 DEF Middleware

LEMMA ActStep ==
  ASSUME AccessInv, NEW r \in Request, Act(r)
  PROVE  AccessInv'
<1> DEFINE u == request[r].vuz
           s == Ended("done", u)
<1>1. u \in Live /\ u \in wasActive[r] /\ u \in University
  BY DEF Act, Insertable, Live, AccessInv, SeenInv
<1>2. s \in RequestState /\ s.pc = "done" /\ s.vuz = u
  BY <1>1 DEF Ended, RequestState
<1>3. /\ request' = [request EXCEPT ![r] = s]
      /\ UNCHANGED <<status, purging, removed, tokens, expired, wasActive>>
  BY DEF Act, Finish
<1>4. /\ batches' \subseteq batches \cup {[by |-> r, vuz |-> u]}
      /\ keys' \subseteq keys \cup {[by |-> r, vuz |-> u]}
  BY DEF Act
<1>5. [by |-> r, vuz |-> u] \in Made
  BY <1>1 DEF Made
<1> HIDE DEF s, u
<1>6. TypeOK'
  BY <1>2, <1>3, <1>4, <1>5 DEF AccessInv, TypeOK, Live
<1>7. \A q \in Request : request'[q] = IF q = r THEN s ELSE request[q]
  BY <1>3 DEF AccessInv, TypeOK
<1>8. SeenInv' /\ DoneWhileActive'
  BY <1>1, <1>2, <1>3, <1>7 DEF AccessInv, SeenInv, DoneWhileActive, InFlight, Active
<1>9. RowsHaveUniversities'
  BY <1>1, <1>3, <1>4 DEF AccessInv, RowsHaveUniversities, Live
<1> QED
  BY <1>6, <1>8, <1>9 DEF AccessInv

LEMMA AccessInvariant == Spec => []AccessInv
<1>1. ASSUME Init PROVE AccessInv
  <2>1. InFlight = {} /\ Live = {} /\ NewRequest \in RequestState
    BY <1>1 DEF Init, InFlight, Live, NewRequest, RequestState
  <2> QED
    BY <1>1, <2>1 DEF Init, AccessInv, TypeOK, SeenInv, DoneWhileActive, RowsHaveUniversities, Status,
       NewRequest
<1>2. AccessInv /\ [Next]_vars => AccessInv'
  <2> SUFFICES ASSUME AccessInv, [Next]_vars PROVE AccessInv'
    OBVIOUS
  <2>1. ASSUME NEW u \in University, Register(u) PROVE AccessInv'
    BY <2>1, StatusStep DEF Register
  <2>2. ASSUME NEW u \in University, NEW s \in {"pending", "active", "blocked"}, UpdateStatus(u, s)
        PROVE  AccessInv'
    BY <2>2, StatusStep DEF UpdateStatus
  <2>3. ASSUME NEW u \in University, DeleteBatches(u) PROVE AccessInv'
    BY <2>3 DEF DeleteBatches, Of, AccessInv, TypeOK, SeenInv, DoneWhileActive, RowsHaveUniversities,
       Live, Active, InFlight
  <2>4. ASSUME NEW k \in tokens, Expire(k) PROVE AccessInv'
    BY <2>4 DEF Expire, tables, AccessInv, TypeOK, SeenInv, DoneWhileActive, RowsHaveUniversities,
       Live, Active, InFlight
  <2>5. ASSUME NEW r \in Request, RequestError(r) PROVE AccessInv'
    BY <2>5, Refused DEF RequestError
  <2>6. CASE UNCHANGED vars
    BY <2>6 DEF vars, tables, AccessInv, TypeOK, SeenInv, DoneWhileActive, RowsHaveUniversities,
       Live, Active, InFlight
  <2> QED
    BY <2>1, <2>2, <2>3, <2>4, <2>5, <2>6, RestartStep, DeleteStep, ArriveStep, LoginStep,
       MiddlewareStep, ActStep DEF Next
<1> QED
  BY <1>1, <1>2, PTL DEF Spec

\* Every variable keeps its type, and two universities never have one e-mail,
\* whatever registrations, deletions and restarts come together.
THEOREM AccessTyped == Spec => []TypeOK
<1>1. AccessInv => TypeOK
  BY DEF AccessInv
<1> QED
  BY <1>1, AccessInvariant, PTL

\* Old tokens and API keys give nothing: whatever a request does is done for a
\* university that was active at a moment since the request came.
THEOREM NothingForTheBlocked == Spec => []DoneWhileActive
<1>1. AccessInv => DoneWhileActive
  BY DEF AccessInv
<1> QED
  BY <1>1, AccessInvariant, PTL

\* DeleteCascade leaves no batch and no API key behind, whatever is inserted
\* between its statements.
THEOREM DeletionIsComplete == Spec => []RowsHaveUniversities
<1>1. AccessInv => RowsHaveUniversities
  BY DEF AccessInv
<1> QED
  BY <1>1, AccessInvariant, PTL
=============================================================================
