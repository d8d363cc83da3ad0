------------------------- MODULE VerificationProofs -------------------------
(***************************************************************************)
(* Proofs about Verification, for any universities, records and requests.  *)
(***************************************************************************)
EXTENDS Verification, FiniteSetTheorems, TLAPS

-----------------------------------------------------------------------------
(* What the three programs compute. *)

LEMMA ParsedTyped ==
  ASSUME NEW up \in Upload
  PROVE  up.vuz \in University /\ Parsed(up) \in Data
<1>1. up \in [vuz : University, csv : BOOLEAN, data : Data]
  BY UploadAssumption
<1>2. \A f \in FieldName : Trim(up.data[f]) \in Field
  BY <1>1 DEF Data, Field, Trim
<1> QED
  BY <1>1, <1>2 DEF Parsed, Data

LEMMA QrCodeTyped ==
  ASSUME NEW u \in University, NEW data \in Data, NEW key
  PROVE  /\ DiplomaHash(u, data) \in Hash
         /\ key \in Wide => QrCode(u, data, key) \in Code
         /\ QrCode(u, data, key).vuz = u /\ QrCode(u, data, key).data = data
         /\ QrCode(u, data, key).hash = DiplomaHash(u, data)
         /\ QrCode(u, data, key).key = key
         /\ DiplomaHash(u, data).vuz = u /\ DiplomaHash(u, data).data = data
<1>1. Trim(data["diploma_number"]) \in Field
  BY DEF Data, FieldName, Field, Trim
<1>2. Salt(u, data) \in University \X Field
  BY <1>1 DEF Salt
<1> QED
  BY <1>2 DEF DiplomaHash, QrCode, Hash, Code

LEMMA TrimClean ==
  ASSUME NEW field \in Field, ~field.spaced
  PROVE  Trim(field) = field
  BY DEF Field, Trim

\* What the verifier demands of a payload, a clean accepted record has.
LEMMA CleanIsValid ==
  ASSUME NEW data \in Data, Clean(data), Accepted(data)
  PROVE  ValidPayload(data)
<1> SUFFICES ASSUME NEW f \in {"diploma_number", "full_name", "specialty"}, IsBlank(data[f])
             PROVE  FALSE
  BY DEF ValidPayload
<1>1. f \in FieldName /\ data[f] \in Field
  BY DEF FieldName, Data
<1>2. data[f] = [text |-> Blank, spaced |-> FALSE]
  BY <1>1 DEF IsBlank, Clean, Field
<1> QED
  BY <1>1, <1>2 DEF Accepted

\* The verifier trims before it hashes, the engine does not: they agree on what
\* has no stray spaces, and on nothing else.
THEOREM HashesAgreeOnCleanData ==
  ASSUME NEW u \in University, NEW data \in Data, NEW key
  PROVE  RecomputedHash(QrCode(u, data, key)) = QrCode(u, data, key).hash <=> Clean(data)
<1>1. ASSUME Clean(data) PROVE RecomputedHash(QrCode(u, data, key)) = QrCode(u, data, key).hash
  <2>1. \A f \in FieldName : Trim(data[f]) = data[f]
    BY <1>1, TrimClean DEF Data, Clean
  <2>2. [f \in FieldName |-> Trim(data[f])] = data
    BY <2>1 DEF Data
  <2> QED
    BY <2>2 DEF RecomputedHash, QrCode, DiplomaHash
<1>2. ASSUME RecomputedHash(QrCode(u, data, key)) = QrCode(u, data, key).hash, NEW f \in FieldName
      PROVE  ~data[f].spaced
  <2>1. data = [g \in FieldName |-> Trim(data[g])]
    BY <1>2 DEF RecomputedHash, QrCode, DiplomaHash
  <2>2. data[f] = Trim(data[f])
    BY <2>1
  <2>3. Trim(data[f]).spaced = FALSE
    BY DEF Trim
  <2> QED
    BY <2>2, <2>3
<1> QED
  BY <1>1, <1>2 DEF Clean

-----------------------------------------------------------------------------
(* The keys. *)

LEMMA Keys ==
  ASSUME NEW s \in Secret
  PROVE  /\ EngineKey(s) \in Wide \cup {None}
         /\ None \notin Wide
  BY SecretAssumption DEF EngineKey, Bytes

\* Three derivations of one key, from any text: where the engine has a key at all,
\* the gateway has it too, and so has pubver under each of its variables.
THEOREM DerivationsAgree ==
  ASSUME NEW s \in Secret, EngineKey(s) # None, NEW name \in EnvName
  PROVE  GatewayKey(s) = EngineKey(s) /\ JWTEncKey(name, s) = EngineKey(s)
<1>1. /\ s.std \in Wide /\ EngineKey(s) = s.std
      /\ s.std # None /\ s.hex \notin Wide /\ ~s.blank
  BY SecretAssumption DEF EngineKey, Bytes
<1>2. HexKey(s) = None /\ Base64Key(s) = s.std
  BY <1>1 DEF HexKey, Base64Key, First
<1>3. GatewayKey(s) = s.std
  BY <1>1, <1>2 DEF GatewayKey, First
<1>4. JWTEncKey(name, s) = s.std
  BY <1>1, <1>2 DEF JWTEncKey, First, EnvName
<1> QED
  BY <1>1, <1>3, <1>4

-----------------------------------------------------------------------------
(* The inductive invariant. *)

Wellformed(u, data) ==
    data \in Data /\ Accepted(data) /\ ~IsBlank(data["diploma_number"])

\* Registered hashes are the engine's, of universities that exist, and no two of
\* a university have one number.
RegistryInv ==
    /\ \A h \in Registered : /\ h.vuz \in live
                             /\ Wellformed(h.vuz, h.data)
                             /\ h = DiplomaHash(h.vuz, h.data)
    /\ \A g, h \in Registered :
          g.vuz = h.vuz /\ g.data["diploma_number"] = h.data["diploma_number"] => g = h

\* A code outlives its diploma only together with its university.
CodesInv ==
    \A c \in codes : /\ c = QrCode(c.vuz, c.data, PayloadKey)
                     /\ Wellformed(c.vuz, c.data)
                     /\ c.hash \in Registered \/ c.vuz \notin live

\* Nothing is registered without a key; a row that says "ok" has its diploma.
RowsInv ==
    /\ Registered # {} => PayloadKey \in Wide
    /\ \A up \in Upload : rows[up] = "ok" =>
          /\ CodeOf(up) \in codes
          /\ CodeOf(up).hash \in Registered

RequestInv(q) ==
    LET c == request[q].code IN
    /\ request[q].pc \in {"lookup", "answered", "invalid"} => c \in codes
    /\ request[q].pc = "invalid" /\ Clean(c.data) => c.vuz \notin live
    /\ request[q].pc = "lookup" =>
          /\ request[q].seen = "not_found" => c.vuz \notin live
          /\ request[q].seen = "revoked" => Lookup(c.hash) # "active"
    /\ request[q].pc = "answered" =>
          /\ request[q].answer = "not_found" => c.vuz \notin live
          /\ request[q].seen = "not_found" => request[q].answer = "not_found"
          /\ request[q].seen = "revoked" => request[q].answer # "active"

IInv ==
    /\ TypeOK /\ RegistryInv /\ CodesInv /\ RowsInv
    /\ \A q \in Request : RequestInv(q)

LEMMA InitIInv == Init => IInv
  BY DEF Init, IInv, TypeOK, RegistryInv, CodesInv, RowsInv, RequestInv, Registered,
     RequestState, Answer

\* The request steps leave the tables alone.
LEMMA RequestMoves ==
  ASSUME IInv, NEW q \in Request, NEW st \in RequestState,
         request' = [request EXCEPT ![q] = st],
         UNCHANGED <<secrets, live, status, rows, codes>>,
         RequestInv(q)'
  PROVE  IInv'
<1>1. TypeOK'
  BY DEF IInv, TypeOK, Registered
<1>2. RegistryInv' /\ CodesInv' /\ RowsInv'
  BY DEF IInv, RegistryInv, CodesInv, RowsInv, CodeOf, PayloadKey, Registered
<1>3. ASSUME NEW p \in Request, p # q PROVE RequestInv(p)'
  <2>1. request'[p] = request[p]
    BY <1>3 DEF IInv, TypeOK
  <2> QED
    BY <2>1 DEF IInv, RequestInv, Lookup, Registered
<1> QED
  BY <1>1, <1>2, <1>3 DEF IInv

\* The steps of the tables: a request keeps what it knows of its code.
LEMMA TablesMove ==
  ASSUME IInv, UNCHANGED request, codes \in SUBSET codes', live' \in SUBSET live,
         \A c \in codes : Lookup(c.hash)' = "active" => Lookup(c.hash) = "active"
  PROVE  \A q \in Request : RequestInv(q)'
  BY DEF IInv, RequestInv

LEMMA InsertIInv ==
  ASSUME IInv, NEW up \in Upload, InsertDiplomaHash(up)
  PROVE  IInv'
<1> DEFINE data == Parsed(up)
           new == DiplomaHash(up.vuz, data)
<1>1. /\ up.vuz \in live /\ live \in SUBSET University
      /\ data \in Data /\ Wellformed(up.vuz, data)
      /\ new \in Hash /\ new.vuz = up.vuz /\ new.data = data
  BY ParsedTyped, QrCodeTyped DEF IInv, TypeOK, InsertDiplomaHash, Wellformed
<1>2. /\ Registered' = Registered \cup {new}
      /\ \A h \in Registered : status'[h] = status[h]
      /\ status'[new] \in {"active", "revoked"}
      /\ status' \in [Registered' -> {"active", "revoked"}]
  BY DEF IInv, TypeOK, InsertDiplomaHash, Registered
<1>3. UNCHANGED <<secrets, live, rows, codes, request>>
  BY DEF InsertDiplomaHash
<1>4. TypeOK'
  BY <1>1, <1>2, <1>3 DEF IInv, TypeOK
<1>5. RegistryInv'
  <2>1. \A h \in Registered :
           ~(h.vuz = new.vuz /\ h.data["diploma_number"] = new.data["diploma_number"])
    BY <1>1 DEF InsertDiplomaHash, NumberTaken
  <2> QED
    BY <1>1, <1>2, <1>3, <2>1 DEF IInv, RegistryInv
<1>6. CodesInv' /\ RowsInv'
  <2>1. PayloadKey \in Wide
    BY Keys DEF IInv, TypeOK, InsertDiplomaHash, Signable, PayloadKey
  <2> QED
    BY <1>2, <1>3, <2>1 DEF IInv, CodesInv, RowsInv, CodeOf, PayloadKey
<1>7. ASSUME NEW c \in codes, Lookup(c.hash)' = "active" PROVE Lookup(c.hash) = "active"
  <2>1. c.hash \in Registered
    <3>1. CASE c.hash = new
      <4>1. c.hash.vuz = c.vuz
        BY QrCodeTyped DEF IInv, CodesInv, TypeOK, Code, QrCode, DiplomaHash
      <4> QED
        BY <1>1, <3>1, <4>1 DEF IInv, CodesInv
    <3>2. CASE c.hash # new
      BY <1>2, <1>7, <3>2 DEF Lookup
    <3> QED
      BY <3>1, <3>2
  <2> QED
    BY <1>2, <1>7, <2>1 DEF Lookup
<1>8. \A q \in Request : RequestInv(q)'
  BY <1>3, <1>7, TablesMove
<1> QED
  BY <1>4, <1>5, <1>6, <1>8 DEF IInv

LEMMA PersistIInv ==
  ASSUME IInv, NEW up \in Upload, PersistResult(up)
  PROVE  IInv'
<1> DEFINE data == Parsed(up)
           code == CodeOf(up)
<1>1. PayloadKey \in Wide
  BY DEF IInv, RowsInv, PersistResult
<1>2. /\ code \in Code /\ code.vuz = up.vuz /\ code.data = data
      /\ code = QrCode(up.vuz, data, PayloadKey)
      /\ code.hash \in Registered
      /\ code.hash.vuz = up.vuz /\ code.hash.data = data
  BY <1>1, ParsedTyped, QrCodeTyped DEF PersistResult, CodeOf
<1>3. /\ rows' = [rows EXCEPT ![up] = "ok"] /\ codes' = codes \cup {code}
      /\ UNCHANGED <<secrets, live, status, request>>
  BY DEF PersistResult
<1>4. /\ PayloadKey' = PayloadKey /\ Registered' = Registered
      /\ \A x \in Upload : CodeOf(x)' = CodeOf(x)
  BY <1>3 DEF PayloadKey, Registered, CodeOf
<1>5. TypeOK'
  BY <1>2, <1>3, <1>4 DEF IInv, TypeOK
<1>6. RegistryInv'
  BY <1>3, <1>4 DEF IInv, RegistryInv
<1>7. CodesInv'
  <2>1. Wellformed(code.vuz, code.data)
    BY <1>2 DEF IInv, RegistryInv, Wellformed
  <2>2. code = QrCode(code.vuz, code.data, PayloadKey)
    BY <1>2
  <2> HIDE DEF code
  <2> QED
    BY <1>2, <1>3, <1>4, <2>1, <2>2 DEF IInv, CodesInv
<1>8. RowsInv'
  BY <1>2, <1>3, <1>4 DEF IInv, TypeOK, RowsInv
<1>9. \A q \in Request : RequestInv(q)'
  BY <1>3, TablesMove DEF Lookup, Registered
<1> QED
  BY <1>5, <1>6, <1>7, <1>8, <1>9 DEF IInv

LEMMA ErrorRowIInv ==
  ASSUME IInv, NEW up \in Upload, PersistErrorRow(up)
  PROVE  IInv'
<1>1. /\ rows' = [rows EXCEPT ![up] = "error"]
      /\ UNCHANGED <<secrets, live, status, codes, request>>
  BY DEF PersistErrorRow
<1>2. /\ PayloadKey' = PayloadKey /\ Registered' = Registered
      /\ \A x \in Upload : CodeOf(x)' = CodeOf(x)
  BY <1>1 DEF PayloadKey, Registered, CodeOf
<1>3. TypeOK' /\ RegistryInv' /\ CodesInv'
  BY <1>1, <1>2 DEF IInv, TypeOK, RegistryInv, CodesInv
<1>4. RowsInv'
  BY <1>1, <1>2 DEF IInv, TypeOK, RowsInv
<1>5. \A q \in Request : RequestInv(q)'
  BY <1>1, TablesMove DEF Lookup, Registered
<1> QED
  BY <1>3, <1>4, <1>5 DEF IInv

LEMMA RevokeIInv ==
  ASSUME IInv, NEW h \in Registered, MarkDiplomaRevoked(h)
  PROVE  IInv'
<1>1. /\ Registered' = Registered
      /\ status' \in [Registered -> {"active", "revoked"}]
      /\ \A g \in Registered : status'[g] = "active" => status[g] = "active"
      /\ UNCHANGED <<secrets, live, rows, codes, request>>
  BY DEF IInv, TypeOK, MarkDiplomaRevoked, Registered
<1>2. TypeOK' /\ RegistryInv' /\ CodesInv' /\ RowsInv'
  BY <1>1 DEF IInv, TypeOK, RegistryInv, CodesInv, RowsInv, CodeOf, PayloadKey
<1>3. \A q \in Request : RequestInv(q)'
  BY <1>1, TablesMove DEF Lookup
<1> QED
  BY <1>2, <1>3 DEF IInv

LEMMA DeleteIInv ==
  ASSUME IInv, NEW u \in University, DeleteCascade(u)
  PROVE  IInv'
<1>1. /\ Registered' = {g \in Registered : g.vuz # u}
      /\ status' \in [Registered' -> {"active", "revoked"}]
      /\ \A g \in Registered' : status'[g] = status[g]
      /\ live' = live \ {u}
      /\ rows' = [up \in Upload |-> IF up.vuz = u THEN "none" ELSE rows[up]]
      /\ UNCHANGED <<secrets, codes, request>>
  BY DEF IInv, TypeOK, DeleteCascade, Registered
<1>2. TypeOK' /\ RegistryInv'
  BY <1>1 DEF IInv, TypeOK, RegistryInv
<1>3. CodesInv'
  <2>1. \A c \in codes : c.hash.vuz = c.vuz
    BY QrCodeTyped DEF IInv, CodesInv, QrCode, DiplomaHash
  <2> QED
    BY <1>1, <2>1 DEF IInv, CodesInv, PayloadKey
<1>4. RowsInv'
  <2>1. ASSUME NEW up \in Upload, rows'[up] = "ok"
        PROVE  CodeOf(up)' \in codes' /\ CodeOf(up)'.hash \in Registered'
    <3>1. rows[up] = "ok" /\ up.vuz # u
      BY <1>1, <2>1
    <3>2. CodeOf(up)' = CodeOf(up)
      BY <1>1 DEF CodeOf, PayloadKey
    <3>3. CodeOf(up).hash.vuz = up.vuz
      BY ParsedTyped, QrCodeTyped DEF CodeOf
    <3> QED
      BY <1>1, <3>1, <3>2, <3>3 DEF IInv, RowsInv
  <2> QED
    BY <1>1, <2>1 DEF IInv, RowsInv, PayloadKey
<1>5. \A q \in Request : RequestInv(q)'
  BY <1>1, TablesMove DEF Lookup
<1> QED
  BY <1>2, <1>3, <1>4, <1>5 DEF IInv

LEMMA LookupTyped ==
  ASSUME TypeOK, NEW h
  PROVE  Lookup(h) \in Answer /\ (Lookup(h) = "not_found" <=> h \notin Registered)
  BY DEF TypeOK, Lookup, Answer

\* A code opens with every key that the services derive.
LEMMA CodeOpens ==
  ASSUME IInv, NEW c \in codes, NEW name \in EnvName
  PROVE  GatewayOpens(c) /\ Opens(name, c)
<1>1. c.key = PayloadKey /\ c.key \in Wide
  BY DEF IInv, TypeOK, CodesInv, Code, QrCode
<1>2. secrets.payload \in Secret
  BY DEF IInv, TypeOK
<1>3. EngineKey(secrets.payload) # None
  BY <1>1, <1>2, Keys DEF PayloadKey
<1> QED
  BY <1>1, <1>2, <1>3, DerivationsAgree DEF GatewayOpens, Opens, PayloadKey

\* A clean code is only refused for want of its university.
LEMMA CleanIsTrusted ==
  ASSUME IInv, NEW c \in codes, Clean(c.data), NEW name \in EnvName
  PROVE  Trusted(name, c)
<1>1. /\ c.vuz \in University /\ c.data \in Data /\ Accepted(c.data)
      /\ c = QrCode(c.vuz, c.data, PayloadKey)
  BY DEF IInv, TypeOK, CodesInv, Code, Wellformed
<1>2. RecomputedHash(c) = c.hash
  BY <1>1, HashesAgreeOnCleanData
<1> QED
  BY <1>1, <1>2, CleanIsValid, CodeOpens DEF Trusted

LEMMA VerifyIInv ==
  ASSUME IInv, NEW q \in Request, NEW c \in codes, NEW name \in EnvName,
         VerifyPayload(q, c, name)
  PROVE  IInv'
<1> DEFINE st == [pc |-> IF c.vuz \in live /\ Trusted(name, c) THEN "lookup" ELSE "invalid",
                  code |-> c, seen |-> Lookup(c.hash), answer |-> "not_found"]
<1>1. /\ request' = [request EXCEPT ![q] = st] /\ UNCHANGED <<secrets, live, status, rows, codes>>
  BY DEF VerifyPayload
<1>2. st \in RequestState /\ request'[q] = st
  BY <1>1, LookupTyped DEF IInv, TypeOK, RequestState, Answer
<1>3. RequestInv(q)'
  <2>1. c.hash \notin Registered => c.vuz \notin live
    BY DEF IInv, CodesInv
  <2>2. Lookup(c.hash)' = Lookup(c.hash)
    BY <1>1 DEF Lookup, Registered
  <2> QED
    BY <1>1, <1>2, <2>1, <2>2, LookupTyped, CleanIsTrusted DEF IInv, RequestInv
<1> QED
  BY <1>1, <1>2, <1>3, RequestMoves

LEMMA FindIInv ==
  ASSUME IInv, NEW q \in Request, FindByHash(q)
  PROVE  IInv'
<1> DEFINE c == request[q].code
           st == [pc |-> "answered", code |-> c, seen |-> request[q].seen,
                  answer |-> Lookup(c.hash)]
<1>1. /\ request' = [request EXCEPT ![q] = st] /\ UNCHANGED <<secrets, live, status, rows, codes>>
      /\ request[q].pc = "lookup"
  BY DEF FindByHash, Respond
<1>2. st \in RequestState /\ request'[q] = st
  BY <1>1, LookupTyped DEF IInv, TypeOK, RequestState, Answer
<1>3. RequestInv(q)'
  <2>1. c \in codes
    BY <1>1 DEF IInv, RequestInv
  <2>2. c.hash \notin Registered => c.vuz \notin live
    BY <2>1 DEF IInv, CodesInv
  <2>3. c.vuz \notin live => c.hash \notin Registered
    <3>1. c.hash.vuz = c.vuz
      BY <2>1, QrCodeTyped DEF IInv, CodesInv, QrCode, DiplomaHash
    <3> QED
      BY <3>1 DEF IInv, RegistryInv
  <2> QED
    BY <1>1, <1>2, <2>1, <2>2, <2>3, LookupTyped DEF IInv, RequestInv
<1> QED
  BY <1>1, <1>2, <1>3, RequestMoves

LEMMA ErrorIInv ==
  ASSUME IInv, NEW q \in Request, VerifyError(q)
  PROVE  IInv'
<1> DEFINE st == [pc |-> "error", code |-> request[q].code, seen |-> request[q].seen,
                  answer |-> "not_found"]
<1>1. request' = [request EXCEPT ![q] = st] /\ UNCHANGED <<secrets, live, status, rows, codes>>
  BY DEF VerifyError, Respond
<1>2. st \in RequestState /\ request'[q] = st
  BY <1>1 DEF IInv, TypeOK, RequestState, Answer
<1>3. RequestInv(q)'
  BY <1>2 DEF RequestInv
<1> QED
  BY <1>1, <1>2, <1>3, RequestMoves

LEMMA NextIInv == IInv /\ [Next]_vars => IInv'
<1> SUFFICES ASSUME IInv, [Next]_vars PROVE IInv'
  OBVIOUS
<1>1. CASE UNCHANGED vars
  BY <1>1 DEF IInv, TypeOK, RegistryInv, CodesInv, RowsInv, RequestInv, CodeOf, PayloadKey,
     Lookup, Registered, vars
<1>2. CASE Next
  BY <1>2, InsertIInv, PersistIInv, ErrorRowIInv, RevokeIInv, DeleteIInv, VerifyIInv,
     FindIInv, ErrorIInv DEF Next
<1> QED
  BY <1>1, <1>2

LEMMA Invariant == Spec => []IInv
  BY InitIInv, NextIInv, PTL DEF Spec

\* Diplomas are registered one at a time.
FiniteInv == IsFiniteSet(Registered)

LEMMA FiniteRegistry == Spec => []FiniteInv
<1>1. Init => FiniteInv
  <2>1. Init => Registered = {}
    BY DEF Init, Registered
  <2> QED
    BY <2>1, FS_EmptySet DEF FiniteInv
<1>2. ASSUME FiniteInv, [Next]_vars
      PROVE  FiniteInv'
  <2>1. ASSUME NEW up \in Upload, InsertDiplomaHash(up)
        PROVE  FiniteInv'
    <3>1. Registered' = Registered \cup {DiplomaHash(up.vuz, Parsed(up))}
      BY <2>1 DEF InsertDiplomaHash, Registered
    <3> QED
      BY <1>2, <3>1, FS_AddElement DEF FiniteInv
  <2>2. ASSUME NEW u \in University, DeleteCascade(u)
        PROVE  FiniteInv'
    <3>1. Registered' \in SUBSET Registered
      BY <2>2 DEF DeleteCascade, Registered
    <3> QED
      BY <1>2, <3>1, FS_Subset DEF FiniteInv
  <2>3. ASSUME NEW h \in Registered, MarkDiplomaRevoked(h)
        PROVE  Registered' = Registered
    BY <2>3 DEF MarkDiplomaRevoked, Registered
  <2>4. ASSUME NEW up \in Upload, PersistResult(up) \/ PersistErrorRow(up)
        PROVE  Registered' = Registered
    BY <2>4 DEF PersistResult, PersistErrorRow, Registered
  <2>5. ASSUME NEW q \in Request,
               \/ \E c \in codes, name \in EnvName : VerifyPayload(q, c, name)
               \/ FindByHash(q)
               \/ VerifyError(q)
        PROVE  Registered' = Registered
    BY <2>5 DEF VerifyPayload, FindByHash, VerifyError, Registered
  <2>6. ASSUME UNCHANGED vars
        PROVE  Registered' = Registered
    BY <2>6 DEF vars, Registered
  <2>7. Registered' = Registered => FiniteInv'
    BY <1>2 DEF FiniteInv
  <2> QED
    BY <1>2, <2>1, <2>2, <2>3, <2>4, <2>5, <2>6, <2>7 DEF Next
<1> QED
  BY <1>1, <1>2, PTL DEF Spec

-----------------------------------------------------------------------------
(* The properties. *)

\* Every variable of the verifier's world has its type.
THEOREM VerificationTyped == Spec => []TypeOK
<1>1. IInv => TypeOK
  BY DEF IInv
<1> QED
  BY Invariant, <1>1, PTL

\* A code without stray spaces is refused or not found only after its university
\* was deleted, although the engine and the verifier hash differently.
THEOREM CleanCodesAreRecognised == Spec => []CleanCodesVerify
<1>1. IInv => CleanCodesVerify
  BY DEF IInv, RequestInv, CleanCodesVerify
<1> QED
  BY Invariant, <1>1, PTL

\* The verifier's two queries never add up to an answer older than the request.
THEOREM VerdictsAreFresh == Spec => []AnswersAreFresh
<1>1. IInv => AnswersAreFresh
  BY DEF IInv, RequestInv, AnswersAreFresh
<1> QED
  BY Invariant, <1>1, PTL

\* The row that says "ok" has the code of its diploma.
LEMMA StoredCodes ==
  ASSUME IInv, NEW c \in Stored
  PROVE  c \in codes /\ c.hash \in Registered /\ c.hash.data = c.data
<1>1. PICK up \in Upload : rows[up] = "ok" /\ c = CodeOf(up)
  BY DEF Stored
<1> QED
  BY <1>1, ParsedTyped, QrCodeTyped DEF IInv, RowsInv, CodeOf

\* The search by number and the code agree on every diploma without stray spaces.
THEOREM SearchFindsTheDiploma == Spec => []SearchAgrees
<1>1. ASSUME IInv, NEW h \in Registered, Clean(h.data), NEW name \in EnvName
      PROVE  Search(name, h.vuz, h.data["diploma_number"]) = Lookup(h)
  <2> DEFINE number == h.data["diploma_number"]
  <2>1. h.data \in Data /\ Accepted(h.data)
    BY <1>1 DEF IInv, RegistryInv, Wellformed
  <2>2. Trim(number) = number
    BY <1>1, <2>1, TrimClean DEF Data, FieldName, Clean
  <2>3. Matches(h.vuz, number) = {h}
    BY <1>1, <2>2 DEF Matches, IInv, RegistryInv
  <2>4. ASSUME NEW c \in Stored, c.hash = h PROVE Opens(name, c) /\ ValidPayload(c.data)
    BY <1>1, <2>1, <2>4, StoredCodes, CodeOpens, CleanIsValid
  <2>5. (CHOOSE g \in {h} : TRUE) = h
    OBVIOUS
  <2> QED
    BY <1>1, <2>3, <2>4, <2>5 DEF Search, Lookup
<1>2. IInv => SearchAgrees
  BY <1>1 DEF SearchAgrees
<1> QED
  BY Invariant, <1>2, PTL

\* Whatever text is configured, a code that was stored opens everywhere.
THEOREM CodesAlwaysOpen == Spec => []CodesOpen
<1>1. IInv => CodesOpen
  BY StoredCodes, CodeOpens DEF CodesOpen, EnvName
<1> QED
  BY Invariant, <1>1, PTL

\* Diplomas of one number each have a university of their own, so a page that is
\* full and a diploma that is not on it make more universities than fit.
LEMMA FullPage ==
  ASSUME NEW found, IsFiniteSet(found), NEW page \in SUBSET found, NEW h \in found,
         h \notin page, Cardinality(page) = SearchLimit,
         \A g1, g2 \in found : g1.vuz = g2.vuz => g1 = g2
  PROVE  Cardinality({g.vuz : g \in found}) > SearchLimit
<1> DEFINE holders == {g.vuz : g \in found}
           more == page \cup {h}
           vuz == [g \in found |-> g.vuz]
           one == [g \in more |-> g.vuz]
<1>1. IsFiniteSet(page)
  BY FS_Subset
<1>2. IsFiniteSet(more) /\ Cardinality(more) = SearchLimit + 1
  BY <1>1, FS_AddElement
<1>3. vuz \in Surjection(found, holders)
  BY DEF Surjection
<1>4. IsFiniteSet(holders)
  BY <1>3, FS_Surjection
<1>5. one \in Injection(more, holders)
  BY DEF Injection, IsInjective
<1>6. Cardinality(more) <= Cardinality(holders)
  BY <1>4, <1>5, FS_Injection
<1>7. Cardinality(holders) \in Nat /\ SearchLimit \in Nat
  BY <1>4, FS_CardinalityType, SearchAssumption
<1> QED
  BY <1>2, <1>6, <1>7

\* A search by the number of a listed diploma, whatever rows it comes to read.
LEMMA SearchPages ==
  ASSUME IInv, FiniteInv, NEW h \in Listed, NEW name,
         h \in Named(Listed, name),
         NEW page \in SearchStudents(h.data["diploma_number"], name)
  PROVE  /\ ~page.failed
         /\ \A g \in page.found : g.vuz = h.vuz => g = h
         /\ \/ h \in page.found
            \/ Cardinality({g.vuz : g \in Named(ByNumber(h.data["diploma_number"]), name)})
                  > SearchLimit
<1> DEFINE number == h.data["diploma_number"]
           rest == Named(ByNumber(number), name)
<1>1. /\ Listed \in SUBSET Registered /\ ByNumber(number) \in SUBSET Listed
      /\ \A g \in Listed : ~Unreadable(g)
  BY StoredCodes, CodeOpens DEF Listed, ByNumber, Unreadable, EnvName
<1>2. ~IsBlank(number)
  BY <1>1 DEF IInv, RegistryInv, Wellformed
<1>3. \A g1, g2 \in ByNumber(number) : g1.vuz = g2.vuz => g1 = g2
  BY <1>1, <1>2 DEF IInv, RegistryInv, ByNumber
<1>4. h \in rest /\ rest \in SUBSET ByNumber(number)
  BY DEF Named, ByNumber
<1>5. PICK read \in Scanned(number, name) :
         page = [failed |-> \E g \in read : Unreadable(g), found |-> Named(read, name)]
  BY DEF SearchStudents
<1>6. /\ read \in SUBSET ByNumber(number)
      /\ page.found = Named(read, name) /\ Named(read, name) \in SUBSET rest
      /\ Cardinality(Named(read, name)) = SearchLimit \/ read = ByNumber(number)
  BY <1>5 DEF Scanned, Named
<1>7. ~page.failed
  BY <1>1, <1>5, <1>6
<1>8. \A g \in page.found : g.vuz = h.vuz => g = h
  BY <1>3, <1>4, <1>6
<1>9. ASSUME h \notin page.found PROVE Cardinality({g.vuz : g \in rest}) > SearchLimit
  <2>1. Cardinality(page.found) = SearchLimit
    BY <1>4, <1>6, <1>9
  <2>2. IsFiniteSet(rest)
    BY <1>1, <1>4, FS_Subset DEF FiniteInv
  <2>3. \A g1, g2 \in rest : g1.vuz = g2.vuz => g1 = g2
    BY <1>3, <1>4
  <2> HIDE DEF rest
  <2> QED
    BY <1>4, <1>6, <1>9, <2>1, <2>2, <2>3, FullPage
<1> QED
  BY <1>7, <1>8, <1>9

\* The download and the share page of the gateway show the status that the
\* verifier gives; its search, in whatever order it reads the rows and whatever
\* its limit, shows of a university the one diploma of the number, and leaves it
\* out only where more universities share number and name than it may list.
THEOREM GatewayViewsAreTrue == Spec => []GatewayViewsAgree
<1>1. ASSUME IInv, FiniteInv, NEW up \in Upload, rows[up] = "ok"
      PROVE  LET h == DiplomaHash(up.vuz, Parsed(up))
                 number == h.data["diploma_number"]
             IN  /\ DownloadStatus(up) = Lookup(h)
                 /\ FindStudentByHash(h) = Lookup(h)
                 /\ \A name \in {[text |-> Blank, spaced |-> FALSE], h.data["full_name"]} :
                       LET holders == {g.vuz : g \in Named(ByNumber(number), name)} IN
                       \A page \in SearchStudents(number, name) :
                          /\ ~page.failed
                          /\ \A g \in page.found : g.vuz = up.vuz => g = h
                          /\ h \in page.found \/ Cardinality(holders) > SearchLimit
  <2> DEFINE h == DiplomaHash(up.vuz, Parsed(up))
             number == h.data["diploma_number"]
  <2>1. /\ CodeOf(up).hash = h /\ h \in Registered /\ CodeOf(up) \in Stored
        /\ h.vuz = up.vuz /\ h.data \in Data
    BY <1>1, ParsedTyped, QrCodeTyped DEF IInv, RowsInv, Stored, CodeOf
  <2>2. h \in Listed /\ \A g \in Listed : ~Unreadable(g)
    BY <1>1, <2>1, StoredCodes, CodeOpens DEF Listed, Unreadable, EnvName
  <2>3. DownloadStatus(up) = Lookup(h)
    BY <1>1, <2>1 DEF DownloadStatus, Lookup
  <2>4. FindStudentByHash(h) = Lookup(h)
    BY <2>1, <2>2 DEF FindStudentByHash, Lookup
  <2> HIDE DEF h
  <2>5. ASSUME NEW name \in {[text |-> Blank, spaced |-> FALSE], h.data["full_name"]},
               NEW page \in SearchStudents(number, name)
        PROVE  /\ ~page.failed
               /\ \A g \in page.found : g.vuz = up.vuz => g = h
               /\ \/ h \in page.found
                  \/ Cardinality({g.vuz : g \in Named(ByNumber(number), name)}) > SearchLimit
    <3>1. name \in Field /\ (IsBlank(name) \/ name = h.data["full_name"])
      <4>1. h.data["full_name"] \in Field
        BY <2>1 DEF Data, FieldName
      <4>2. CASE name = [text |-> Blank, spaced |-> FALSE]
        BY <4>2 DEF IsBlank, Field
      <4> QED
        BY <4>1, <4>2, <2>5
    <3>2. h \in Named(Listed, name)
      <4>1. IsBlank(name) \/ name.text \in Text
        BY <3>1 DEF IsBlank, Field
      <4> QED
        BY <2>2, <3>1, <4>1, SearchAssumption DEF Named
    <3> QED
      BY <1>1, <2>1, <2>2, <2>5, <3>1, <3>2, SearchPages
  <2> QED
    BY <2>3, <2>4, <2>5 DEF h
<1>2. IInv /\ FiniteInv => GatewayViewsAgree
  BY <1>1 DEF GatewayViewsAgree
<1> QED
  BY Invariant, FiniteRegistry, <1>2, PTL

-----------------------------------------------------------------------------
(* The tables are a diploma ledger. *)

NumberOf(h) == <<h.vuz, h.data["diploma_number"]>>

\* A registered hash is the one its number has.
LEMMA HashOfNumber ==
  ASSUME IInv, NEW h \in Registered
  PROVE  /\ NumberOf(h) \in Number
         /\ HashesAt(NumberOf(h)) = {h} /\ HashAt(NumberOf(h)) = h
<1>1. h.vuz \in University /\ h.data \in Data
  BY DEF IInv, TypeOK, RegistryInv, Wellformed
<1>2. NumberOf(h) \in Number
  BY <1>1 DEF NumberOf, Number, Data, FieldName
<1>3. HashesAt(NumberOf(h)) = {h}
  BY DEF HashesAt, NumberOf, IInv, RegistryInv
<1> QED
  BY <1>2, <1>3 DEF HashAt

LEMMA HashAtFacts ==
  ASSUME IInv, NEW n \in Number, HashesAt(n) # {}
  PROVE  HashAt(n) \in Registered /\ NumberOf(HashAt(n)) = n
<1>1. HashAt(n) \in HashesAt(n)
  BY DEF HashAt
<1> QED
  BY <1>1 DEF HashesAt, NumberOf

LEMMA UploadNumber ==
  ASSUME NEW up \in Upload
  PROVE  /\ <<up.vuz, Parsed(up)["diploma_number"]>> \in Number
         /\ NumberOf(DiplomaHash(up.vuz, Parsed(up))) = <<up.vuz, Parsed(up)["diploma_number"]>>
         /\ Ledger!Vuz(up) = up.vuz
<1>1. /\ up.vuz \in University /\ Parsed(up) \in Data
      /\ Parsed(up)["diploma_number"] \in Field
  BY ParsedTyped DEF Data, FieldName
<1>2. <<up.vuz, Parsed(up)["diploma_number"]>> \in Number
  BY <1>1 DEF Number
<1>3. NumberOf(DiplomaHash(up.vuz, Parsed(up))) = <<up.vuz, Parsed(up)["diploma_number"]>>
  BY <1>1, QrCodeTyped DEF NumberOf
<1> QED
  BY <1>2, <1>3 DEF Ledger!Vuz

LEMMA InsertLedger ==
  ASSUME IInv, NEW up \in Upload, InsertDiplomaHash(up)
  PROVE  Ledger!Next
<1> DEFINE new == DiplomaHash(up.vuz, Parsed(up))
           num == <<up.vuz, Parsed(up)["diploma_number"]>>
<1>1. /\ num \in Number /\ NumberOf(new) = num /\ Ledger!Vuz(up) = up.vuz
      /\ up.vuz \in live
      /\ UNCHANGED <<live, rows>>
  BY UploadNumber DEF InsertDiplomaHash
<1>2. HashesAt(num) = {} /\ new \notin Registered
  <2>1. \A h \in Registered : NumberOf(h) # num
    BY DEF InsertDiplomaHash, NumberTaken, NumberOf
  <2> QED
    BY <1>1, <2>1 DEF HashesAt, NumberOf
<1>3. /\ Registered' = Registered \cup {new}
      /\ \A h \in Registered : status'[h] = status[h]
      /\ status'[new] = "active"
  BY <1>2 DEF InsertDiplomaHash, Registered
<1> HIDE DEF new, num
<1>4. HashesAt(num)' = {new} /\ HashAt(num)' = new
  <2>1. HashesAt(num)' = {new}
    BY <1>1, <1>2, <1>3 DEF HashesAt, NumberOf, num
  <2> QED
    BY <2>1 DEF HashAt, num
<1>5. ASSUME NEW n \in Number, n # num
      PROVE  /\ HashesAt(n)' = HashesAt(n) /\ HashAt(n)' = HashAt(n)
             /\ HashesAt(n) # {} => status'[HashAt(n)] = status[HashAt(n)]
  <2>1. HashesAt(n)' = HashesAt(n)
    BY <1>1, <1>3, <1>5 DEF HashesAt, NumberOf
  <2>2. HashAt(n)' = HashAt(n)
    BY <2>1 DEF HashAt
  <2> QED
    BY <1>3, <2>1, <2>2, HashAtFacts
<1>6. Ledger!Issue(up)
  BY <1>1, <1>2, <1>3, <1>4, <1>5 DEF Ledger!Issue, new, num
<1> QED
  BY <1>6 DEF Ledger!Next

LEMMA RevokeLedger ==
  ASSUME IInv, NEW h \in Registered, MarkDiplomaRevoked(h)
  PROVE  Ledger!Next
<1> DEFINE num == NumberOf(h)
<1>1. /\ Registered' = Registered
      /\ \A g \in Registered : status'[g] = IF g = h THEN "revoked" ELSE status[g]
      /\ status[h] \in {"active", "revoked"}
      /\ UNCHANGED <<live, rows>>
  BY DEF IInv, TypeOK, MarkDiplomaRevoked, Registered
<1>2. num \in Number /\ HashesAt(num) = {h} /\ HashAt(num) = h
  BY HashOfNumber
<1> HIDE DEF num
<1>3. ASSUME NEW n \in Number
      PROVE  /\ HashesAt(n)' = HashesAt(n) /\ HashAt(n)' = HashAt(n)
             /\ HashesAt(n) # {} =>
                   status'[HashAt(n)] = IF n = num THEN "revoked" ELSE status[HashAt(n)]
  <2>1. HashesAt(n)' = HashesAt(n)
    BY <1>1 DEF HashesAt
  <2>2. HashAt(n)' = HashAt(n)
    BY <2>1 DEF HashAt
  <2> QED
    BY <1>1, <1>2, <2>1, <2>2, HashAtFacts DEF num
<1>4. Ledger!Revoke(num)
  BY <1>1, <1>2, <1>3 DEF Ledger!Revoke
<1> QED
  BY <1>2, <1>4 DEF Ledger!Next

LEMMA DeleteLedger ==
  ASSUME IInv, NEW u \in University, DeleteCascade(u)
  PROVE  Ledger!Next
<1>1. /\ Registered' = {g \in Registered : g.vuz # u}
      /\ \A g \in Registered' : status'[g] = status[g]
      /\ u \in live /\ live' = live \ {u}
      /\ rows' = [up \in Upload |-> IF up.vuz = u THEN "none" ELSE rows[up]]
  BY DEF DeleteCascade, Registered
<1>2. ASSUME NEW n \in Number
      PROVE  /\ n[1] = u => HashesAt(n)' = {}
             /\ n[1] # u => /\ HashesAt(n)' = HashesAt(n) /\ HashAt(n)' = HashAt(n)
                            /\ HashesAt(n) # {} => status'[HashAt(n)] = status[HashAt(n)]
  <2>1. \A h \in Registered : NumberOf(h) = n => h.vuz = n[1]
    BY DEF NumberOf
  <2>2. n[1] = u => HashesAt(n)' = {}
    BY <1>1, <2>1 DEF HashesAt, NumberOf
  <2>3. n[1] # u => HashesAt(n)' = HashesAt(n)
    BY <1>1, <2>1 DEF HashesAt, NumberOf
  <2>4. n[1] # u => HashAt(n)' = HashAt(n)
    BY <2>3 DEF HashAt
  <2>5. n[1] # u /\ HashesAt(n) # {} => status'[HashAt(n)] = status[HashAt(n)]
    BY <1>1, <2>1, HashAtFacts
  <2> QED
    BY <2>2, <2>3, <2>4, <2>5
<1>3. \A up \in Upload : Ledger!Vuz(up) = up.vuz
  BY UploadNumber
<1>4. Ledger!Purge(u)
  BY <1>1, <1>2, <1>3 DEF Ledger!Purge
<1> QED
  BY <1>4 DEF Ledger!Next

LEMMA RowLedger ==
  ASSUME IInv, NEW up \in Upload, PersistResult(up) \/ PersistErrorRow(up)
  PROVE  Ledger!Next
<1> DEFINE new == DiplomaHash(up.vuz, Parsed(up))
           num == <<up.vuz, Parsed(up)["diploma_number"]>>
<1>1. num \in Number /\ NumberOf(new) = num /\ Ledger!Vuz(up) = up.vuz
  BY UploadNumber
<1>2. UNCHANGED <<live, status>> /\ rows[up] = "none"
  BY DEF PersistResult, PersistErrorRow
<1>3. \A n \in Number : HashesAt(n)' = HashesAt(n) /\ HashAt(n)' = HashAt(n)
  BY <1>2 DEF HashesAt, HashAt, Registered
<1> HIDE DEF new, num
<1>4. CASE PersistResult(up)
  <2>1. rows' = [rows EXCEPT ![up] = "ok"] /\ new \in Registered
    BY <1>4, ParsedTyped, QrCodeTyped DEF PersistResult, CodeOf, new
  <2>2. HashesAt(num) = {new} /\ HashAt(num) = new /\ up.vuz \in live
    <3>1. HashesAt(num) = {new} /\ HashAt(num) = new
      BY <1>1, <2>1, HashOfNumber
    <3>2. new.vuz = up.vuz
      BY ParsedTyped, QrCodeTyped DEF new
    <3> QED
      BY <2>1, <3>1, <3>2 DEF IInv, RegistryInv
  <2>3. status[new] # "absent"
    BY <2>1 DEF IInv, TypeOK
  <2>4. Ledger!Accept(up)
    BY <1>1, <1>2, <1>3, <2>1, <2>2, <2>3 DEF Ledger!Accept, new, num
  <2> QED
    BY <2>4 DEF Ledger!Next
<1>5. CASE PersistErrorRow(up)
  <2>1. rows' = [rows EXCEPT ![up] = "error"] /\ up.vuz \in live
    BY <1>5 DEF PersistErrorRow
  <2>2. Ledger!Reject(up)
    BY <1>1, <1>2, <1>3, <2>1 DEF Ledger!Reject
  <2> QED
    BY <2>2 DEF Ledger!Next
<1> QED
  BY <1>4, <1>5

LEMMA NextLedger ==
  ASSUME IInv, [Next]_vars
  PROVE  [Ledger!Next]_Ledger!vars
<1>1. CASE UNCHANGED <<live, status, rows>>
  <2>1. \A n \in Number : HashesAt(n)' = HashesAt(n) /\ HashAt(n)' = HashAt(n)
    BY <1>1 DEF HashesAt, HashAt, Registered
  <2> QED
    BY <1>1, <2>1 DEF Ledger!vars
<1>2. ASSUME NEW q \in Request,
             \/ \E c \in codes, name \in EnvName : VerifyPayload(q, c, name)
             \/ FindByHash(q)
             \/ VerifyError(q)
      PROVE  UNCHANGED <<live, status, rows>>
  BY <1>2 DEF VerifyPayload, FindByHash, VerifyError
<1>3. CASE UNCHANGED vars
  BY <1>1, <1>3 DEF vars
<1> QED
  BY <1>1, <1>2, <1>3, InsertLedger, RowLedger, RevokeLedger, DeleteLedger DEF Next

\* The tables that the verifier, the share pages and the downloads read are the
\* diploma ledger that the pipeline implements: one diploma a number, an "ok" row
\* only of that diploma, revocation for good.
THEOREM VerifiedTablesAreALedger == Spec => ImplementsLedger
<1>1. Init => Ledger!Init
  BY DEF Init, Ledger!Init, HashesAt, Registered
<1>2. IInv /\ [Next]_vars => [Ledger!Next]_Ledger!vars
  BY NextLedger
<1> QED
  BY Invariant, <1>1, <1>2, PTL DEF Spec, ImplementsLedger, Ledger!Spec
=============================================================================
