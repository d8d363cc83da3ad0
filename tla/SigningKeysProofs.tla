------------------------- MODULE SigningKeysProofs -------------------------
(***************************************************************************)
(* Proofs about SigningKeys, for any universities, requests and keys.      *)
(***************************************************************************)
EXTENDS SigningKeys, TLAPS

\* A request about to store the private key has seen, or stored, a public one.
OrderInv ==
    /\ PrivateHasPublic
    /\ \A u \in University : u \notin live => publicKey[u] = None
    /\ \A r \in Request : request[r] = "persist" /\ RequestVuz[r] \in live =>
          publicKey[RequestVuz[r]] # None

\* What a request knows, if its university waits for each answer.
KnownInv ==
    /\ \A r, q \in InFlight :
          RequestVuz[r] = RequestVuz[q] /\ RequestVuz[r] \notin Overlap => r = q
    /\ \A r \in Request : request[r] = "publish" /\ RequestVuz[r] \notin Overlap =>
          publicKey[RequestVuz[r]] = None
    /\ \A r \in Request :
          request[r] = "persist" /\ RequestVuz[r] \in live \ Overlap =>
             publicKey[RequestVuz[r]] = RequestKey[r]
    /\ \A s \in signing : s.vuz \in live \ Overlap =>
          publicKey[s.vuz] = s.key /\ privateKey[s.vuz] = s.key

\* Its two halves belong together.
KeysMatch ==
    \A u \in University \ Overlap : privateKey[u] \in {None, publicKey[u]}

TurnInv == TypeOK /\ OrderInv /\ KnownInv /\ KeysMatch /\ SignaturesVerify

LEMMA InitTurnInv == Init => TurnInv
  BY KeyAssumption
  DEF Init, TurnInv, TypeOK, OrderInv, KnownInv, PrivateHasPublic, KeysMatch, SignaturesVerify,
      InFlight

LEMMA NextTypeOK == TypeOK /\ [Next]_vars => TypeOK'
<1> SUFFICES ASSUME TypeOK, [Next]_vars PROVE TypeOK'
  OBVIOUS
<1> USE KeyAssumption DEF TypeOK, Goes
<1>1. ASSUME NEW r \in Request, FindByID(r) PROVE TypeOK'
  BY <1>1 DEF FindByID
<1>2. ASSUME NEW r \in Request, UpdatePublicKey(r) PROVE TypeOK'
  BY <1>2 DEF UpdatePublicKey
<1>3. ASSUME NEW r \in Request, UpsertPrivateKey(r) PROVE TypeOK'
  BY <1>3 DEF UpsertPrivateKey
<1>4. ASSUME NEW r \in Request, Interrupted(r) PROVE TypeOK'
  BY <1>4 DEF Interrupted
<1>5. ASSUME NEW u \in University, GetUniversityKey(u) PROVE TypeOK'
  BY <1>5 DEF GetUniversityKey
<1>8. ASSUME NEW s \in signing, StoreToken(s) PROVE TypeOK'
  BY <1>8 DEF StoreToken
<1>6. ASSUME NEW u \in University, DeleteCascade(u) PROVE TypeOK'
  BY <1>6 DEF DeleteCascade
<1>7. CASE UNCHANGED vars
  BY <1>7 DEF vars
<1> QED
  BY <1>1, <1>2, <1>3, <1>4, <1>5, <1>6, <1>7, <1>8 DEF Next

LEMMA NextOrderInv == TypeOK /\ OrderInv /\ [Next]_vars => OrderInv'
<1> SUFFICES ASSUME TypeOK, OrderInv, [Next]_vars PROVE OrderInv'
  OBVIOUS
<1> USE KeyAssumption DEF TypeOK, OrderInv, PrivateHasPublic, Goes
<1>1. ASSUME NEW r \in Request, FindByID(r) PROVE OrderInv'
  BY <1>1 DEF FindByID
<1>2. ASSUME NEW r \in Request, UpdatePublicKey(r) PROVE OrderInv'
  BY <1>2 DEF UpdatePublicKey
<1>3. ASSUME NEW r \in Request, UpsertPrivateKey(r) PROVE OrderInv'
  BY <1>3 DEF UpsertPrivateKey
<1>4. ASSUME NEW r \in Request, Interrupted(r) PROVE OrderInv'
  BY <1>4 DEF Interrupted
<1>5. ASSUME NEW u \in University, GetUniversityKey(u) PROVE OrderInv'
  BY <1>5 DEF GetUniversityKey
<1>8. ASSUME NEW s \in signing, StoreToken(s) PROVE OrderInv'
  BY <1>8 DEF StoreToken
<1>6. ASSUME NEW u \in University, DeleteCascade(u) PROVE OrderInv'
  BY <1>6 DEF DeleteCascade
<1>7. CASE UNCHANGED vars
  BY <1>7 DEF vars
<1> QED
  BY <1>1, <1>2, <1>3, <1>4, <1>5, <1>6, <1>7, <1>8 DEF Next

LEMMA NextTurnInv ==
  ASSUME TurnInv, [Next]_vars
  PROVE  TurnInv'
<1>0. TypeOK' /\ OrderInv'
  BY NextTypeOK, NextOrderInv DEF TurnInv
<1> USE KeyAssumption DEF TurnInv, TypeOK, KnownInv, KeysMatch, SignaturesVerify, InFlight, Goes
<1>1. ASSUME NEW r \in Request, FindByID(r) PROVE TurnInv'
  BY <1>0, <1>1 DEF FindByID
<1>2. ASSUME NEW r \in Request, UpdatePublicKey(r) PROVE TurnInv'
  BY <1>0, <1>2 DEF UpdatePublicKey, OrderInv, PrivateHasPublic
<1>3. ASSUME NEW r \in Request, UpsertPrivateKey(r) PROVE TurnInv'
  BY <1>0, <1>3 DEF UpsertPrivateKey
<1>4. ASSUME NEW r \in Request, Interrupted(r) PROVE TurnInv'
  BY <1>0, <1>4 DEF Interrupted
<1>5. ASSUME NEW u \in University, GetUniversityKey(u) PROVE TurnInv'
  BY <1>0, <1>5 DEF GetUniversityKey, OrderInv, PrivateHasPublic
<1>8. ASSUME NEW s \in signing, StoreToken(s) PROVE TurnInv'
  BY <1>0, <1>8 DEF StoreToken
<1>6. ASSUME NEW u \in University, DeleteCascade(u) PROVE TurnInv'
  BY <1>0, <1>6 DEF DeleteCascade
<1>7. CASE UNCHANGED vars
  BY <1>0, <1>7 DEF vars
<1> QED
  BY <1>1, <1>2, <1>3, <1>4, <1>5, <1>6, <1>7, <1>8 DEF Next

\* The order of the two writes of Upsert holds whatever runs at the same time and
\* wherever a request stops: no private key is there without a public one.
THEOREM PublicKeyComesFirst == Spec => []PrivateHasPublic
<1>1. Init => TypeOK /\ OrderInv
  BY InitTurnInv DEF TurnInv
<1>2. TypeOK /\ OrderInv /\ [Next]_vars => (TypeOK /\ OrderInv)'
  BY NextTypeOK, NextOrderInv
<1>3. OrderInv => PrivateHasPublic
  BY DEF OrderInv
<1> QED
  BY <1>1, <1>2, <1>3, PTL DEF Spec

LEMMA TurnInvariant == Spec => []TurnInv
<1>1. TurnInv /\ [Next]_vars => TurnInv'
  BY NextTurnInv
<1> QED
  BY InitTurnInv, <1>1, PTL DEF Spec

\* Every variable keeps its type, and nothing is signed without a key.
THEOREM KeysTyped == Spec => []TypeOK
<1>1. TurnInv => TypeOK
  BY DEF TurnInv
<1> QED
  BY TurnInvariant, <1>1, PTL

\* If a university sends one request at a time, every token of it that is kept
\* verifies, even when requests are cut between the two writes.
THEOREM SignaturesVerifyInTurn == Spec => []SignaturesVerify
<1>1. TurnInv => SignaturesVerify
  BY DEF TurnInv
<1> QED
  BY TurnInvariant, <1>1, PTL

-----------------------------------------------------------------------------
(* The two statements implement one key for life. *)

\* Every write is a step of the key ring of its university, or repeats what is
\* there, or belongs to a university that does not wait.
LEMMA NextRing ==
  ASSUME TurnInv, [Next]_vars
  PROVE  [Ring!Next]_Ring!vars
<1> USE KeyAssumption DEF TurnInv, TypeOK, InTurn
<1>1. CASE UNCHANGED <<live, publicKey, privateKey, signed>>
  BY <1>1 DEF Ring!vars
<1>2. ASSUME \/ \E r \in Request : FindByID(r) \/ Interrupted(r)
             \/ \E u \in University : GetUniversityKey(u)
             \/ UNCHANGED vars
      PROVE  UNCHANGED <<live, publicKey, privateKey, signed>>
  BY <1>2 DEF FindByID, Interrupted, GetUniversityKey, vars
<1>3. ASSUME NEW r \in Request, UpdatePublicKey(r) PROVE [Ring!Next]_Ring!vars
  <2>1. PICK u \in University : u = RequestVuz[r]
    OBVIOUS
  <2>2. CASE u \notin live
    BY <1>1, <1>3, <2>1, <2>2 DEF UpdatePublicKey
  <2>3. CASE u \in live
    <3>1. /\ publicKey' = [publicKey EXCEPT ![u] = RequestKey[r]]
          /\ UNCHANGED <<live, privateKey, signed>>
      BY <1>3, <2>1, <2>3 DEF UpdatePublicKey
    <3>2. CASE u \in Overlap
      BY <3>1, <3>2 DEF Ring!vars
    <3>3. CASE u \notin Overlap
      <4>1. publicKey[u] = None
        BY <1>3, <2>1, <3>3 DEF UpdatePublicKey, KnownInv
      <4>2. Ring!Publish(u, RequestKey[r])
        BY <2>3, <3>1, <3>3, <4>1 DEF Ring!Publish
      <4> QED BY <3>3, <4>2 DEF Ring!Next
    <3> QED BY <3>2, <3>3
  <2> QED BY <2>2, <2>3
<1>4. ASSUME NEW r \in Request, UpsertPrivateKey(r) PROVE [Ring!Next]_Ring!vars
  <2>1. PICK u \in University : u = RequestVuz[r]
    OBVIOUS
  <2>2. CASE u \notin live
    BY <1>1, <1>4, <2>1, <2>2 DEF UpsertPrivateKey
  <2>3. CASE u \in live
    <3>1. /\ privateKey' = [privateKey EXCEPT ![u] = RequestKey[r]]
          /\ UNCHANGED <<live, publicKey, signed>>
      BY <1>4, <2>1, <2>3 DEF UpsertPrivateKey
    <3>2. CASE u \in Overlap
      BY <3>1, <3>2 DEF Ring!vars
    <3>3. CASE u \notin Overlap
      <4>1. publicKey[u] = RequestKey[r] /\ privateKey[u] \in {None, RequestKey[r]}
        BY <1>4, <2>1, <2>3, <3>3 DEF UpsertPrivateKey, KnownInv, KeysMatch
      <4>2. CASE privateKey[u] = None
        <5>1. Ring!Enable(u)
          BY <2>3, <3>1, <3>3, <4>1, <4>2 DEF Ring!Enable
        <5> QED BY <3>3, <5>1 DEF Ring!Next
      <4>3. CASE privateKey[u] = RequestKey[r]
        BY <1>1, <3>1, <4>3
      <4> QED BY <4>1, <4>2, <4>3
    <3> QED BY <3>2, <3>3
  <2> QED BY <2>2, <2>3
<1>5. ASSUME NEW s \in signing, StoreToken(s) PROVE [Ring!Next]_Ring!vars
  <2>1. /\ s.vuz \in University /\ s.vuz \in live /\ s.key \in Key
        /\ s = [vuz |-> s.vuz, key |-> s.key]
        /\ signed' = signed \cup {s}
        /\ UNCHANGED <<live, publicKey, privateKey>>
    BY <1>5 DEF StoreToken
  <2>2. CASE s.vuz \in Overlap
    BY <2>1, <2>2 DEF Ring!vars
  <2>3. CASE s.vuz \notin Overlap
    <3>1. privateKey[s.vuz] = s.key
      BY <2>1, <2>3 DEF KnownInv
    <3>2. Ring!Issue(s.vuz)
      BY <2>1, <2>3, <3>1 DEF Ring!Issue
    <3> QED BY <2>1, <2>3, <3>2 DEF Ring!Next
  <2> QED BY <2>2, <2>3
<1>6. ASSUME NEW u \in University, DeleteCascade(u) PROVE [Ring!Next]_Ring!vars
  <2>1. CASE u \in Overlap
    BY <1>6, <2>1 DEF DeleteCascade, Ring!vars
  <2>2. CASE u \notin Overlap
    <3>1. Ring!Retire(u)
      BY <1>6, <2>2 DEF DeleteCascade, Ring!Retire
    <3> QED BY <2>2, <3>1 DEF Ring!Next
  <2> QED BY <2>1, <2>2
<1> QED
  BY <1>1, <1>2, <1>3, <1>4, <1>5, <1>6 DEF Next

\* Seen by the universities that send one request at a time, Upsert, the engines
\* and the deletion are one key that is published, then used, then retired.
THEOREM KeysImplementKeyRing == Spec => ImplementsKeyRing
<1>1. Init => Ring!Init
  BY DEF Init, Ring!Init, InTurn
<1>2. TurnInv /\ [Next]_vars => [Ring!Next]_Ring!vars
  BY NextRing
<1> QED
  BY TurnInvariant, <1>1, <1>2, PTL DEF Spec, ImplementsKeyRing, Ring!Spec
=============================================================================
