---------------------------- MODULE SigningKeys ----------------------------
(***************************************************************************)
(* The signing key of a university: SigningKeyService.Upsert stores the    *)
(* public half in universities and the private half in                     *)
(* university_signing_keys, in two statements with no transaction around   *)
(* them; the engine signs with the private one, pubver verifies with the   *)
(* public one.  A key pair is one value: both halves of it are equal.      *)
(***************************************************************************)
EXTENDS Naturals, FiniteSets

CONSTANTS
    University,   \* ids of universities
    Request,      \* PUT /api/v1/vuz/signing-key requests
    Key,          \* Ed25519 key pairs
    RequestVuz,   \* request -> the university that sends it
    RequestKey,   \* request -> the key pair it carries
    Overlap,      \* universities that may send two requests at once
    None          \* no key

ASSUME KeyAssumption ==
    /\ RequestVuz \in [Request -> University]
    /\ RequestKey \in [Request -> Key]
    /\ Overlap \in SUBSET University
    /\ None \notin Key

VARIABLES
    live,         \* universities that exist
    publicKey,    \* universities.public_key
    privateKey,   \* university_signing_keys.encrypted_private_key
    request,      \* the next statement of each request, or how it ended
    signing,      \* tokens the engines have signed: university and key
    signed        \* tokens stored in batch_results

vars == <<live, publicKey, privateKey, request, signing, signed>>

InFlight == {r \in Request : request[r] \in {"publish", "persist"}}

-----------------------------------------------------------------------------
(* SigningKeyService.Upsert *)

Goes(r, next) == request' = [request EXCEPT ![r] = next]

\* Mutant: the stored key is not compared.
FindByID_AnyKey(r) ==
    LET u == RequestVuz[r] IN
    /\ request[r] = "new"
    /\ u \in Overlap \/ \A q \in InFlight : RequestVuz[q] # u
    /\ \/ /\ u \in live
          /\ publicKey[u] = None
          /\ Goes(r, "publish")
       \/ /\ u \in live
          /\ publicKey[u] # None
          /\ Goes(r, "persist")
       \/ /\ u \notin live
          /\ Goes(r, "refused")
    /\ UNCHANGED <<live, publicKey, privateKey, signing, signed>>

\* Mutant: another key replaces the stored one.
FindByID_Replaces(r) ==
    LET u == RequestVuz[r] IN
    /\ request[r] = "new"
    /\ u \in Overlap \/ \A q \in InFlight : RequestVuz[q] # u
    /\ \/ /\ u \in live
          /\ Goes(r, "publish")
       \/ /\ u \notin live
          /\ Goes(r, "refused")
    /\ UNCHANGED <<live, publicKey, privateKey, signing, signed>>

\* FindByID, and the comparison with the key that is there.
FindByID(r) ==
    LET u == RequestVuz[r] IN
    /\ request[r] = "new"
    /\ u \in Overlap \/ \A q \in InFlight : RequestVuz[q] # u
    /\ \/ /\ u \in live
          /\ publicKey[u] = None
          /\ Goes(r, "publish")
       \/ /\ u \in live
          /\ publicKey[u] = RequestKey[r]
          /\ Goes(r, "persist")
       \/ /\ u \notin live \/ publicKey[u] \notin {None, RequestKey[r]}
          /\ Goes(r, "refused")
    /\ UNCHANGED <<live, publicKey, privateKey, signing, signed>>

\* UPDATE ... WHERE id = $1: the university may be gone, the key may not be
\* empty any more, and only the first is noticed.
UpdatePublicKey(r) ==
    LET u == RequestVuz[r] IN
    /\ request[r] = "publish"
    /\ IF u \in live
       THEN /\ publicKey' = [publicKey EXCEPT ![u] = RequestKey[r]]
            /\ Goes(r, "persist")
       ELSE /\ UNCHANGED publicKey
            /\ Goes(r, "refused")
    /\ UNCHANGED <<live, privateKey, signing, signed>>

\* INSERT ... ON CONFLICT DO UPDATE; the foreign key needs the university.
UpsertPrivateKey(r) ==
    LET u == RequestVuz[r] IN
    /\ request[r] = "persist"
    /\ IF u \in live
       THEN /\ privateKey' = [privateKey EXCEPT ![u] = RequestKey[r]]
            /\ Goes(r, "done")
       ELSE /\ UNCHANGED privateKey
            /\ Goes(r, "refused")
    /\ UNCHANGED <<live, publicKey, signing, signed>>

\* A statement fails, the client goes away or the gateway stops: what was
\* written stays.
Interrupted(r) ==
    /\ r \in InFlight
    /\ Goes(r, "lost")
    /\ UNCHANGED <<live, publicKey, privateKey, signing, signed>>

-----------------------------------------------------------------------------
(* The engine and the administrator *)

\* Mutant: a missing key is not noticed.
GetUniversityKey_NoKey(u) ==
    /\ u \in live
    /\ signing' = signing \cup {[vuz |-> u, key |-> privateKey[u]]}
    /\ UNCHANGED <<live, publicKey, privateKey, request, signed>>

\* process_inner reads the key and signs the QR token of a diploma with it.  Any
\* number of engines may hold such a token, for any time.
GetUniversityKey(u) ==
    /\ privateKey[u] # None
    /\ signing' = signing \cup {[vuz |-> u, key |-> privateKey[u]]}
    /\ UNCHANGED <<live, publicKey, privateKey, request, signed>>

\* The token is stored with the row of the record; its batch must exist.
StoreToken(s) ==
    /\ s \in signing
    /\ s.vuz \in live
    /\ signed' = signed \cup {s}
    /\ UNCHANGED <<live, publicKey, privateKey, request, signing>>

\* Mutant: the private key outlives its university.
DeleteCascade_KeepsKey(u) ==
    /\ u \in live
    /\ live' = live \ {u}
    /\ publicKey' = [publicKey EXCEPT ![u] = None]
    /\ signed' = {s \in signed : s.vuz # u}
    /\ UNCHANGED <<privateKey, request, signing>>

\* Keys and diplomas go with the university.
DeleteCascade(u) ==
    /\ u \in live
    /\ live' = live \ {u}
    /\ publicKey' = [publicKey EXCEPT ![u] = None]
    /\ privateKey' = [privateKey EXCEPT ![u] = None]
    /\ signed' = {s \in signed : s.vuz # u}
    /\ UNCHANGED <<request, signing>>

-----------------------------------------------------------------------------

Init ==
    /\ live = University
    /\ publicKey = [u \in University |-> None]
    /\ privateKey = [u \in University |-> None]
    /\ request = [r \in Request |-> "new"]
    /\ signing = {}
    /\ signed = {}

Next ==
    \/ \E r \in Request : \/ FindByID(r)
                          \/ UpdatePublicKey(r)
                          \/ UpsertPrivateKey(r)
                          \/ Interrupted(r)
    \/ \E u \in University : GetUniversityKey(u) \/ DeleteCascade(u)
    \/ \E s \in signing : StoreToken(s)

Spec == Init /\ [][Next]_vars

-----------------------------------------------------------------------------
(* Properties *)

\* Every variable has its type.
TypeOK ==
    /\ live \in SUBSET University
    /\ publicKey \in [University -> Key \cup {None}]
    /\ privateKey \in [University -> Key \cup {None}]
    /\ request \in [Request -> {"new", "publish", "persist", "done", "refused", "lost"}]
    /\ signing \in SUBSET [vuz : University, key : Key]
    /\ signed \in SUBSET [vuz : University, key : Key]

\* The public key is stored first, so that wherever Upsert stops, and whatever
\* other requests do, nothing is signed that has no public key to verify it with.
PrivateHasPublic ==
    \A u \in University : privateKey[u] # None => publicKey[u] # None

\* "If universities.public_key is filled in already, the keys must match"
\* (PROJECT_DOCUMENTATION.md:364, "5.4"): the engine signs with the private half
\* of the key pair that pubver verifies with, for every university.
HalvesMatch ==
    \A u \in University : privateKey[u] \in {None, publicKey[u]}

\* A QR token that was stored can be verified for as long as its university is
\* there, if the university waits for each answer: the public key is never
\* changed under the tokens it belongs to.
SignaturesVerify ==
    \A s \in signed : s.vuz \notin Overlap => publicKey[s.vuz] = s.key

-----------------------------------------------------------------------------
(* What the two statements implement, for the universities that wait for each
   answer *)

InTurn == University \ Overlap

Ring == INSTANCE KeyRing
        WITH University <- InTurn,
             live       <- live \ Overlap,
             key        <- [u \in InTurn |-> publicKey[u]],
             usable     <- [u \in InTurn |-> privateKey[u]],
             tokens     <- {s \in signed : s.vuz \in InTurn}

\* A university that waits for each answer has one key from its first Upsert to
\* its deletion: no retry, no cut between the two writes and no token an engine
\* signed long before brings in a second one, or one that was never enabled.
ImplementsKeyRing == Ring!Spec
=============================================================================
