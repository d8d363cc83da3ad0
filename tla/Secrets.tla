------------------------------ MODULE Secrets ------------------------------
(***************************************************************************)
(* The AES keys the services derive from one configured text.  The gateway *)
(* seals private keys that the engine opens, the engine seals the codes    *)
(* that the gateway and pubver open: each derives the key on its own, by   *)
(* rules that differ.                                                      *)
(*                                                                         *)
(* A text is what the decoders make of it: hexadecimal, base64, unpadded   *)
(* base64, or nothing (None).  SHA-256 has no collisions.                  *)
(***************************************************************************)
CONSTANTS
    Secret,   \* texts that may be configured
    Wide,     \* byte strings of 32 bytes
    Narrow,   \* byte strings of another length
    None      \* no bytes, no key

Bytes == Wide \cup Narrow

\* strict: the engine's base64 accepts it too (no line break, no stray bits).
\* spaced: white space around it.  blank: there is nothing else.
ASSUME SecretAssumption ==
    /\ Secret \subseteq [hex : Bytes \cup {None}, std : Bytes \cup {None},
                         raw : Bytes \cup {None}, strict : BOOLEAN,
                         spaced : BOOLEAN, blank : BOOLEAN]
    /\ None \notin Bytes
    /\ \A s \in Secret : s.blank => s.hex \in Narrow \ Wide /\ s.std \in Narrow \ Wide
    \* 32 bytes are 64 hexadecimal digits; those are 48 bytes of base64
    /\ \A s \in Secret : ~(s.hex \in Wide /\ s.std \in Wide)

Sha256(bytes) == [sha256 |-> bytes]

First(key, other) == IF key # None THEN key ELSE other

HexKey(s) == IF s.hex \in Wide THEN s.hex ELSE None

-----------------------------------------------------------------------------
\* The engine: get_encryption_key_bytes, decrypt_private_key.  Nothing is trimmed
\* and nothing else is tried; the error comes with every task, not at the start.
EngineKey(s) == IF s.strict /\ ~s.spaced /\ s.std \in Wide THEN s.std ELSE None

\* The gateway: deriveAES256Key with decodeExactKey and bestEffortSecretBytes.
\* None: it does not start.
GatewayKey(s) ==
    IF s.blank THEN None
    ELSE First(HexKey(s), First(IF s.std \in Wide THEN s.std ELSE None,
                                Sha256(First(s.hex, First(s.std, s)))))

\* pubver: decodeJWTEncKeyBase64, padded or not.
Base64Key(s) == LET key == First(s.std, s.raw) IN IF key \in Wide THEN key ELSE None

EnvName == {"JWT_ENC_SECRET", "JWT_ENC_KEY_BASE64", "JWT_ENC_KEY", "JWT_ENC_KEY_HEX"}

\* Mutant: the secret is hashed without a look at what it decodes to.
JWTEncKey_Hashed(name, s) ==
    IF s.blank THEN None
    ELSE CASE name = "JWT_ENC_SECRET" -> Sha256(First(s.hex, First(s.std, First(s.raw, s))))
           [] name = "JWT_ENC_KEY_HEX" -> First(HexKey(s), Base64Key(s))
           [] OTHER -> Base64Key(s)

\* loadJWTEncKey, with the variable that is set, and deriveJWTEncKey; only
\* JWT_ENC_SECRET may be any text.  None: pubver does not start.
JWTEncKey(name, s) ==
    IF s.blank THEN None
    ELSE CASE name = "JWT_ENC_SECRET" ->
                First(HexKey(s), First(Base64Key(s),
                      Sha256(First(s.hex, First(s.std, First(s.raw, s))))))
           [] name = "JWT_ENC_KEY_HEX" -> First(HexKey(s), Base64Key(s))
           [] OTHER -> Base64Key(s)
=============================================================================
