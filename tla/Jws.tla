---------------------------------- MODULE Jws ----------------------------------
(***************************************************************************)
(* JWS compact serialisation (aex-jws/src/lib.rs): a token is what its     *)
(* three segments decode to, with what its signature covers.  A key signs  *)
(* nothing it was not asked to.                                            *)
(***************************************************************************)
EXTENDS Naturals, AgentIds

\* Algorithm::parse knows two names; a header may hold any other, or none.
Permitted == {"EdDSA", "ES256K"}

AlgorithmOf(k) == IF KeyType[k] = "ed25519" THEN "EdDSA" ELSE "ES256K"

\* sign_inner, with kid not empty.
SignToken(payload, key, kid) ==
    LET header == [alg |-> AlgorithmOf(key), kid |-> kid]
    IN  [segments |-> 3, decodes |-> TRUE, header |-> header, payload |-> payload,
         sig |-> [key |-> key, over |-> <<header, payload>>]]

\* Faulty variant: whoever signed, the token is taken for the key's.
VerifiesUnsigned(t, key) ==
    /\ t.segments = 3 /\ t.decodes /\ t.header.alg \in Permitted /\ t.header.kid # <<>>
    /\ key # NoKey /\ AlgorithmOf(key) = t.header.alg

\* verify, with the key that key_lookup gives for the token's kid, NoKey where
\* it gives none or an error.  decodes stands for segments within
\* SEGMENT_MAX_BYTES that are base64url, and a header that is JSON with its
\* fields.
Verifies(t, key) ==
    /\ t.segments = 3
    /\ t.decodes
    /\ t.header.alg \in Permitted
    /\ t.header.kid # <<>>
    /\ key # NoKey
    /\ AlgorithmOf(key) = t.header.alg
    /\ t.sig = [key |-> key, over |-> <<t.header, t.payload>>]

\* The empty text: one segment, nothing in it.
Unsigned == [segments |-> 1, decodes |-> FALSE, header |-> [alg |-> "none", kid |-> <<>>]]
=============================================================================
