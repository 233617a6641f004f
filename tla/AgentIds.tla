------------------------------- MODULE AgentIds -------------------------------
(***************************************************************************)
(* Agent ids and what is read out of them: aex-core/src/types.rs, the key  *)
(* of a did:key and the host of a did:web.  An id is a text whose ':',     *)
(* '#' and '/' are pieces of their own.                                    *)
(***************************************************************************)
EXTENDS Naturals, Sequences, SequencesExt, Functions

CONSTANTS
    MaxAgentIdLen,   \* MAX_AGENT_ID_LEN, in pieces
    KeyType,         \* "ed25519" or "secp256k1", for each key
    Digest           \* the digest of each key that an id shows

Keys == DOMAIN KeyType
Ed25519Keys == {k \in Keys : KeyType[k] = "ed25519"}
NoKey == "no_key"

ASSUME KeysAssumption == KeyType \in [Keys -> {"ed25519", "secp256k1"}] /\ NoKey \notin Keys

\* The ids the providers derive from their keys.
NativeId(org, name, k) == <<"spize", ":", org, "/", name, ":", Digest[k]>>
EthrId(chain, k) == <<"did", ":", "ethr", ":", chain, ":", "0x", Digest[k]>>
encode_did_key(k) == <<"did", ":", "key", ":", "z", k>>

Position(s, piece) == SelectInSeq(s, LAMBDA x : x = piece)
Before(s, piece) == IF Position(s, piece) = 0 THEN s ELSE SubSeq(s, 1, Position(s, piece) - 1)
After(s, piece) == SubSeq(s, Position(s, piece) + 1, Len(s))

validate_agent_id(s) ==
    /\ Len(s) \in 1 .. MaxAgentIdLen
    /\ Range(s) \cap {"LF", "CR", "NUL", "NONASCII", "SPACE"} = {}
    /\ ":" \in Range(s)

\* AgentId::scheme goes by the prefix.
scheme(s) ==
    CASE IsPrefix(<<"spize", ":">>, s) -> "spize"
      [] IsPrefix(<<"did", ":", "spize", ":">>, s) -> "did_spize"
      [] IsPrefix(<<"did", ":", "ethr", ":">>, s) -> "did_ethr"
      [] IsPrefix(<<"did", ":", "web", ":">>, s) -> "did_web"
      [] IsPrefix(<<"did", ":", "key", ":">>, s) -> "did_key"
      [] OTHER -> "unknown"

\* DidUri::parse: the method up to the next ':', the fragment after '#'.
HasDidUri(s) ==
    LET rest == After(SubSeq(s, 3, Len(s)), ":")
    IN  /\ IsPrefix(<<"did", ":">>, s)
        /\ ":" \in Range(SubSeq(s, 3, Len(s)))
        /\ Len(Before(SubSeq(s, 3, Len(s)), ":")) > 0
        /\ Before(rest, "#") # <<>>
        /\ "#" \in Range(rest) => After(rest, "#") # <<>>

MethodSpecificId(s) == Before(After(SubSeq(s, 3, Len(s)), ":"), "#")

\* DidKeyProvider::decode_pubkey: base58btc of an Ed25519 key and no more.
decode_pubkey(s) ==
    IF /\ scheme(s) = "did_key" /\ HasDidUri(s)
       /\ Len(MethodSpecificId(s)) = 2
       /\ MethodSpecificId(s)[1] = "z"
       /\ MethodSpecificId(s)[2] \in Ed25519Keys
    THEN MethodSpecificId(s)[2] ELSE NoKey

\* DidWebProvider::well_known_url asks the authority root: the path of the id
\* and its fragment are not part of the URL.
Authority(s) == Before(MethodSpecificId(s), ":")

\* Url::parse takes what stands before an '@' for user information.
WellKnownHost(s) == Authority(s)[Len(Authority(s))]

HasWellKnownUrl(s) ==
    /\ scheme(s) = "did_web" /\ HasDidUri(s)
    /\ Authority(s) # <<>> /\ Range(Authority(s)) \cap {"/", "?"} = {}
    /\ WellKnownHost(s) # "@"
    /\ Len(Authority(s)) > 1 => Authority(s)[Len(Authority(s)) - 1] = "@"
=============================================================================
