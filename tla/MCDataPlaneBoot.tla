--------------------------- MODULE MCDataPlaneBoot ---------------------------
(***************************************************************************)
(* A quick tunnel with a preloaded blob, an operator's url without one,    *)
(* and one environment for each way the options can be refused.            *)
(***************************************************************************)
EXTENDS DataPlaneBoot

Env(key, provider, public_url, blob) ==
    [key |-> key, provider |-> provider, public_url |-> public_url, blob |-> blob]

MCEnvironments == {
    Env("valid", "cloudflare", "unset", "with_id"),
    Env("valid", "none", "valid", "none"),
    Env("valid", "none", "malformed", "none"),
    Env("missing", "cloudflare", "unset", "none"),
    Env("malformed", "cloudflare", "unset", "none"),
    Env("valid", "none", "unset", "none"),
    Env("valid", "other", "valid", "none"),
    Env("valid", "cloudflare", "unset", "without_id") }
=============================================================================
