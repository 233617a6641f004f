------------------------------- MODULE Policy -------------------------------
(***************************************************************************)
(* The decision a transfer passes through twice, before and after the scan *)
(* (aex-policy): the table-driven tier policy.  It is pure; Transfers      *)
(* calls it from its create_transfer steps.                                *)
(***************************************************************************)
EXTENDS Naturals

ScanResult == {"clean", "suspicious", "malicious", "error"}

RecipientKind == {"spize_native", "did", "human_bridge", "unknown"}

TierName == {"free_human", "dev", "enterprise"}

\* declared_mime is empty, an ordinary type, or one of default_mime_deny().
Mime == {"absent", "ordinary", "executable"}

\* PolicyRequest::scanner_verdict = None, the pre-scan call.
NotScanned == "not_scanned"

-----------------------------------------------------------------------------
(* Tier policy.  Sizes are in megabytes: only the caps tell them apart. *)

MaxBytes == [free_human |-> 25, dev |-> 100, enterprise |-> 5120]

TierPolicy(tier) ==
    [ max_bytes                  |-> MaxBytes[tier],
      allow_suspicious           |-> tier = "dev",
      fail_open_on_scanner_error |-> tier = "dev",
      allow_human_bridge         |-> TRUE ]

\* The verdicts decide_on_verdict turns into a denial.
BlockedVerdicts(policy) ==
    {"malicious"}
      \cup (IF policy.fail_open_on_scanner_error THEN {} ELSE {"error"})
      \cup (IF policy.allow_suspicious THEN {} ELSE {"suspicious"})

\* TierPolicy::evaluate: the code of the first rule that denies, or "allow".
Evaluate(policy, size, kind, mime, verdict) ==
    IF size > policy.max_bytes THEN "size_exceeded"
    ELSE IF ~policy.allow_human_bridge /\ kind = "human_bridge"
         THEN "human_bridge_disallowed"
    ELSE IF mime = "executable" THEN "mime_blocked"
    ELSE IF verdict \in BlockedVerdicts(policy) THEN "scanner_denied"
    ELSE "allow"
=============================================================================
