----------------------------- MODULE OutboundCalls -----------------------------
(***************************************************************************)
(* Calls that leave the process and may be repeated: a decision handed to  *)
(* a webhook or to a decider in the process (aex-policy/src/sink), and any *)
(* operation under retry_with_backoff (aex-net/src/retry.rs).  The network *)
(* loses requests and answers; the caller cannot tell which.  A webhook's  *)
(* host may redirect, and the client follows.                              *)
(***************************************************************************)
EXTENDS Workload, FiniteSets

CONSTANTS
    Jobs,           \* the calls of a behaviour
    JobKind,        \* "webhook", "in_process" or "retry", for each
    MaxRetries,     \* WebhookConfig::max_retries of the sink each call goes to
    MaxAttempts,    \* RetryPolicy::max_attempts
    Timeout,        \* the http timeout of one attempt
    BackoffUnit,    \* 250 ms
    BaseDelay,      \* RetryPolicy::base_delay (the multiplier is 2)
    Jitter,         \* RetryPolicy::jitter
    AllowInternal   \* WebhookConfig::allow_internal_targets

ASSUME JobsAssumption == JobKind \in [Jobs -> {"webhook", "in_process", "retry"}]
ASSUME PolicyAssumption ==
    /\ MaxRetries \in [Jobs -> Nat]
    /\ {Timeout, BackoffUnit, BaseDelay, Jitter} \subseteq Nat
    /\ MaxAttempts \in Nat \ {0}
    /\ AllowInternal \in BOOLEAN

Power(n) == 2 ^ n

\* What the proofs use of exponentiation, which no prover at hand knows: it is
\* true of every MaxAttempts.
ASSUME PowerAssumption ==
    /\ Power(0) = 1
    /\ \A k \in 0 .. MaxAttempts : Power(k) \in Nat /\ Power(k + 1) = 2 * Power(k)
    /\ \A k, n \in 0 .. MaxAttempts : k <= n => Power(k) <= Power(n)

VARIABLES
    call,        \* each call: where it is, attempts made, when its timer fires,
                 \* and the method of the request under way
    dns,         \* what the webhook's host resolves to
    received,    \* history: how often the far side has processed each call
    inside,      \* history: the webhook calls that reached an internal address
    shifted,     \* history: the lookup failed, or the record changed after it
    redirected,  \* history: the webhook calls that followed a redirect
    begun        \* history: when the first attempt of each call left

calls == <<call, dns, received, inside, shifted, redirected, begun>>

-----------------------------------------------------------------------------

Call == [pc : {"new", "checking", "checked", "sending", "sleeping", "ok", "error"},
         attempts : Nat, due : Nat, method : {"post", "get"}]

InitCalls ==
    /\ call = [j \in Jobs |-> [pc |-> "new", attempts |-> 0, due |-> 0, method |-> "post"]]
    /\ dns \in {"public", "internal", "unresolved"}
    /\ load \cap Jobs = {} => dns = "public"
    /\ received = [j \in Jobs |-> 0]
    /\ inside = {}
    /\ shifted = FALSE
    /\ redirected = {}
    /\ begun = [j \in Jobs |-> 0]

Larger(a, b) == IF a > b THEN a ELSE b
Smaller(a, b) == IF a < b THEN a ELSE b

\* let max = max_retries.max(1)
WebhookLimit(j) == Larger(MaxRetries[j], 1)

Limit(j) == IF JobKind[j] = "webhook" THEN WebhookLimit(j) ELSE MaxAttempts

\* The sleeps the code may choose after the given number of attempts: 250 ms
\* shifted by attempts.min(5), or backoff_for_attempt(attempts + 1) with its
\* jitter, clamped at zero.
WebhookBackoff(attempts) == BackoffUnit * Power(Smaller(attempts, 5))

BackoffForAttempt(n) ==
    LET base == BaseDelay * Power(n - 2)
    IN  (IF base < Jitter THEN 0 ELSE base - Jitter) .. (base + Jitter)

Backoffs(j) == IF JobKind[j] = "webhook" THEN {WebhookBackoff(call[j].attempts)}
               ELSE BackoffForAttempt(call[j].attempts + 1)

Finish(j, result) == call' = [call EXCEPT ![j].pc = result]

\* One more attempt leaves; reqwest resolves the host anew for it.
Send(j) ==
    /\ call' = [call EXCEPT ![j] = [pc |-> "sending", attempts |-> @.attempts + 1,
                                    due |-> clock + Timeout, method |-> "post"]]
    /\ inside' = IF JobKind[j] = "webhook" /\ dns = "internal" THEN inside \cup {j}
                 ELSE inside

Sleep(j) ==
    \E pause \in Backoffs(j) :
        call' = [call EXCEPT ![j].pc = "sleeping", ![j].due = clock + pause]

-----------------------------------------------------------------------------
(* Beginning a call *)

\* check_host: a host that does not resolve passes.
CheckHost == AllowInternal \/ dns # "internal"

\* The lookup of the check is the system's: it blocks, for as long as it takes.
SubmitWebhook(j) ==
    /\ j \in load /\ call[j].pc = "new"
    /\ JobKind[j] = "webhook"
    /\ call' = [call EXCEPT ![j].pc = "checking"]
    /\ UNCHANGED <<dns, received, inside, shifted, redirected, begun>>

HostChecked(j) ==
    /\ call[j].pc = "checking"
    /\ Finish(j, IF CheckHost THEN "checked" ELSE "error")
    /\ shifted' = (shifted \/ dns = "unresolved")
    /\ UNCHANGED <<dns, received, inside, redirected, begun>>

FirstPost(j) ==
    /\ call[j].pc = "checked"
    /\ Send(j)
    /\ begun' = [begun EXCEPT ![j] = clock]
    /\ UNCHANGED <<dns, received, shifted, redirected>>

\* The decider answers with this decision's id or another's, or fails; only
\* an answer with its own id reaches the handler, which may fail too.
SubmitInProcess(j) ==
    /\ j \in load /\ call[j].pc = "new"
    /\ JobKind[j] = "in_process"
    /\ \E decided \in {"error", "other_id", "same_id"} :
          \/ /\ decided = "same_id"
             /\ received' = [received EXCEPT ![j] = @ + 1]
             /\ \E handled \in {"ok", "error"} : Finish(j, handled)
          \/ /\ decided # "same_id"
             /\ Finish(j, "error")
             /\ UNCHANGED received
    /\ begun' = [begun EXCEPT ![j] = clock]
    /\ UNCHANGED <<dns, inside, shifted, redirected>>

BeginRetry(j) ==
    /\ j \in load /\ call[j].pc = "new"
    /\ JobKind[j] = "retry"
    /\ Send(j)
    /\ begun' = [begun EXCEPT ![j] = clock]
    /\ UNCHANGED <<dns, received, shifted, redirected>>

-----------------------------------------------------------------------------
(* The rounds of the loop *)

\* The far side has processed the request, if what it got is the decision.
Processed(j) ==
    received' = IF call[j].method = "post" THEN [received EXCEPT ![j] = @ + 1] ELSE received

\* A success is taken for one whichever request it answers.
Succeed(j) ==
    /\ call[j].pc = "sending"
    /\ Processed(j)
    /\ Finish(j, "ok")
    /\ UNCHANGED <<dns, inside, shifted, redirected, begun>>

\* Faulty variant: the last attempt sleeps like the others.
FailUnbounded(j, retriable) ==
    /\ call[j].pc = "sending"
    /\ IF ~retriable THEN Finish(j, "error") ELSE Sleep(j)
    /\ Processed(j) \/ UNCHANGED received
    /\ UNCHANGED <<dns, inside, shifted, redirected, begun>>

\* An answer that is no success, or a transport error, which too many redirects
\* are: 408, 425, 429, 5xx and transport errors are retriable, for
\* retry_with_backoff what should_retry says.  What failed may have been
\* processed all the same.
Fail(j, retriable) ==
    /\ call[j].pc = "sending"
    /\ IF call[j].attempts >= Limit(j) \/ ~retriable THEN Finish(j, "error") ELSE Sleep(j)
    /\ Processed(j) \/ UNCHANGED received
    /\ UNCHANGED <<dns, inside, shifted, redirected, begun>>

\* The webhook's client has reqwest's default redirect policy: within the same
\* timeout it asks wherever it is sent, with the same request after 307 and 308
\* (kept), with a GET and no body after 301, 302 and 303; the host of a 303 has
\* processed the POST, that of the others need not have.
Redirected(j, kept, target) ==
    /\ call[j].pc = "sending" /\ JobKind[j] = "webhook"
    /\ call' = [call EXCEPT ![j].method = IF kept THEN @ ELSE "get"]
    /\ (Processed(j) /\ ~kept) \/ UNCHANGED received
    /\ inside' = IF target = "internal" THEN inside \cup {j} ELSE inside
    /\ redirected' = redirected \cup {j}
    /\ UNCHANGED <<dns, shifted, begun>>

Wake(j) ==
    /\ call[j].pc = "sleeping"
    /\ clock >= call[j].due
    /\ Send(j)
    /\ UNCHANGED <<dns, received, shifted, redirected, begun>>

\* The host's record changes.
Rebind ==
    /\ load \cap Jobs # {}
    /\ \E d \in {"public", "internal"} : dns # d /\ dns' = d
    /\ shifted' = (shifted \/ \E j \in Jobs : call[j].pc \in {"checked", "sending", "sleeping"})
    /\ UNCHANGED <<call, received, inside, redirected, begun>>

NextCalls ==
    /\ \E j \in Jobs :
          \/ SubmitWebhook(j) \/ HostChecked(j) \/ FirstPost(j)
          \/ SubmitInProcess(j) \/ BeginRetry(j)
          \/ Succeed(j) \/ Wake(j)
          \/ \E retriable \in BOOLEAN : Fail(j, retriable)
          \/ \E kept \in BOOLEAN, target \in {"public", "internal"} : Redirected(j, kept, target)
    /\ UNCHANGED <<clock, load>>

\* Timers under way: the http timeout of a request, the sleep of a call.
CallTimers == {call[j].due : j \in {k \in Jobs : call[k].pc \in {"sending", "sleeping"}}}

-----------------------------------------------------------------------------
(* Properties *)

\* The longest the attempts of a call may take: every attempt up to its timeout,
\* every sleep with its whole jitter.  The sleeps before the n-th attempt are
\* summed up in closed form.
LongestSleeps(j, n) ==
    IF JobKind[j] = "webhook"
    THEN BackoffUnit * (IF n <= 6 THEN Power(n) - 2 ELSE 62 + 32 * (n - 6))
    ELSE BaseDelay * (Power(n - 1) - 1) + (n - 1) * Jitter

LongestCall(j) == Limit(j) * Timeout + LongestSleeps(j, Limit(j))

\* From its first attempt on no call outlives that bound, whatever is lost and
\* wherever it is redirected (the host check before it has no bound), and the
\* far side processes it no more often than the attempts it is allowed, also
\* when zero retries are configured; a call that is reported accepted was
\* processed at least once, unless a redirect led it elsewhere: then a 2xx of
\* any page counts, although "on success the sink has accepted responsibility"
\* (aex-policy/src/sink/mod.rs:140).
CallsAreBounded ==
    \A j \in Jobs :
        /\ call[j].pc \in {"sending", "sleeping"} => clock <= begun[j] + LongestCall(j)
        /\ received[j] <= Limit(j)
        /\ call[j].pc = "ok" => received[j] >= 1 \/ j \in redirected

\* While the host's record stands still, a webhook's call goes to an internal
\* address only where the operator allows it, or where that host redirects it.
PostsStayOutside == \A j \in inside : AllowInternal \/ shifted \/ j \in redirected
=============================================================================
