---------------------------- MODULE DataPlaneBoot ----------------------------
(***************************************************************************)
(* One life of the data-plane process (aex-data-plane/src/main.rs): it     *)
(* reads its options, brings a tunnel up, serves, waits until it is        *)
(* reachable from outside, tells its parent on stdout, and ends on a       *)
(* signal.  Three things run beside main: the cloudflared child, the       *)
(* server task, and the advisory captive-portal probes (aex-net).          *)
(*                                                                         *)
(* The guard of the child is a local of main: returning from main, with or *)
(* without an error, drops it and kills the child; a signal that no        *)
(* handler catches does not.                                               *)
(***************************************************************************)
EXTENDS Naturals, Sequences, FiniteSets

CONSTANTS
    ReadinessTimeout,    \* AEX_READINESS_TIMEOUT_SECS, in probe attempts
    Environments         \* the environments the process is started in

\* Opts::from_env, by what later steps tell apart: the control plane's key,
\* the provider, AEX_PUBLIC_URL, and AEX_BLOB_PATH with its id.
Opts == [key : {"missing", "malformed", "valid"},
         provider : {"cloudflare", "none", "other"},
         public_url : {"unset", "malformed", "valid"},
         blob : {"none", "without_id", "with_id"}]

ASSUME TimeoutAssumption == ReadinessTimeout \in Nat
ASSUME EnvironmentsAssumption == Environments \subseteq Opts

VARIABLES
    opts,       \* what the environment variables hold
    main,       \* where main is
    now,        \* time spent in verify_tunnel_reachable
    child,      \* the cloudflared process: "none", "running" or "ended"
    server,     \* the server task: "none", "spawned", "serving", "draining", "stopped"
    answers,    \* what each captive-portal probe met, or "idle", "pending"
    stdout,     \* the lines printed so far
    exit,       \* "none", "ok", "error" or "killed"
    signalled   \* history: a signal was delivered

bootVars == <<opts, main, now, child, server, answers, stdout, exit, signalled>>

-----------------------------------------------------------------------------
(* State *)

Probers == {"apple", "google", "ms"}

InitBoot ==
    /\ opts \in Environments
    /\ main = "from_env"
    /\ now = 0
    /\ child = "none"
    /\ server = "none"
    /\ answers = [p \in Probers |-> "idle"]
    /\ stdout = <<>>
    /\ exit = "none"
    /\ signalled = FALSE

-----------------------------------------------------------------------------
(* Captive-portal detection *)

\* What a probe may meet: the canonical answer, a page of someone else's under
\* 200, 511, another status, a body that breaks off, nothing, or a redirect: to
\* such a page, to the canonical answer, to an address that cannot be reached,
\* or without a usable Location.
Redirects == {"redirect_page", "redirect_home", "redirect_lost", "redirect_bare"}
Answers == Redirects \cup {"expected", "foreign_page", "auth_required",
                           "other_status", "broken_body", "unreachable"}

\* The client the probes are given has reqwest's default redirect policy: what
\* the classifiers see is what the redirect led to.
Followed(answer) ==
    CASE answer = "redirect_page" -> "foreign_page"
      [] answer = "redirect_home" -> "expected"
      [] answer = "redirect_lost" -> "unreachable"
      [] OTHER -> answer

\* The order of the tests in classify_apple_response.
ProbeApple(answer) ==
    CASE answer = "unreachable" -> "failed"
      [] answer \in {"auth_required", "redirect_bare"} -> "captive"
      [] answer = "other_status" -> "unexpected"
      [] answer = "expected" -> "ok"
      [] answer = "foreign_page" -> "captive"
      [] OTHER -> "failed"

\* 204 is expected; the body is not read, and a page under 200 proves nothing.
ProbeGoogle(answer) ==
    CASE answer = "unreachable" -> "failed"
      [] answer \in {"auth_required", "redirect_bare"} -> "captive"
      [] answer = "expected" -> "ok"
      [] OTHER -> "unexpected"

\* Faulty variant: a portal that answers 200 with its own page is overlooked.
ProbeMsByStatus(answer) ==
    CASE answer \in {"unreachable", "broken_body"} -> "failed"
      [] answer \in {"auth_required", "redirect_bare"} -> "captive"
      [] answer = "other_status" -> "unexpected"
      [] OTHER -> "ok"

ProbeMs(answer) ==
    CASE answer = "unreachable" -> "failed"
      [] answer \in {"auth_required", "redirect_bare"} -> "captive"
      [] answer = "other_status" -> "unexpected"
      [] answer = "expected" -> "ok"
      [] answer = "foreign_page" -> "captive"
      [] OTHER -> "failed"

NetworkState == {"direct", "captive_portal", "limited", "unknown"}

Consensus(results) ==
    CASE "captive" \in results -> "captive_portal"
      [] results = {"ok"} -> "direct"
      [] results = {"failed"} -> "unknown"
      [] OTHER -> "limited"

Printed(what) == \E i \in DOMAIN stdout : stdout[i][1] = what

\* A probe is answered, or gives up after PROBE_TIMEOUT.
Probe(p, answer) ==
    /\ exit = "none"
    /\ answers[p] = "pending" /\ ~Printed("network")
    /\ answers' = [answers EXCEPT ![p] = answer]
    /\ UNCHANGED <<opts, main, now, child, server, stdout, exit, signalled>>

\* join! has all three; the line is printed from the probes' own task.
EmitNetworkState ==
    /\ exit = "none"
    /\ ~Printed("network")
    /\ \A p \in Probers : answers[p] \in Answers
    /\ LET results == {ProbeApple(Followed(answers["apple"])),
                       ProbeGoogle(Followed(answers["google"])),
                       ProbeMs(Followed(answers["ms"]))}
       IN  stdout' = Append(stdout, <<"network", Consensus(results)>>)
    /\ UNCHANGED <<opts, main, now, child, server, answers, exit, signalled>>

\* The http client cannot be built: "unknown" is printed without a probe.
EmitUnknown ==
    /\ exit = "none"
    /\ ~Printed("network")
    /\ \A p \in Probers : answers[p] = "pending"
    /\ stdout' = Append(stdout, <<"network", "unknown">>)
    /\ UNCHANGED <<opts, main, now, child, server, answers, exit, signalled>>

-----------------------------------------------------------------------------
(* main *)

At(step) == exit = "none" /\ main = step

Proceed(step) == main' = step /\ UNCHANGED exit

\* main returns: its locals are dropped, the guard kills the child, and the
\* runtime takes the other tasks down with it.
Return(code) ==
    /\ exit' = code
    /\ main' = "returned"
    /\ child' = IF child = "running" THEN "ended" ELSE child
    /\ server' = IF server = "none" THEN "none" ELSE "stopped"

\* Without a key nothing is started; else the probes are spawned.
FromEnv ==
    /\ At("from_env")
    /\ \/ /\ opts.key = "missing"
          /\ Return("error")
          /\ UNCHANGED answers
       \/ /\ opts.key # "missing"
          /\ answers' = [p \in Probers |-> "pending"]
          /\ Proceed("bind")
          /\ UNCHANGED <<child, server>>
    /\ UNCHANGED <<opts, now, stdout, signalled>>

Bind ==
    /\ At("bind")
    /\ \/ Proceed("resolve") /\ UNCHANGED <<child, server>>
       \/ Return("error")
    /\ UNCHANGED <<opts, now, answers, stdout, signalled>>

\* resolve_public_url up to the start of the tunnel: "none" needs a url and
\* has no child; cloudflared must pass the preflight and be spawned.
ResolvePublicUrl ==
    /\ At("resolve")
    /\ \/ /\ opts.provider = "none" /\ opts.public_url # "unset"
          /\ Proceed("load_blob")
          /\ UNCHANGED <<child, server>>
       \/ /\ opts.provider = "cloudflare"
          /\ child' = "running"
          /\ Proceed("await_url")
          /\ UNCHANGED server
       \/ Return("error") /\ ~(opts.provider = "none" /\ opts.public_url # "unset")
    /\ UNCHANGED <<opts, now, answers, stdout, signalled>>

TunnelUrl ==
    /\ At("await_url")
    /\ child = "running"
    /\ Proceed("load_blob")
    /\ UNCHANGED <<opts, now, child, server, answers, stdout, signalled>>

TunnelNoUrl ==
    /\ At("await_url")
    /\ Return("error")
    /\ UNCHANGED <<opts, now, answers, stdout, signalled>>

\* A path without an id, or a file that cannot be read, is an error.
LoadBlobSource ==
    /\ At("load_blob")
    /\ \/ /\ opts.blob # "without_id"
          /\ Proceed("spawn_server")
          /\ UNCHANGED <<child, server>>
       \/ /\ opts.blob # "none"
          /\ Return("error")
    /\ UNCHANGED <<opts, now, answers, stdout, signalled>>

\* The key is decoded, the pipeline and the routes are put together and the
\* server task is spawned; it has not been polled yet.
SpawnServer ==
    /\ At("spawn_server")
    /\ \/ /\ opts.key = "valid"
          /\ server' = "spawned"
          /\ Proceed("verify")
          /\ UNCHANGED child
       \/ /\ opts.key = "malformed"
          /\ Return("error")
    /\ UNCHANGED <<opts, now, answers, stdout, signalled>>

\* The operator's url does not parse, or names no host.
UrlUnusable == opts.provider = "none" /\ opts.public_url = "malformed"

\* One round of verify_tunnel_reachable: DNS and TCP succeed, or one of them
\* fails and the next round begins later.
VerifyAttempt ==
    /\ At("verify")
    /\ ~UrlUnusable
    /\ now < ReadinessTimeout
    /\ \/ Proceed("print_url") /\ UNCHANGED now
       \/ now' = now + 1 /\ UNCHANGED <<main, exit>>
    /\ UNCHANGED <<opts, child, server, answers, stdout, signalled>>

\* Faulty variant: the server is aborted, but main only warns and goes on.
VerifyGivesUpWarned ==
    /\ At("verify")
    /\ UrlUnusable \/ now >= ReadinessTimeout
    /\ server' = "stopped"
    /\ Proceed("print_url")
    /\ UNCHANGED <<opts, now, child, answers, stdout, signalled>>

\* The url is unusable or the deadline has passed: the server is aborted, the
\* guard dropped.
VerifyGivesUp ==
    /\ At("verify")
    /\ UrlUnusable \/ now >= ReadinessTimeout
    /\ Return("error")
    /\ UNCHANGED <<opts, now, answers, stdout, signalled>>

WriteLine(step, line, next) ==
    /\ At(step)
    /\ stdout' = Append(stdout, line)
    /\ Proceed(next)
    /\ UNCHANGED <<opts, now, child, server, answers, signalled>>

PrintUrl == WriteLine("print_url", <<"url", opts.provider>>, "print_ready")

PrintReady == WriteLine("print_ready", <<"ready", "1">>, "print_transports")

\* transports_json: an operator's url is announced as a named tunnel.
TransportKind == IF opts.provider = "cloudflare" THEN "cloudflare_quick" ELSE "cloudflare_named"

PrintTransports == WriteLine("print_transports", <<"transports", TransportKind>>, "join")

\* Faulty variant: main also waits for the child, which nobody has told to end.
JoinChild ==
    /\ At("join")
    /\ server = "stopped" /\ child # "running"
    /\ Return("ok")
    /\ UNCHANGED <<opts, now, answers, stdout, signalled>>

\* server_handle.await
Join ==
    /\ At("join")
    /\ server = "stopped"
    /\ Return("ok")
    /\ UNCHANGED <<opts, now, answers, stdout, signalled>>

-----------------------------------------------------------------------------
(* Beside main *)

\* The server task is polled for the first time: shutdown_signal installs the
\* handlers and the listener is served.
ServerPolled ==
    /\ exit = "none"
    /\ server = "spawned"
    /\ server' = "serving"
    /\ UNCHANGED <<opts, main, now, child, answers, stdout, exit, signalled>>

\* SIGINT or SIGTERM: graceful once the handlers are installed; before that
\* the default action ends the process and drops nothing.
Signal ==
    /\ exit = "none"
    /\ ~signalled
    /\ signalled' = TRUE
    /\ \/ /\ server \in {"none", "spawned"}
          /\ exit' = "killed" /\ server' = "stopped"
       \/ /\ server = "serving"
          /\ server' = "draining" /\ UNCHANGED exit
    /\ UNCHANGED <<opts, main, now, child, answers, stdout>>

\* The last connection is closed.
Drained ==
    /\ exit = "none"
    /\ server = "draining"
    /\ server' = "stopped"
    /\ UNCHANGED <<opts, main, now, child, answers, stdout, exit, signalled>>

ChildExits ==
    /\ child = "running"
    /\ child' = "ended"
    /\ UNCHANGED <<opts, main, now, server, answers, stdout, exit, signalled>>

-----------------------------------------------------------------------------

\* main up to the server task: it waits for the commands of the preflight and
\* for the blob's file without a timeout.
SetUp ==
    \/ FromEnv \/ Bind \/ ResolvePublicUrl \/ TunnelUrl \/ TunnelNoUrl
    \/ LoadBlobSource \/ SpawnServer

Announce ==
    \/ VerifyAttempt \/ VerifyGivesUp
    \/ PrintUrl \/ PrintReady \/ PrintTransports \/ Join

NextBoot ==
    \/ SetUp \/ Announce
    \/ \E p \in Probers, answer \in Answers : Probe(p, answer)
    \/ EmitNetworkState \/ EmitUnknown
    \/ ServerPolled \/ Signal \/ Drained \/ ChildExits

BootSafety == InitBoot /\ [][NextBoot]_bootVars

\* main and the tasks are polled.  From the spawn of the server on, every wait
\* of main but the join is under a timeout, and so is every probe.  Nothing is
\* assumed of the steps before, of clients that keep a draining server busy, of
\* the tunnel or of signals.
BootSpec ==
    /\ BootSafety
    /\ WF_bootVars(Announce)
    /\ WF_bootVars(ServerPolled)
    /\ \A p \in Probers : WF_bootVars(Probe(p, "unreachable"))
    /\ WF_bootVars(EmitNetworkState)

-----------------------------------------------------------------------------
(* Properties *)

\* The lines of stdout: what each is about, and what it says.
Lines == {"url", "ready", "transports", "network"} \X
         ({"cloudflare", "none", "other", "1", "cloudflare_quick", "cloudflare_named"}
             \cup NetworkState)

\* Everything has its type.
BootTypeOK ==
    /\ opts \in Environments
    /\ now \in 0 .. ReadinessTimeout
    /\ child \in {"none", "running", "ended"}
    /\ server \in {"none", "spawned", "serving", "draining", "stopped"}
    /\ answers \in [Probers -> Answers \cup {"idle", "pending"}]
    /\ stdout \in Seq(Lines)
    /\ \A i \in DOMAIN stdout : stdout[i][1] = "network" => stdout[i][2] \in NetworkState
    /\ exit \in {"none", "ok", "error", "killed"}
    /\ signalled \in BOOLEAN

\* A process that announces itself has spawned its server, and that server has
\* not stopped unless a signal told it to.
ReadyIsServed ==
    Printed("ready") /\ exit = "none" =>
        server \in {"spawned", "serving"} \/ signalled

\* The probe met a 511, a redirect it could not follow, or a portal's page
\* where the body is looked at.
MeetsPortal(p) ==
    \/ answers[p] \in {"auth_required", "redirect_bare"}
    \/ answers[p] \in {"foreign_page", "redirect_page"} /\ p # "google"

\* "direct" is reported only when all three probes ended at the canonical
\* answer; a 511, a redirect that cannot be followed, or a portal's page at one
\* of the two probes that read the body, directly or through a redirect, is
\* never hidden by what the other probes met.  (captive.rs:39 has any redirect
\* reported, which would take a client that does not follow them.)
PortalNotMissed ==
    \A i \in DOMAIN stdout :
        /\ stdout[i] = <<"network", "direct">> =>
              \A p \in Probers : Followed(answers[p]) = "expected"
        /\ stdout[i][1] = "network" /\ (\E p \in Probers : MeetsPortal(p))
              => stdout[i][2] = "captive_portal"

\* A server that has shut down is followed by the end of the process, also
\* when the signal came while main was still waiting to be reachable.
StopIsFollowed == (server = "stopped") ~> (exit # "none")
=============================================================================
