---------------------------- MODULE OutboundProofs ----------------------------
(***************************************************************************)
(* Proofs about Outbound: how long a repeated call and a queued probe may  *)
(* take, where requests go, and what a verified message or a bridged chain *)
(* rests on.  Each part has an invariant of its own; the parts meet only   *)
(* in the clock.                                                           *)
(***************************************************************************)
EXTENDS Outbound, FiniteSetTheorems, SequenceTheorems, TLAPS

-----------------------------------------------------------------------------
(* How long a call may take *)

\* All attempts up to the a-th at their longest, with the sleeps before them.
Spent(j, a) == a * Timeout + LongestSleeps(j, a)

LEMMA SmallPowers ==
    /\ Power(0) = 1 /\ Power(1) = 2 /\ Power(2) = 4 /\ Power(3) = 8
    /\ Power(4) = 16 /\ Power(5) = 32 /\ Power(6) = 64
BY DEF Power

\* The sleeps of a webhook, in units: what the shift by attempts.min(5) adds up to.
Units(n) == IF n <= 6 THEN Power(n) - 2 ELSE 62 + 32 * (n - 6)

LEMMA UnitsGrow ==
    ASSUME NEW a \in Nat \ {0}
    PROVE  /\ Units(1) = 0 /\ Units(a) \in Nat
           /\ Units(a) + Power(Smaller(a, 5)) = Units(a + 1)
           /\ Power(Smaller(a, 5)) \in Nat
<1>1. CASE a \in 1 .. 6
  <2>1. a = 1 \/ a = 2 \/ a = 3 \/ a = 4 \/ a = 5 \/ a = 6
    BY <1>1
  <2>2. Smaller(1, 5) = 1 /\ Smaller(2, 5) = 2 /\ Smaller(3, 5) = 3 /\ Smaller(4, 5) = 4
        /\ Smaller(5, 5) = 5 /\ Smaller(6, 5) = 5
    BY DEF Smaller
  <2>3. Units(1) = 0 /\ Units(2) = 2 /\ Units(3) = 6 /\ Units(4) = 14 /\ Units(5) = 30
        /\ Units(6) = 62 /\ Units(7) = 94
    BY SmallPowers DEF Units
  <2>. QED
    BY <2>1, <2>2, <2>3, SmallPowers
<1>2. CASE a > 6
  <2>1. Smaller(a, 5) = 5
    BY <1>2 DEF Smaller
  <2>2. Units(a) = 62 + 32 * (a - 6) /\ Units(a + 1) = 62 + 32 * (a + 1 - 6)
    BY <1>2 DEF Units
  <2>3. Units(1) = 0
    BY SmallPowers DEF Units
  <2>. QED
    BY <1>2, <2>1, <2>2, <2>3, SmallPowers
<1>. QED
  BY <1>1, <1>2

LEMMA UnitsMonotone ==
    ASSUME NEW a \in Nat \ {0}, NEW n \in Nat \ {0}, a <= n
    PROVE  Units(a) <= Units(n)
<1>1. Units(1) = 0 /\ Units(2) = 2 /\ Units(3) = 6 /\ Units(4) = 14 /\ Units(5) = 30
      /\ Units(6) = 62
  BY SmallPowers DEF Units
<1>2. a > 6 => Units(a) = 62 + 32 * (a - 6)
  BY DEF Units
<1>3. n > 6 => Units(n) = 62 + 32 * (n - 6)
  BY DEF Units
<1>4. a \in 1 .. 6 => a = 1 \/ a = 2 \/ a = 3 \/ a = 4 \/ a = 5 \/ a = 6
  OBVIOUS
<1>5. n \in 1 .. 6 => n = 1 \/ n = 2 \/ n = 3 \/ n = 4 \/ n = 5 \/ n = 6
  OBVIOUS
<1>. QED
  BY <1>1, <1>2, <1>3, <1>4, <1>5

\* Products of natural numbers.
LEMMA Products ==
    ASSUME NEW a \in Nat, NEW b \in Nat, NEW c \in Nat
    PROVE  /\ a * b \in Nat
           /\ (a + c) * b = a * b + c * b
           /\ a * (b + c) = a * b + a * c
           /\ a <= c => a * b <= c * b /\ b * a <= b * c
<1>1. /\ a * b \in Nat /\ c * b \in Nat /\ a * c \in Nat
      /\ (a + c) * b = a * b + c * b
      /\ a * (b + c) = a * b + a * c
  OBVIOUS
<1>2. ASSUME a <= c PROVE a * b <= c * b /\ b * a <= b * c
  <2>1. PICK d \in Nat : c = a + d
    BY <1>2
  <2>2. c * b = a * b + d * b /\ d * b \in Nat /\ d * b >= 0
    BY <2>1
  <2>3. b * a = a * b /\ b * c = c * b
    OBVIOUS
  <2>. QED
    BY <1>1, <2>2, <2>3
<1>. QED
  BY <1>1, <1>2

\* The numbers of the policies.
LEMMA Policies ==
    ASSUME NEW j \in Jobs
    PROVE  /\ Timeout \in Nat /\ BackoffUnit \in Nat /\ BaseDelay \in Nat /\ Jitter \in Nat
           /\ MaxAttempts \in Nat /\ MaxAttempts >= 1
           /\ Limit(j) \in Nat /\ Limit(j) >= 1
           /\ JobKind[j] # "webhook" => Limit(j) = MaxAttempts
BY JobsAssumption, PolicyAssumption DEF Limit, WebhookLimit, Larger

\* What is spent grows from attempt to attempt, by one sleep and one attempt.
LEMMA SpentWebhook ==
    ASSUME NEW j \in Jobs, JobKind[j] = "webhook", NEW a \in Nat \ {0}
    PROVE  /\ Spent(j, 1) = Timeout /\ Spent(j, a) \in Nat
           /\ Spent(j, a) + WebhookBackoff(a) + Timeout = Spent(j, a + 1)
           /\ WebhookBackoff(a) \in Nat
           /\ \A n \in Nat \ {0} : a <= n => Spent(j, a) <= Spent(j, n)
<1>1. \A n : Spent(j, n) = n * Timeout + BackoffUnit * Units(n)
  BY DEF Spent, LongestSleeps, Units
<1>2. /\ Units(1) = 0 /\ Units(a) \in Nat /\ Units(a + 1) = Units(a) + Power(Smaller(a, 5))
      /\ Power(Smaller(a, 5)) \in Nat
  BY UnitsGrow
<1>3. Timeout \in Nat /\ BackoffUnit \in Nat
  BY Policies
<1>4. Spent(j, 1) = Timeout
  BY <1>1, <1>2, <1>3
<1>5. a * Timeout \in Nat /\ BackoffUnit * Units(a) \in Nat
      /\ (a + 1) * Timeout = a * Timeout + 1 * Timeout
  BY <1>2, <1>3, Products
<1>6. WebhookBackoff(a) = BackoffUnit * Power(Smaller(a, 5)) /\ WebhookBackoff(a) \in Nat
  BY <1>2, <1>3, Products DEF WebhookBackoff
<1>7. BackoffUnit * Units(a + 1) = BackoffUnit * Units(a) + BackoffUnit * Power(Smaller(a, 5))
  BY <1>2, <1>3, Products
<1>8. ASSUME NEW n \in Nat \ {0}, a <= n PROVE Spent(j, a) <= Spent(j, n)
  <2>1. Units(n) \in Nat /\ Units(a) <= Units(n)
    BY <1>8, UnitsGrow, UnitsMonotone
  <2>2. BackoffUnit * Units(a) <= BackoffUnit * Units(n) /\ BackoffUnit * Units(n) \in Nat
    BY <1>2, <1>3, <2>1, Products
  <2>3. a * Timeout <= n * Timeout /\ n * Timeout \in Nat
    BY <1>3, <1>8, Products
  <2>. QED
    BY <1>1, <1>5, <2>2, <2>3
<1>. QED
  BY <1>1, <1>3, <1>4, <1>5, <1>6, <1>7, <1>8

LEMMA SpentRetry ==
    ASSUME NEW j \in Jobs, JobKind[j] = "retry", NEW a \in 1 .. MaxAttempts
    PROVE  /\ Spent(j, 1) = Timeout /\ Spent(j, a) \in Nat
           /\ Spent(j, a) + (BaseDelay * Power(a - 1) + Jitter) + Timeout = Spent(j, a + 1)
           /\ BaseDelay * Power(a - 1) \in Nat
           /\ \A n \in 1 .. MaxAttempts : a <= n => Spent(j, a) <= Spent(j, n)
<1>1. \A n : Spent(j, n) = n * Timeout + (BaseDelay * (Power(n - 1) - 1) + (n - 1) * Jitter)
  BY DEF Spent, LongestSleeps
<1>2. Timeout \in Nat /\ BaseDelay \in Nat /\ Jitter \in Nat /\ MaxAttempts \in Nat
  BY Policies
<1>3. ASSUME NEW n \in 1 .. MaxAttempts
      PROVE  /\ Power(n - 1) \in Nat /\ Power(n - 1) >= 1 /\ Power(n) = 2 * Power(n - 1)
             /\ Power(n - 1) - 1 \in Nat
  <2>1. n - 1 \in 0 .. MaxAttempts /\ 0 \in 0 .. MaxAttempts /\ n - 1 + 1 = n /\ 0 <= n - 1
    BY <1>2, <1>3
  <2>2. Power(n - 1) \in Nat /\ Power(n - 1 + 1) = 2 * Power(n - 1) /\ Power(0) <= Power(n - 1)
        /\ Power(0) = 1
    BY <2>1, PowerAssumption
  <2>. QED
    BY <2>1, <2>2
<1>4. Spent(j, 1) = Timeout
  <2>1. Power(1 - 1) = 1
    BY SmallPowers
  <2>. QED
    BY <1>1, <1>2, <2>1
<1>5. ASSUME NEW n \in 1 .. MaxAttempts
      PROVE  /\ n * Timeout \in Nat /\ BaseDelay * (Power(n - 1) - 1) \in Nat
             /\ (n - 1) * Jitter \in Nat /\ BaseDelay * Power(n - 1) \in Nat
  <2>1. n \in Nat /\ n - 1 \in Nat
    BY <1>2, <1>5
  <2>. QED
    BY <1>2, <1>3, <2>1, Products
<1>6. PICK p \in Nat : p = Power(a - 1) - 1 /\ Power(a - 1) = p + 1 /\ Power(a) - 1 = p + (p + 1)
  BY <1>3
<1>7. /\ (a + 1) * Timeout = a * Timeout + Timeout
      /\ (a + 1 - 1) * Jitter = (a - 1) * Jitter + Jitter
      /\ BaseDelay * (p + (p + 1)) = BaseDelay * p + BaseDelay * (p + 1)
  <2>1. PICK k \in Nat : k = a - 1 /\ a = k + 1
    BY <1>2
  <2>2. (k + 1) * Jitter = k * Jitter + 1 * Jitter /\ (a + 1) * Timeout = a * Timeout + 1 * Timeout
    BY <1>2, <2>1, Products
  <2>3. BaseDelay * (p + (p + 1)) = BaseDelay * p + BaseDelay * (p + 1)
    BY <1>2, Products
  <2>. QED
    BY <1>2, <2>1, <2>2, <2>3
<1>8. Power(a + 1 - 1) = Power(a)
  BY <1>2
<1>9. Spent(j, a + 1) = (a + 1) * Timeout + (BaseDelay * (Power(a) - 1) + (a + 1 - 1) * Jitter)
  BY <1>1, <1>8
<1>10. Spent(j, a) + (BaseDelay * Power(a - 1) + Jitter) + Timeout = Spent(j, a + 1)
  <2>1. PICK u \in Nat, v \in Nat, w \in Nat, x \in Nat :
          /\ u = a * Timeout /\ v = BaseDelay * p /\ w = (a - 1) * Jitter /\ x = BaseDelay * (p + 1)
    BY <1>5, <1>6
  <2>2. Spent(j, a) = u + (v + w) /\ Spent(j, a + 1) = (u + Timeout) + ((v + x) + (w + Jitter))
    BY <1>1, <1>6, <1>7, <1>9, <2>1
  <2>3. BaseDelay * Power(a - 1) = x
    BY <1>6, <2>1
  <2>. QED
    BY <1>2, <2>2, <2>3
<1>11. ASSUME NEW n \in 1 .. MaxAttempts, a <= n PROVE Spent(j, a) <= Spent(j, n)
  <2>1. Power(a - 1) <= Power(n - 1)
    BY <1>2, <1>11, PowerAssumption
  <2>2. a - 1 \in Nat /\ n - 1 \in Nat /\ a \in Nat /\ n \in Nat /\ a - 1 <= n - 1
    BY <1>2, <1>11
  <2>3. Power(a - 1) - 1 <= Power(n - 1) - 1
    BY <1>3, <2>1
  <2>4. /\ a * Timeout <= n * Timeout /\ (a - 1) * Jitter <= (n - 1) * Jitter
        /\ BaseDelay * (Power(a - 1) - 1) <= BaseDelay * (Power(n - 1) - 1)
    BY <1>2, <1>3, <1>11, <2>2, <2>3, Products
  <2>. QED
    BY <1>1, <1>5, <2>4
<1>12. Spent(j, a) \in Nat
  BY <1>1, <1>5
<1>. QED
  BY <1>4, <1>5, <1>10, <1>11, <1>12

\* The sleeps after a given number of attempts.
Pauses(j, a) == IF JobKind[j] = "webhook" THEN {WebhookBackoff(a)} ELSE BackoffForAttempt(a + 1)

LEMMA SpentGrows ==
    ASSUME NEW j \in Jobs, JobKind[j] # "in_process", NEW a \in 1 .. Limit(j)
    PROVE  /\ Spent(j, 1) = Timeout /\ Spent(j, a) \in Nat
           /\ \A pause \in Pauses(j, a) :
                 pause \in Nat /\ Spent(j, a) + pause + Timeout <= Spent(j, a + 1)
           /\ \A n \in 1 .. Limit(j) : a <= n => Spent(j, a) <= Spent(j, n)
<1>1. CASE JobKind[j] = "webhook"
  <2>1. a \in Nat \ {0} /\ \A n \in 1 .. Limit(j) : n \in Nat \ {0}
    BY Policies
  <2>2. Pauses(j, a) = {WebhookBackoff(a)}
    BY <1>1 DEF Pauses
  <2>3. /\ Spent(j, 1) = Timeout /\ Spent(j, a) \in Nat
        /\ Spent(j, a) + WebhookBackoff(a) + Timeout = Spent(j, a + 1)
        /\ WebhookBackoff(a) \in Nat
        /\ \A n \in Nat \ {0} : a <= n => Spent(j, a) <= Spent(j, n)
    BY <1>1, <2>1, SpentWebhook
  <2>. QED
    BY <2>1, <2>2, <2>3, Policies
<1>2. CASE JobKind[j] # "webhook"
  <2>1. JobKind[j] = "retry" /\ Limit(j) = MaxAttempts
    BY <1>2, JobsAssumption, Policies
  <2>2. PICK base \in Nat : base = BaseDelay * Power(a - 1)
    BY <2>1, SpentRetry
  <2>3. a \in Nat /\ a + 1 - 2 = a - 1 /\ Jitter \in Nat /\ Timeout \in Nat
    BY Policies
  <2>4. Pauses(j, a) = (IF base < Jitter THEN 0 ELSE base - Jitter) .. (base + Jitter)
    BY <1>2, <2>2, <2>3 DEF Pauses, BackoffForAttempt
  <2>5. /\ Spent(j, 1) = Timeout /\ Spent(j, a) \in Nat
        /\ Spent(j, a) + (base + Jitter) + Timeout = Spent(j, a + 1)
        /\ \A n \in 1 .. MaxAttempts : a <= n => Spent(j, a) <= Spent(j, n)
    BY <2>1, <2>2, SpentRetry
  <2>6. ASSUME NEW pause \in Pauses(j, a) PROVE pause \in Nat /\ pause <= base + Jitter
    BY <2>3, <2>4
  <2>. QED
    BY <2>1, <2>3, <2>5, <2>6
<1>. QED
  BY <1>1, <1>2

\* Where a call is on its way: c is its state, r how often it was processed, b
\* when its first attempt left, t what time it is and e whether it followed a
\* redirect.
OnItsWay(j, c, r, b, t, e) ==
    /\ c.pc \in {"new", "checking", "checked"} => c.attempts = 0 /\ r = 0
    /\ c.pc \in {"checking", "checked"} => JobKind[j] = "webhook"
    /\ c.pc \in {"sending", "sleeping"} =>
          JobKind[j] # "in_process" /\ c.attempts \in 1 .. Limit(j) /\ t <= c.due
    /\ c.pc = "sending" => /\ r <= c.attempts /\ c.due <= b + Spent(j, c.attempts)
                           /\ c.method = "post" => r < c.attempts
                           /\ c.method = "get" => e
    /\ c.pc = "sleeping" => /\ r <= c.attempts /\ c.attempts < Limit(j)
                            /\ c.due + Timeout <= b + Spent(j, c.attempts + 1)
    /\ r <= Limit(j)
    /\ c.pc = "ok" => r >= 1 \/ e

CallsTyped ==
    /\ clock \in Nat
    /\ call \in [Jobs -> Call] /\ received \in [Jobs -> Nat] /\ begun \in [Jobs -> Nat]

CallsInv ==
    CallsTyped /\ \A j \in Jobs : OnItsWay(j, call[j], received[j], begun[j], clock, j \in redirected)

LEMMA CallsInvBounds == CallsInv => CallsAreBounded
<1>. SUFFICES ASSUME CallsInv, NEW j \in Jobs
              PROVE  /\ call[j].pc \in {"sending", "sleeping"} => clock <= begun[j] + LongestCall(j)
                     /\ received[j] <= Limit(j)
                     /\ call[j].pc = "ok" => received[j] >= 1 \/ j \in redirected
  BY DEF CallsAreBounded
<1>1. OnItsWay(j, call[j], received[j], begun[j], clock, j \in redirected)
  BY DEF CallsInv
<1>2. /\ clock \in Nat /\ begun[j] \in Nat
      /\ call[j].attempts \in Nat /\ call[j].due \in Nat
  BY DEF CallsInv, CallsTyped, Call
<1>3. Timeout \in Nat /\ Limit(j) \in Nat /\ Limit(j) >= 1
  BY Policies
<1>4. LongestCall(j) = Spent(j, Limit(j))
  BY DEF LongestCall, Spent
<1>5. CASE call[j].pc = "sending"
  <2>1. /\ JobKind[j] # "in_process" /\ call[j].attempts \in 1 .. Limit(j)
        /\ clock <= call[j].due /\ call[j].due <= begun[j] + Spent(j, call[j].attempts)
    BY <1>1, <1>5 DEF OnItsWay
  <2>2. Limit(j) \in 1 .. Limit(j) /\ call[j].attempts <= Limit(j)
    BY <1>3, <2>1
  <2>3. /\ Spent(j, call[j].attempts) \in Nat /\ Spent(j, Limit(j)) \in Nat
        /\ Spent(j, call[j].attempts) <= Spent(j, Limit(j))
    BY <2>1, <2>2, SpentGrows
  <2>. QED
    BY <1>1, <1>2, <1>4, <1>5, <2>1, <2>3 DEF OnItsWay
<1>6. CASE call[j].pc = "sleeping"
  <2>1. /\ JobKind[j] # "in_process" /\ call[j].attempts \in 1 .. Limit(j)
        /\ clock <= call[j].due /\ call[j].attempts < Limit(j)
        /\ call[j].due + Timeout <= begun[j] + Spent(j, call[j].attempts + 1)
    BY <1>1, <1>6 DEF OnItsWay
  <2>2. /\ Limit(j) \in 1 .. Limit(j) /\ call[j].attempts + 1 <= Limit(j)
        /\ call[j].attempts + 1 \in 1 .. Limit(j)
    BY <1>2, <1>3, <2>1
  <2>3. /\ Spent(j, call[j].attempts + 1) \in Nat /\ Spent(j, Limit(j)) \in Nat
        /\ Spent(j, call[j].attempts + 1) <= Spent(j, Limit(j))
    BY <2>1, <2>2, SpentGrows
  <2>. QED
    BY <1>1, <1>2, <1>3, <1>4, <1>6, <2>1, <2>3 DEF OnItsWay
<1>. QED
  BY <1>1, <1>5, <1>6 DEF OnItsWay

LEMMA CallsInvInit == Init => CallsInv
<1>. SUFFICES ASSUME Init PROVE CallsInv
  OBVIOUS
<1>1. CallsTyped
  BY DEF Init, InitCalls, CallsTyped, Call
<1>2. ASSUME NEW j \in Jobs PROVE OnItsWay(j, call[j], received[j], begun[j], clock, j \in redirected)
  <2>1. call[j].pc = "new" /\ call[j].attempts = 0 /\ received[j] = 0
    BY DEF Init, InitCalls
  <2>2. Limit(j) \in Nat
    BY Policies
  <2>. QED
    BY <2>1, <2>2 DEF OnItsWay
<1>. QED
  BY <1>1, <1>2 DEF CallsInv

\* A step of one call leaves the others where they are.
LEMMA OneCallMoves ==
    ASSUME CallsInv, CallsTyped', clock' = clock, NEW j \in Jobs,
           \A k \in Jobs \ {j} :
              /\ call'[k] = call[k] /\ received'[k] = received[k] /\ begun'[k] = begun[k]
              /\ k \in redirected' <=> k \in redirected,
           OnItsWay(j, call'[j], received'[j], begun'[j], clock, j \in redirected')
    PROVE  CallsInv'
<1>1. ASSUME NEW k \in Jobs PROVE OnItsWay(k, call'[k], received'[k], begun'[k], clock', k \in redirected')
  <2>1. CASE k = j
    BY <2>1
  <2>2. CASE k # j
    <3>1. /\ call'[k] = call[k] /\ received'[k] = received[k] /\ begun'[k] = begun[k]
          /\ k \in redirected' <=> k \in redirected
      BY <2>2
    <3>2. OnItsWay(k, call[k], received[k], begun[k], clock, k \in redirected)
      BY DEF CallsInv
    <3>. QED
      BY <3>1, <3>2 DEF OnItsWay
  <2>. QED
    BY <2>1, <2>2
<1>2. (\A k \in Jobs : OnItsWay(k, call[k], received[k], begun[k], clock, k \in redirected))'
  BY <1>1
<1>. QED
  BY <1>2 DEF CallsInv

\* A call that has ended, processed no more often than it may be.
LEMMA Ended ==
    ASSUME NEW j \in Jobs, NEW c, NEW r \in Nat, NEW b, NEW t, NEW e,
           c.pc \in {"ok", "error"}, c.pc = "ok" => r >= 1 \/ e, r <= Limit(j)
    PROVE  OnItsWay(j, c, r, b, t, e)
BY DEF OnItsWay

\* The first attempt of a call that begins at t.
LEMMA FirstSent ==
    ASSUME NEW j \in Jobs, JobKind[j] # "in_process", NEW t \in Nat, NEW e,
           NEW c \in Call, c.pc = "sending", c.attempts = 1, c.due = t + Timeout,
           c.method = "post"
    PROVE  OnItsWay(j, c, 0, t, t, e)
<1>1. Timeout \in Nat /\ Limit(j) \in Nat /\ Limit(j) >= 1 /\ 1 \in 1 .. Limit(j)
  BY Policies
<1>2. Spent(j, 1) = Timeout
  BY <1>1, SpentGrows
<1>. QED
  BY <1>1, <1>2 DEF OnItsWay

\* The lookup of the host check: nothing has been sent.
LEMMA CheckKeeps ==
    ASSUME CallsInv, NEW j \in Jobs, clock' = clock, SubmitWebhook(j) \/ HostChecked(j)
    PROVE  CallsInv'
<1>1. CallsTyped /\ OnItsWay(j, call[j], received[j], begun[j], clock, j \in redirected)
  BY DEF CallsInv
<1>2. /\ received' = received /\ begun' = begun /\ redirected' = redirected
      /\ call[j].pc \in {"new", "checking"} /\ JobKind[j] = "webhook"
  BY <1>1 DEF SubmitWebhook, HostChecked, OnItsWay
<1>3. PICK pc \in {"checking", "checked", "error"} : call' = [call EXCEPT ![j].pc = pc]
  BY DEF SubmitWebhook, HostChecked, Finish
<1>4. /\ call' \in [Jobs -> Call] /\ call'[j].pc = pc /\ call'[j].attempts = call[j].attempts
      /\ \A k \in Jobs \ {j} : call'[k] = call[k]
  BY <1>1, <1>3 DEF CallsTyped, Call
<1>5. OnItsWay(j, call'[j], received'[j], begun'[j], clock, j \in redirected')
  BY <1>1, <1>2, <1>4 DEF OnItsWay
<1>6. CallsTyped'
  BY <1>1, <1>2, <1>4 DEF CallsTyped
<1>. QED
  BY <1>2, <1>4, <1>5, <1>6, OneCallMoves

LEMMA SubmitKeeps ==
    ASSUME CallsInv, NEW j \in Jobs, clock' = clock,
           FirstPost(j) \/ SubmitInProcess(j) \/ BeginRetry(j)
    PROVE  CallsInv'
<1>1. CallsTyped /\ OnItsWay(j, call[j], received[j], begun[j], clock, j \in redirected)
  BY DEF CallsInv
<1>2. call[j].attempts = 0 /\ received[j] = 0 /\ call[j] \in Call /\ redirected' = redirected
  BY <1>1 DEF OnItsWay, FirstPost, SubmitInProcess, BeginRetry, CallsTyped
<1>3. Timeout \in Nat /\ Limit(j) \in Nat /\ Limit(j) >= 1
  BY Policies
<1>4. /\ begun' = [begun EXCEPT ![j] = clock] /\ begun'[j] = clock
      /\ \A k \in Jobs \ {j} : begun'[k] = begun[k]
      /\ begun' \in [Jobs -> Nat]
  BY <1>1 DEF FirstPost, SubmitInProcess, BeginRetry, CallsTyped
<1>5. CASE JobKind[j] # "in_process" /\ Send(j) /\ received' = received
  <2>1. PICK c : c = [pc |-> "sending", attempts |-> 1, due |-> clock + Timeout,
                     method |-> "post"]
    OBVIOUS
  <2>2. c \in Call
    BY <1>1, <1>3, <2>1 DEF Call, CallsTyped
  <2>3. call' = [call EXCEPT ![j] = c]
    BY <1>2, <1>5, <2>1 DEF Send
  <2>4. /\ call'[j] = c /\ \A k \in Jobs \ {j} : call'[k] = call[k]
        /\ call' \in [Jobs -> Call]
    BY <1>1, <2>2, <2>3 DEF CallsTyped
  <2>5. OnItsWay(j, c, 0, clock, clock, j \in redirected)
    BY <1>1, <1>5, <2>1, <2>2, FirstSent DEF CallsTyped
  <2>6. OnItsWay(j, call'[j], received'[j], begun'[j], clock, j \in redirected')
    BY <1>2, <1>4, <1>5, <2>4, <2>5
  <2>7. CallsTyped'
    BY <1>1, <1>4, <1>5, <2>4 DEF CallsTyped
  <2>. QED
    BY <1>2, <1>4, <1>5, <2>4, <2>6, <2>7, OneCallMoves
<1>6. CASE \E result \in {"ok", "error"} :
              /\ Finish(j, result)
              /\ \/ result = "error" /\ received' = received
                 \/ received' = [received EXCEPT ![j] = @ + 1]
  <2>1. PICK result \in {"ok", "error"} :
              /\ Finish(j, result)
              /\ \/ result = "error" /\ received' = received
                 \/ received' = [received EXCEPT ![j] = @ + 1]
    BY <1>6
  <2>2. /\ call' \in [Jobs -> Call] /\ call'[j].pc = result
        /\ \A k \in Jobs \ {j} : call'[k] = call[k]
    BY <1>1, <2>1 DEF CallsTyped, Call, Finish
  <2>3. /\ received' \in [Jobs -> Nat] /\ received'[j] \in {0, 1}
        /\ \A k \in Jobs \ {j} : received'[k] = received[k]
        /\ result = "ok" => received'[j] = 1
    BY <1>1, <1>2, <2>1 DEF CallsTyped
  <2>4. OnItsWay(j, call'[j], received'[j], begun'[j], clock, j \in redirected')
    BY <1>3, <2>2, <2>3, Ended
  <2>5. CallsTyped'
    BY <1>1, <1>4, <2>2, <2>3 DEF CallsTyped
  <2>. QED
    BY <1>2, <1>4, <2>2, <2>3, <2>4, <2>5, OneCallMoves
<1>7. CASE FirstPost(j)
  <2>1. JobKind[j] # "in_process" /\ received' = received /\ Send(j)
    BY <1>1, <1>7 DEF FirstPost, OnItsWay
  <2>. QED
    BY <1>5, <2>1
<1>8. CASE SubmitInProcess(j)
  BY <1>6, <1>8 DEF SubmitInProcess
<1>9. CASE BeginRetry(j)
  BY <1>5, <1>9 DEF BeginRetry
<1>. QED
  BY <1>7, <1>8, <1>9

\* What the far side counts, whichever request it got.
LEMMA ProcessedCounts ==
    ASSUME CallsTyped, NEW j \in Jobs, Processed(j) \/ UNCHANGED received
    PROVE  /\ received' \in [Jobs -> Nat] /\ \A k \in Jobs \ {j} : received'[k] = received[k]
           /\ received'[j] \in {received[j], received[j] + 1}
           /\ call[j].method # "post" => received'[j] = received[j]
           /\ Processed(j) /\ call[j].method = "post" => received'[j] = received[j] + 1
BY DEF CallsTyped, Processed

\* No call that is being sent has been processed too often to be processed now.
LEMMA CountedOnce ==
    ASSUME CallsInv, NEW j \in Jobs, call[j].pc = "sending", Processed(j) \/ UNCHANGED received
    PROVE  received'[j] \in Nat /\ received'[j] <= call[j].attempts /\ received'[j] <= Limit(j)
<1>1. CallsTyped /\ OnItsWay(j, call[j], received[j], begun[j], clock, j \in redirected)
  BY DEF CallsInv
<1>2. /\ Limit(j) \in Nat /\ received[j] \in Nat /\ call[j].attempts \in Nat
      /\ call[j].method \in {"post", "get"}
  BY <1>1, Policies DEF CallsTyped, Call
<1>3. /\ received[j] <= call[j].attempts /\ call[j].attempts <= Limit(j)
      /\ call[j].method = "post" => received[j] < call[j].attempts
  BY <1>1, <1>2 DEF OnItsWay
<1>4. /\ received'[j] \in {received[j], received[j] + 1}
      /\ call[j].method # "post" => received'[j] = received[j]
  BY <1>1, ProcessedCounts
<1>. QED
  BY <1>2, <1>3, <1>4

LEMMA SucceedKeeps ==
    ASSUME CallsInv, NEW j \in Jobs, clock' = clock, Succeed(j)
    PROVE  CallsInv'
<1>1. CallsTyped /\ OnItsWay(j, call[j], received[j], begun[j], clock, j \in redirected)
  BY DEF CallsInv
<1>2. call[j].pc = "sending" /\ Processed(j) /\ begun' = begun /\ redirected' = redirected
  BY DEF Succeed
<1>3. received'[j] \in Nat /\ received'[j] <= Limit(j)
  BY <1>2, CountedOnce
<1>4. /\ call' \in [Jobs -> Call] /\ call'[j].pc = "ok"
      /\ \A k \in Jobs \ {j} : call'[k] = call[k]
  BY <1>1 DEF Succeed, Finish, CallsTyped, Call
<1>5. /\ received' \in [Jobs -> Nat] /\ \A k \in Jobs \ {j} : received'[k] = received[k]
      /\ call[j].method = "post" => received'[j] = received[j] + 1
  BY <1>1, <1>2, ProcessedCounts
<1>6. received'[j] >= 1 \/ j \in redirected'
  <2>1. received[j] \in Nat /\ call[j].method \in {"post", "get"}
    BY <1>1 DEF CallsTyped, Call
  <2>. QED
    BY <1>1, <1>2, <1>5, <2>1 DEF OnItsWay
<1>7. OnItsWay(j, call'[j], received'[j], begun'[j], clock, j \in redirected')
  BY <1>3, <1>4, <1>6 DEF OnItsWay
<1>8. CallsTyped'
  BY <1>1, <1>2, <1>4, <1>5 DEF CallsTyped
<1>. QED
  BY <1>2, <1>4, <1>5, <1>7, <1>8, OneCallMoves

\* A redirect within an attempt: its timer stands, and after it nothing more is
\* counted unless the request is the same.
LEMMA RedirectKeeps ==
    ASSUME CallsInv, NEW j \in Jobs, clock' = clock, NEW kept \in BOOLEAN, NEW target,
           Redirected(j, kept, target)
    PROVE  CallsInv'
<1>1. CallsTyped /\ OnItsWay(j, call[j], received[j], begun[j], clock, j \in redirected)
  BY DEF CallsInv
<1>2. /\ call[j].pc = "sending" /\ begun' = begun /\ redirected' = redirected \cup {j}
      /\ Processed(j) \/ UNCHANGED received
      /\ kept => UNCHANGED received
  BY DEF Redirected
<1>3. /\ received'[j] \in Nat /\ received'[j] <= call[j].attempts /\ received'[j] <= Limit(j)
  BY <1>2, CountedOnce
<1>4. /\ received' \in [Jobs -> Nat] /\ \A k \in Jobs \ {j} : received'[k] = received[k]
  BY <1>1, <1>2, ProcessedCounts
<1>5. PICK m \in {"post", "get"} :
        /\ call' = [call EXCEPT ![j].method = m]
        /\ kept => m = call[j].method
        /\ ~kept => m = "get"
  BY <1>1 DEF Redirected, CallsTyped, Call
<1>6. /\ call' \in [Jobs -> Call] /\ call'[j].pc = "sending" /\ call'[j].method = m
      /\ call'[j].attempts = call[j].attempts /\ call'[j].due = call[j].due
      /\ \A k \in Jobs \ {j} : call'[k] = call[k]
  BY <1>1, <1>2, <1>5 DEF CallsTyped, Call
<1>7. m = "post" => received'[j] < call[j].attempts
  BY <1>1, <1>2, <1>5 DEF OnItsWay
<1>8. OnItsWay(j, call'[j], received'[j], begun'[j], clock, j \in redirected')
  BY <1>1, <1>2, <1>3, <1>6, <1>7 DEF OnItsWay
<1>9. CallsTyped'
  BY <1>1, <1>2, <1>4, <1>6 DEF CallsTyped
<1>. QED
  BY <1>2, <1>4, <1>6, <1>8, <1>9, OneCallMoves

LEMMA FailKeeps ==
    ASSUME CallsInv, NEW j \in Jobs, clock' = clock, NEW retriable, Fail(j, retriable)
    PROVE  CallsInv'
<1>1. CallsTyped /\ OnItsWay(j, call[j], received[j], begun[j], clock, j \in redirected)
  BY DEF CallsInv
<1>2. Limit(j) \in Nat /\ Timeout \in Nat
  BY Policies
<1>3. PICK a \in Nat, r \in Nat, b \in Nat, due \in Nat :
        a = call[j].attempts /\ r = received[j] /\ b = begun[j] /\ due = call[j].due
  BY <1>1 DEF CallsTyped, Call
<1>4. /\ JobKind[j] # "in_process" /\ a \in 1 .. Limit(j)
      /\ clock <= due /\ due <= b + Spent(j, a)
  BY <1>1, <1>3 DEF Fail, OnItsWay
<1>5. begun' = begun /\ redirected' = redirected
  BY DEF Fail
<1>6. /\ received' \in [Jobs -> Nat]
      /\ received'[j] \in Nat /\ received'[j] <= a /\ received'[j] <= Limit(j)
      /\ \A k \in Jobs \ {j} : received'[k] = received[k]
  BY <1>1, <1>3, CountedOnce, ProcessedCounts DEF Fail
<1>7. CASE Finish(j, "error")
  <2>1. /\ call' \in [Jobs -> Call] /\ call'[j].pc = "error"
        /\ \A k \in Jobs \ {j} : call'[k] = call[k]
    BY <1>1, <1>7 DEF Finish, CallsTyped, Call
  <2>2. OnItsWay(j, call'[j], received'[j], begun'[j], clock, j \in redirected')
    BY <1>2, <1>4, <1>6, <2>1, Ended
  <2>3. CallsTyped'
    BY <1>1, <1>5, <1>6, <2>1 DEF CallsTyped
  <2>. QED
    BY <1>5, <1>6, <2>1, <2>2, <2>3, OneCallMoves
<1>8. CASE Sleep(j) /\ a < Limit(j)
  <2>1. Backoffs(j) = Pauses(j, a)
    BY <1>3 DEF Backoffs, Pauses
  <2>2. PICK pause \in Pauses(j, a) :
          call' = [call EXCEPT ![j].pc = "sleeping", ![j].due = clock + pause]
    BY <1>8, <2>1 DEF Sleep
  <2>3. pause \in Nat /\ Spent(j, a) \in Nat /\ Spent(j, a) + pause + Timeout <= Spent(j, a + 1)
    BY <1>4, <2>2, SpentGrows
  <2>4. /\ call' \in [Jobs -> Call] /\ call'[j].pc = "sleeping"
        /\ call'[j].attempts = a /\ call'[j].due = clock + pause
        /\ \A k \in Jobs \ {j} : call'[k] = call[k]
    <3>1. PICK c : c = [call[j] EXCEPT !.pc = "sleeping", !.due = clock + pause]
      OBVIOUS
    <3>2. call[j] \in Call /\ clock + pause \in Nat /\ DOMAIN call = Jobs
      BY <1>1, <2>3 DEF CallsTyped
    <3>3. c.pc = "sleeping" /\ c.attempts = a /\ c.due = clock + pause /\ c \in Call
      BY <1>3, <3>1, <3>2 DEF Call
    <3>4. call'[j] = c /\ \A k \in Jobs \ {j} : call'[k] = call[k]
      BY <2>2, <3>1, <3>2
    <3>5. DOMAIN call' = Jobs /\ call' = [k \in Jobs |-> call'[k]]
      BY <2>2, <3>2
    <3>6. \A k \in Jobs : call'[k] \in Call
      BY <1>1, <3>3, <3>4 DEF CallsTyped
    <3>7. call' \in [Jobs -> Call]
      BY <3>5, <3>6
    <3>. QED
      BY <3>3, <3>4, <3>7
  <2>5. clock + pause + Timeout <= b + Spent(j, a + 1) /\ clock <= clock + pause
    <3>1. clock \in Nat
      BY <1>1 DEF CallsTyped
    <3>2. Spent(j, a + 1) \in Nat
      <4>1. a + 1 \in 1 .. Limit(j)
        BY <1>2, <1>8
      <4>. QED
        BY <1>4, <4>1, SpentGrows
    <3>. QED
      BY <1>2, <1>4, <2>3, <3>1, <3>2
  <2>6. OnItsWay(j, call'[j], received'[j], begun'[j], clock, j \in redirected')
    <3>1. begun'[j] = b
      BY <1>3, <1>5
    <3>. QED
      BY <1>4, <1>6, <1>8, <2>4, <2>5, <3>1 DEF OnItsWay
  <2>7. CallsTyped'
    BY <1>1, <1>5, <1>6, <2>4 DEF CallsTyped
  <2>. QED
    BY <1>5, <1>6, <2>4, <2>6, <2>7, OneCallMoves
<1>. QED
  BY <1>2, <1>3, <1>7, <1>8 DEF Fail

LEMMA WakeKeeps ==
    ASSUME CallsInv, NEW j \in Jobs, clock' = clock, Wake(j)
    PROVE  CallsInv'
<1>1. CallsTyped /\ OnItsWay(j, call[j], received[j], begun[j], clock, j \in redirected)
  BY DEF CallsInv
<1>2. Limit(j) \in Nat /\ Timeout \in Nat
  BY Policies
<1>3. PICK a \in Nat, r \in Nat, b \in Nat, due \in Nat :
        a = call[j].attempts /\ r = received[j] /\ b = begun[j] /\ due = call[j].due
  BY <1>1 DEF CallsTyped, Call
<1>4. /\ JobKind[j] # "in_process" /\ a \in 1 .. Limit(j) /\ r <= a /\ a < Limit(j)
      /\ clock = due /\ due + Timeout <= b + Spent(j, a + 1)
  BY <1>1, <1>3 DEF Wake, OnItsWay, CallsTyped
<1>5. begun' = begun /\ received' = received /\ redirected' = redirected
  BY DEF Wake
<1>6. PICK c : c = [pc |-> "sending", attempts |-> a + 1, due |-> clock + Timeout,
                    method |-> "post"]
  OBVIOUS
<1>7. c \in Call /\ clock \in Nat
  BY <1>1, <1>2, <1>6 DEF Call, CallsTyped
<1>8. call' = [call EXCEPT ![j] = c]
  BY <1>3, <1>6 DEF Wake, Send
<1>9. /\ call'[j] = c /\ \A k \in Jobs \ {j} : call'[k] = call[k]
      /\ call' \in [Jobs -> Call]
  BY <1>1, <1>7, <1>8 DEF CallsTyped
<1>10. OnItsWay(j, c, r, b, clock, j \in redirected)
  <2>1. a + 1 \in 1 .. Limit(j) /\ r < a + 1 /\ r <= a + 1 /\ r <= Limit(j) /\ clock <= clock + Timeout
    BY <1>2, <1>4, <1>7
  <2>. QED
    BY <1>4, <1>6, <2>1 DEF OnItsWay
<1>11. OnItsWay(j, call'[j], received'[j], begun'[j], clock, j \in redirected')
  BY <1>3, <1>5, <1>9, <1>10
<1>12. CallsTyped'
  BY <1>1, <1>5, <1>9 DEF CallsTyped
<1>. QED
  BY <1>5, <1>9, <1>11, <1>12, OneCallMoves

\* Time stops at a timer, so that no call outlives its own.
LEMMA TickKeepsCalls ==
    ASSUME CallsInv, Tick
    PROVE  CallsInv'
<1>1. /\ call' = call /\ received' = received /\ begun' = begun
      /\ redirected' = redirected /\ clock' = clock + 1
  BY DEF Tick, Elapse, calls
<1>2. CallsTyped /\ CallsTyped'
  BY <1>1 DEF CallsInv, CallsTyped
<1>3. ASSUME NEW j \in Jobs PROVE OnItsWay(j, call[j], received[j], begun[j], clock + 1, j \in redirected)
  <2>1. OnItsWay(j, call[j], received[j], begun[j], clock, j \in redirected)
    BY DEF CallsInv
  <2>2. call[j].pc \in {"sending", "sleeping"} => clock < call[j].due
    <3>1. call[j].pc \in {"sending", "sleeping"} => call[j].due \in CallTimers
      BY DEF CallTimers
    <3>. QED
      BY <3>1 DEF Tick, Elapse
  <2>3. call[j].due \in Nat /\ clock \in Nat
    BY <1>2 DEF CallsTyped, Call
  <2>4. call[j].pc \in {"sending", "sleeping"} => clock + 1 <= call[j].due
    BY <2>2, <2>3
  <2>. QED
    BY <2>1, <2>4 DEF OnItsWay
<1>4. (\A j \in Jobs : OnItsWay(j, call[j], received[j], begun[j], clock, j \in redirected))'
  BY <1>1, <1>3
<1>. QED
  BY <1>2, <1>4 DEF CallsInv

LEMMA CallsInvNext ==
    ASSUME CallsInv, [Next]_vars
    PROVE  CallsInv'
<1>1. CASE NextCalls
  <2>1. clock' = clock
    BY <1>1 DEF NextCalls
  <2>2. PICK j \in Jobs :
          \/ SubmitWebhook(j) \/ HostChecked(j) \/ FirstPost(j)
          \/ SubmitInProcess(j) \/ BeginRetry(j)
          \/ Succeed(j) \/ Wake(j)
          \/ \E retriable \in BOOLEAN : Fail(j, retriable)
          \/ \E kept \in BOOLEAN, target \in {"public", "internal"} : Redirected(j, kept, target)
    BY <1>1 DEF NextCalls
  <2>. QED
    BY <2>1, <2>2, CheckKeeps, SubmitKeeps, SucceedKeeps, WakeKeeps, FailKeeps, RedirectKeeps
<1>2. CASE Tick
  BY <1>2, TickKeepsCalls
<1>3. CASE UNCHANGED <<clock, call, received, redirected, begun>>
  BY <1>3 DEF CallsInv, CallsTyped
<1>. QED
  <2>1. Rebind /\ UNCHANGED clock => UNCHANGED <<clock, call, received, redirected, begun>>
    BY DEF Rebind
  <2>2. UNCHANGED calls /\ UNCHANGED clock => UNCHANGED <<clock, call, received, redirected, begun>>
    BY DEF calls
  <2>3. (NextValidator \/ NextPeers) => UNCHANGED clock
    BY DEF NextValidator, NextPeers
  <2>. QED
    BY <1>1, <1>2, <1>3, <2>1, <2>2, <2>3 DEF Next, vars

\* From its first attempt on no call outlives its timeouts and sleeps added up,
\* whatever the network loses and wherever it is redirected, and the far side
\* processes it no more often than max_retries or max_attempts allow: for every
\* number of calls and every policy.
THEOREM CallsEnd == Spec => []CallsAreBounded
<1>1. Init => CallsInv
  BY CallsInvInit
<1>2. CallsInv /\ [Next]_vars => CallsInv'
  BY CallsInvNext
<1>3. CallsInv => CallsAreBounded
  BY CallsInvBounds
<1>. QED
  BY <1>1, <1>2, <1>3, PTL DEF Spec

-----------------------------------------------------------------------------
(* How long a probe may wait *)

\* q delays p past instant d: it holds its permit for longer than that, or it
\* waits and is not behind p.
Delays(q, p, d) ==
    \/ probe[q].pc = "probing" /\ probe[q].due > d
    \/ probe[q].pc = "waiting" /\ q # p /\ place[q] <= place[p]

Late(p, d) == {q \in ProbeIds : Delays(q, p, d)}

\* Of the probes before p, each round of the probe timeout that has begun since
\* p arrived has used up a full set of permits.
Served(p) ==
    \A j \in Nat :
        arrival[p[1]] + j * ProbeTimeout < clock + ProbeTimeout =>
            j * Permits + Cardinality(Late(p, arrival[p[1]] + j * ProbeTimeout)) <= ahead[p]

Queued(p) ==
    /\ probe[p].pc \in {"waiting", "probing"} => batch[p[1]] = "running"
    /\ probe[p].pc = "waiting" => place[p] <= asked /\ arrival[p[1]] <= clock /\ Served(p)
    /\ probe[p].pc = "probing" =>
          /\ clock <= probe[p].due /\ probe[p].due <= clock + ProbeTimeout
          /\ probe[p].due <= arrival[p[1]] + (1 + ahead[p] \div Permits) * ProbeTimeout

IsProbe(r) == r = [pc |-> r.pc, due |-> r.due, healthy |-> r.healthy] /\ r.due \in Nat

QueueTyped ==
    /\ clock \in Nat /\ asked \in Nat
    /\ place \in [ProbeIds -> Nat] /\ ahead \in [ProbeIds -> Nat]
    /\ arrival \in [Batches -> Nat]
    /\ DOMAIN batch = Batches /\ DOMAIN probe = ProbeIds
    /\ \A p \in ProbeIds : IsProbe(probe[p])

QueueInv == QueueTyped /\ \A p \in ProbeIds : Queued(p)

LEMMA Times == ProbeTimeout \in Nat /\ Permits \in Nat /\ Permits > 0
BY ValidatorAssumption DEF ProbeTimeout

LEMMA ProbeIdsTyped ==
    ASSUME NEW p \in ProbeIds
    PROVE  p[1] \in Batches /\ p[2] \in Nat /\ p[2] >= 1 /\ p = <<p[1], p[2]>>
           /\ p[2] <= Len(Probes[p[1]])
<1>1. PICK b \in Batches : p \in {b} \X DOMAIN Probes[b]
  BY DEF ProbeIds
<1>2. Probes[b] \in Seq({"http", "iroh", "unknown"})
  BY ProbesAssumption
<1>3. PICK i \in DOMAIN Probes[b] : p = <<b, i>>
  BY <1>1
<1>4. i \in Nat /\ i >= 1 /\ i <= Len(Probes[b])
  BY <1>2, <1>3
<1>. QED
  BY <1>3, <1>4

LEMMA ProbeIdsFinite ==
    ASSUME NEW S \in SUBSET ProbeIds
    PROVE  IsFiniteSet(S) /\ Cardinality(S) \in Nat
<1>1. PICK f : f = [b \in Batches |-> {b} \X DOMAIN Probes[b]]
  OBVIOUS
<1>2. PICK T : T = {{b} \X DOMAIN Probes[b] : b \in Batches}
  OBVIOUS
<1>3. f \in Surjection(Batches, T)
  <2>1. f \in [Batches -> T]
    BY <1>1, <1>2
  <2>2. \A t \in T : \E b \in Batches : f[b] = t
    BY <1>1, <1>2
  <2>. QED
    BY <2>1, <2>2 DEF Surjection
<1>4. IsFiniteSet(T)
  BY <1>3, FS_Surjection, ProbesAssumption
<1>5. ASSUME NEW t \in T PROVE IsFiniteSet(t)
  <2>1. PICK b \in Batches : t = {b} \X DOMAIN Probes[b]
    BY <1>2
  <2>2. Probes[b] \in Seq({"http", "iroh", "unknown"})
    BY ProbesAssumption
  <2>3. DOMAIN Probes[b] = 1 .. Len(Probes[b]) /\ Len(Probes[b]) \in Nat
    BY <2>2
  <2>4. IsFiniteSet(1 .. Len(Probes[b])) /\ IsFiniteSet({b})
    <3>1. PICK n \in Int : n = Len(Probes[b])
      BY <2>3
    <3>2. IsFiniteSet(1 .. n)
      BY FS_Interval
    <3>. QED
      BY <3>1, <3>2, FS_Singleton
  <2>. QED
    BY <2>1, <2>3, <2>4, FS_Product
<1>6. ProbeIds = UNION T
  BY <1>2 DEF ProbeIds
<1>7. IsFiniteSet(ProbeIds)
  BY <1>4, <1>5, <1>6, FS_UNION
<1>. QED
  BY <1>7, FS_Subset, FS_CardinalityType

\* Whole rounds: k probes are served in k \div Permits of them, and a last one.
LEMMA Rounds ==
    ASSUME NEW k \in Nat
    PROVE  k \div Permits \in Nat /\ k < (k \div Permits + 1) * Permits
BY Times

\* A probe that still waits can be granted now and be done in time.
LEMMA WaitEnds ==
    ASSUME QueueInv, NEW p \in ProbeIds, probe[p].pc = "waiting"
    PROVE  clock + ProbeTimeout <= arrival[p[1]] + (1 + ahead[p] \div Permits) * ProbeTimeout
<1>1. QueueTyped /\ Served(p)
  BY DEF QueueInv, Queued
<1>2. PICK k \in Nat, a \in Nat, r \in Nat :
        k = ahead[p] /\ a = arrival[p[1]] /\ r = k \div Permits /\ k < (r + 1) * Permits
  BY <1>1, ProbeIdsTyped, Rounds DEF QueueTyped
<1>3. r + 1 = 1 + r /\ r + 1 \in Nat
  OBVIOUS
<1>4. PICK w \in Nat, x \in Nat : w = (r + 1) * ProbeTimeout /\ x = (r + 1) * Permits
  BY <1>3, Times, Products
<1>5. ASSUME a + w < clock + ProbeTimeout PROVE FALSE
  <2>1. x + Cardinality(Late(p, a + w)) <= k
    BY <1>1, <1>2, <1>3, <1>4, <1>5 DEF Served
  <2>2. Cardinality(Late(p, a + w)) \in Nat
    BY ProbeIdsFinite DEF Late
  <2>. QED
    BY <1>2, <1>4, <2>1, <2>2
<1>6. clock \in Nat /\ ProbeTimeout \in Nat
  BY <1>1, Times DEF QueueTyped
<1>. QED
  BY <1>2, <1>3, <1>4, <1>5, <1>6

LEMMA QueueInvBounds == QueueInv => OverrunBounded
<1>. SUFFICES ASSUME QueueInv, NEW p \in ProbeIds, probe[p].pc \in {"waiting", "probing"}
              PROVE  clock <= arrival[p[1]] + (1 + ahead[p] \div Permits) * ProbeTimeout
  BY DEF OverrunBounded
<1>1. /\ QueueTyped /\ Queued(p) /\ clock \in Nat /\ ProbeTimeout \in Nat
      /\ probe[p].due \in Nat /\ arrival[p[1]] \in Nat /\ ahead[p] \in Nat
  BY Times, ProbeIdsTyped DEF QueueInv, QueueTyped, IsProbe
<1>2. PICK w \in Nat : w = (1 + ahead[p] \div Permits) * ProbeTimeout
  BY <1>1, Rounds, Products
<1>3. CASE probe[p].pc = "waiting"
  BY <1>1, <1>2, <1>3, WaitEnds
<1>4. CASE probe[p].pc = "probing"
  <2>1. clock <= probe[p].due /\ probe[p].due <= arrival[p[1]] + w
    BY <1>1, <1>2, <1>4 DEF Queued
  <2>. QED
    BY <1>1, <1>2, <2>1
<1>. QED
  BY <1>3, <1>4

LEMMA QueueInvInit == Init => QueueInv
BY DEF Init, InitValidator, QueueInv, QueueTyped, Queued, IsProbe

\* Nobody comes before p who was not before it already.
LEMMA StillServed ==
    ASSUME NEW p \in ProbeIds, Served(p), clock' = clock,
           arrival'[p[1]] = arrival[p[1]], ahead'[p] = ahead[p],
           QueueTyped, \A q \in ProbeIds : \A d \in Nat : Delays(q, p, d)' => Delays(q, p, d)
    PROVE  Served(p)'
<1>. SUFFICES ASSUME NEW j \in Nat, arrival[p[1]] + j * ProbeTimeout < clock + ProbeTimeout
              PROVE  j * Permits + Cardinality(Late(p, arrival[p[1]] + j * ProbeTimeout)') <= ahead[p]
  BY DEF Served
<1>1. PICK d \in Nat : d = arrival[p[1]] + j * ProbeTimeout
  <2>1. arrival[p[1]] \in Nat /\ j * ProbeTimeout \in Nat
    BY ProbeIdsTyped, Times, Products DEF QueueTyped
  <2>. QED
    BY <2>1
<1>2. Late(p, d)' \subseteq Late(p, d)
  BY DEF Late
<1>3. Late(p, d) \subseteq ProbeIds /\ Late(p, d)' \subseteq ProbeIds
  BY DEF Late
<1>4. /\ Cardinality(Late(p, d)') <= Cardinality(Late(p, d))
      /\ Cardinality(Late(p, d)') \in Nat /\ Cardinality(Late(p, d)) \in Nat
  BY <1>2, <1>3, ProbeIdsFinite, FS_Subset
<1>5. j * Permits + Cardinality(Late(p, d)) <= ahead[p]
  BY <1>1 DEF Served
<1>6. ahead[p] \in Nat /\ j * Permits \in Nat
  BY Times, Products DEF QueueTyped
<1>7. Late(p, arrival[p[1]] + j * ProbeTimeout)' = Late(p, d)'
  BY <1>1
<1>. QED
  BY <1>4, <1>5, <1>6, <1>7

\* What a probe's own state needs when only its neighbours' changes.
LEMMA StaysQueued ==
    ASSUME QueueInv, NEW p \in ProbeIds, clock' = clock, asked' \in Nat, asked <= asked',
           batch'[p[1]] = batch[p[1]], arrival'[p[1]] = arrival[p[1]],
           probe'[p] = probe[p], place'[p] = place[p], ahead'[p] = ahead[p],
           probe[p].pc = "waiting" =>
              \A q \in ProbeIds : \A d \in Nat : Delays(q, p, d)' => Delays(q, p, d)
    PROVE  Queued(p)'
<1>1. QueueTyped /\ Queued(p) /\ place[p] \in Nat /\ asked \in Nat
  BY DEF QueueInv, QueueTyped
<1>2. probe[p].pc = "waiting" => Served(p)'
  BY <1>1, StillServed DEF Queued
<1>3. probe[p].pc = "waiting" => place'[p] <= asked'
  BY <1>1 DEF Queued
<1>. QED
  BY <1>1, <1>2, <1>3 DEF Queued

\* A probe that is over is bound by nothing.
LEMMA OverQueued ==
    ASSUME NEW p \in ProbeIds, probe'[p].pc = "done"
    PROVE  Queued(p)'
BY DEF Queued

LEMMA EndedProbesKeep ==
    ASSUME QueueInv, QueueTyped', clock' = clock, asked' = asked, place' = place,
           ahead' = ahead, arrival' = arrival,
           \A p \in ProbeIds :
              \/ probe'[p].pc = "done"
              \/ probe'[p] = probe[p] /\ batch'[p[1]] = batch[p[1]]
    PROVE  QueueInv'
<1>1. QueueTyped /\ asked \in Nat /\ place \in [ProbeIds -> Nat]
  BY DEF QueueInv, QueueTyped
<1>2. ASSUME NEW p \in ProbeIds PROVE Queued(p)'
  <2>1. CASE probe'[p].pc = "done"
    BY <2>1, OverQueued
  <2>2. CASE probe'[p] = probe[p] /\ batch'[p[1]] = batch[p[1]]
    <3>1. \A q \in ProbeIds : \A d \in Nat : Delays(q, p, d)' => Delays(q, p, d)
      BY DEF Delays
    <3>2. asked <= asked'
      BY <1>1
    <3>. QED
      BY <1>1, <2>2, <3>1, <3>2, StaysQueued
  <2>. QED
    BY <2>1, <2>2
<1>. QED
  BY <1>2 DEF QueueInv

LEMMA AnsweredKeepsQueue ==
    ASSUME QueueInv, NEW p \in ProbeIds, NEW healthy, Answered(p, healthy), clock' = clock
    PROVE  QueueInv'
<1>1. QueueTyped /\ IsProbe(probe[p])
  BY DEF QueueInv, QueueTyped
<1>2. PICK r : r = [pc |-> "done", due |-> probe[p].due, healthy |-> healthy]
  OBVIOUS
<1>3. probe' = [probe EXCEPT ![p] = r]
  <2>1. PICK u, v, w : probe[p] = [pc |-> u, due |-> v, healthy |-> w]
    BY <1>1 DEF IsProbe
  <2>2. [[probe[p] EXCEPT !.pc = "done"] EXCEPT !.healthy = healthy] = r
    <3>1. [probe[p] EXCEPT !.pc = "done"] = [pc |-> "done", due |-> v, healthy |-> w]
      BY <2>1
    <3>2. [[pc |-> "done", due |-> v, healthy |-> w] EXCEPT !.healthy = healthy]
             = [pc |-> "done", due |-> v, healthy |-> healthy]
      OBVIOUS
    <3>. QED
      BY <1>2, <2>1, <3>1, <3>2
  <2>. QED
    BY <1>1, <2>2 DEF Answered, QueueTyped
<1>4. r.pc = "done" /\ IsProbe(r)
  BY <1>1, <1>2 DEF IsProbe
<1>5. DOMAIN probe' = ProbeIds /\ probe'[p] = r /\ \A q \in ProbeIds \ {p} : probe'[q] = probe[q]
  BY <1>1, <1>3 DEF QueueTyped
<1>6. QueueTyped'
  BY <1>1, <1>4, <1>5 DEF QueueTyped, Answered
<1>. QED
  BY <1>4, <1>5, <1>6, EndedProbesKeep DEF Answered

LEMMA EndingOneField ==
    ASSUME NEW r, IsProbe(r), NEW v
    PROVE  /\ IsProbe([r EXCEPT !.pc = v]) /\ [r EXCEPT !.pc = v].pc = v
           /\ [r EXCEPT !.pc = v].due = r.due
<1>1. r = [pc |-> r.pc, due |-> r.due, healthy |-> r.healthy] /\ r.due \in Nat
  BY DEF IsProbe
<1>2. [r EXCEPT !.pc = v] = [pc |-> v, due |-> r.due, healthy |-> r.healthy]
  BY <1>1
<1>. QED
  BY <1>1, <1>2 DEF IsProbe

LEMMA ReportKeepsQueue ==
    ASSUME QueueInv, NEW b \in Batches, Report(b), clock' = clock
    PROVE  QueueInv'
<1>1. QueueTyped
  BY DEF QueueInv
<1>2. QueueTyped'
  BY <1>1 DEF Report, QueueTyped
<1>3. ASSUME NEW p \in ProbeIds
      PROVE  probe'[p].pc = "done" \/ (probe'[p] = probe[p] /\ batch'[p[1]] = batch[p[1]])
  BY <1>1, ProbeIdsTyped DEF Report, QueueTyped
<1>. QED
  BY <1>2, <1>3, EndedProbesKeep DEF Report

LEMMA DropKeepsQueue ==
    ASSUME QueueInv, NEW b \in Batches, DropBatch(b), clock' = clock
    PROVE  QueueInv'
<1>1. QueueTyped
  BY DEF QueueInv
<1>2. ASSUME NEW p \in ProbeIds
      PROVE  /\ IsProbe(probe'[p])
             /\ probe'[p].pc = "done" \/ (probe'[p] = probe[p] /\ batch'[p[1]] = batch[p[1]])
  <2>1. IsProbe(probe[p]) /\ p[1] \in Batches
    BY <1>1, ProbeIdsTyped DEF QueueTyped
  <2>2. probe'[p] = IF p[1] = b THEN [probe[p] EXCEPT !.pc = "done"] ELSE probe[p]
    BY DEF DropBatch
  <2>3. batch'[p[1]] = IF p[1] = b THEN "dropped" ELSE batch[p[1]]
    BY <1>1, <2>1 DEF DropBatch, QueueTyped
  <2>. QED
    BY <2>1, <2>2, <2>3, EndingOneField
<1>3. QueueTyped'
  BY <1>1, <1>2 DEF DropBatch, QueueTyped
<1>. QED
  BY <1>2, <1>3, EndedProbesKeep DEF DropBatch

\* The first of the queue had nobody before it among those it leaves behind.
LEMMA GrantKeepsQueue ==
    ASSUME QueueInv, NEW x \in ProbeIds, Grant(x), clock' = clock
    PROVE  QueueInv'
<1>1. /\ QueueTyped /\ Queued(x) /\ asked \in Nat /\ clock \in Nat
      /\ place \in [ProbeIds -> Nat] /\ ProbeTimeout \in Nat
  BY Times DEF QueueInv, QueueTyped
<1>2. probe[x].pc = "waiting" /\ \A q \in ProbeIds : probe[q].pc = "waiting" => place[x] <= place[q]
  BY DEF Grant, IsNext, Waiting
<1>3. PICK r : /\ r = [pc |-> IF Kind(x) = "http" THEN "probing" ELSE "done",
                       due |-> clock + ProbeTimeout, healthy |-> Kind(x) = "iroh"]
  OBVIOUS
<1>4. r.pc \in {"probing", "done"} /\ r.due = clock + ProbeTimeout /\ IsProbe(r)
  BY <1>1, <1>3 DEF IsProbe
<1>5. DOMAIN probe' = ProbeIds /\ probe'[x] = r /\ \A q \in ProbeIds \ {x} : probe'[q] = probe[q]
  BY <1>1, <1>3 DEF Grant, QueueTyped
<1>6. QueueTyped'
  BY <1>1, <1>4, <1>5 DEF QueueTyped, Grant
<1>7. Queued(x)'
  <2>1. batch[x[1]] = "running"
    BY <1>1, <1>2 DEF Queued
  <2>2. clock + ProbeTimeout <= arrival[x[1]] + (1 + ahead[x] \div Permits) * ProbeTimeout
    BY <1>2, WaitEnds
  <2>3. clock <= clock + ProbeTimeout
    BY <1>1
  <2>4. batch' = batch /\ arrival' = arrival /\ ahead' = ahead
    BY DEF Grant
  <2>. QED
    BY <1>1, <1>4, <1>5, <2>1, <2>2, <2>3, <2>4 DEF Queued
<1>8. ASSUME NEW p \in ProbeIds, p # x PROVE Queued(p)'
  <2>1. probe'[p] = probe[p]
    BY <1>5, <1>8
  <2>2. ASSUME probe[p].pc = "waiting", NEW q \in ProbeIds, NEW d \in Nat, Delays(q, p, d)'
        PROVE  Delays(q, p, d)
    <3>1. CASE q = x
      BY <1>2, <1>8, <2>2, <3>1 DEF Delays
    <3>2. CASE q # x
      <4>1. probe'[q] = probe[q] /\ place' = place
        BY <1>5, <3>2 DEF Grant
      <4>. QED
        BY <2>2, <4>1 DEF Delays
    <3>. QED
      BY <3>1, <3>2
  <2>3. asked' = asked /\ asked <= asked' /\ asked' \in Nat
    BY <1>1 DEF Grant
  <2>4. batch' = batch /\ arrival' = arrival /\ place' = place /\ ahead' = ahead
    BY DEF Grant
  <2>. QED
    BY <2>1, <2>2, <2>3, <2>4, StaysQueued
<1>. QED
  BY <1>6, <1>7, <1>8 DEF QueueInv

LEMMA ValidateMoves ==
    ASSUME QueueInv, NEW b \in Batches, ValidateAll(b), clock' = clock
    PROVE  /\ QueueTyped'
           /\ \A p \in ProbeIds : p[1] # b =>
                 /\ probe'[p] = probe[p] /\ place'[p] = place[p] /\ ahead'[p] = ahead[p]
                 /\ batch'[p[1]] = batch[p[1]] /\ arrival'[p[1]] = arrival[p[1]]
           /\ \A p \in ProbeIds : p[1] = b =>
                 /\ batch'[p[1]] = "running" /\ arrival'[p[1]] = clock
                 /\ \/ probe'[p].pc = "done"
                    \/ /\ probe'[p].pc = "waiting" /\ place'[p] = asked + p[2]
                       /\ ahead'[p] = Cardinality(AheadOf(p)') /\ asked + p[2] <= asked'
           /\ asked <= asked'
<1>1. QueueTyped /\ clock \in Nat /\ asked \in Nat
  BY DEF QueueInv, QueueTyped
<1>2. /\ batch' = [batch EXCEPT ![b] = "running"] /\ arrival' = [arrival EXCEPT ![b] = clock]
  BY DEF ValidateAll
<1>3. \A c \in Batches : /\ batch'[c] = IF c = b THEN "running" ELSE batch[c]
                         /\ arrival'[c] = IF c = b THEN clock ELSE arrival[c]
  BY <1>1, <1>2 DEF QueueTyped
<1>4. DOMAIN batch' = Batches /\ arrival' \in [Batches -> Nat]
  BY <1>1, <1>2 DEF QueueTyped
<1>5. PICK n \in Nat : n = Len(Probes[b])
  <2>1. Probes[b] \in Seq({"http", "iroh", "unknown"})
    BY ProbesAssumption
  <2>. QED
    BY <2>1
<1>6. CASE /\ place' = [p \in ProbeIds |-> IF p[1] = b THEN asked + p[2] ELSE place[p]]
           /\ asked' = asked + Len(Probes[b])
           /\ probe' = [p \in ProbeIds |->
                          IF p[1] = b THEN [probe[p] EXCEPT !.pc = "waiting"] ELSE probe[p]]
           /\ ahead' = [p \in ProbeIds |->
                          IF p[1] = b THEN Cardinality(AheadOf(p)') ELSE ahead[p]]
  <2>1. asked' = asked + n /\ asked' \in Nat /\ asked <= asked'
    BY <1>1, <1>5, <1>6
  <2>2. ASSUME NEW p \in ProbeIds
        PROVE  /\ IsProbe(probe'[p]) /\ place'[p] \in Nat /\ ahead'[p] \in Nat
               /\ p[1] = b => probe'[p].pc = "waiting" /\ asked + p[2] <= asked'
    <3>1. IsProbe(probe[p]) /\ place[p] \in Nat /\ ahead[p] \in Nat
      BY <1>1 DEF QueueTyped
    <3>2. p[2] \in Nat /\ (p[1] = b => p[2] <= n)
      BY <1>5, ProbeIdsTyped
    <3>3. AheadOf(p)' \subseteq ProbeIds
      BY DEF AheadOf, Probing, Waiting
    <3>4. Cardinality(AheadOf(p)') \in Nat
      BY <3>3, ProbeIdsFinite
    <3>5. probe'[p] = IF p[1] = b THEN [probe[p] EXCEPT !.pc = "waiting"] ELSE probe[p]
      BY <1>6
    <3>6. IsProbe(probe'[p]) /\ (p[1] = b => probe'[p].pc = "waiting")
      BY <3>1, <3>5, EndingOneField
    <3>7. place'[p] = IF p[1] = b THEN asked + p[2] ELSE place[p]
      BY <1>6
    <3>8. ahead'[p] = IF p[1] = b THEN Cardinality(AheadOf(p)') ELSE ahead[p]
      BY <1>6
    <3>. QED
      BY <1>1, <2>1, <3>1, <3>2, <3>4, <3>6, <3>7, <3>8
  <2>3. DOMAIN probe' = ProbeIds /\ place' \in [ProbeIds -> Nat]
    <3>1. \A p \in ProbeIds : place'[p] \in Nat
      BY <2>2
    <3>. QED
      BY <1>6, <3>1
  <2>4. ahead' \in [ProbeIds -> Nat]
    <3>1. DOMAIN ahead' = ProbeIds /\ ahead' = [p \in ProbeIds |-> ahead'[p]]
      BY <1>6, Zenon
    <3>2. \A p \in ProbeIds : ahead'[p] \in Nat
      BY <2>2
    <3>. QED
      BY <3>1, <3>2
  <2>5. QueueTyped'
    BY <1>1, <1>4, <2>1, <2>2, <2>3, <2>4 DEF QueueTyped
  <2>6. ASSUME NEW p \in ProbeIds, p[1] # b
        PROVE  /\ probe'[p] = probe[p] /\ place'[p] = place[p] /\ ahead'[p] = ahead[p]
               /\ batch'[p[1]] = batch[p[1]] /\ arrival'[p[1]] = arrival[p[1]]
    BY <1>3, <1>6, <2>6, ProbeIdsTyped
  <2>7. ASSUME NEW p \in ProbeIds, p[1] = b
        PROVE  /\ batch'[p[1]] = "running" /\ arrival'[p[1]] = clock
               /\ probe'[p].pc = "waiting" /\ place'[p] = asked + p[2]
               /\ ahead'[p] = Cardinality(AheadOf(p)') /\ asked + p[2] <= asked'
    <3>1. place'[p] = asked + p[2]
      BY <1>6, <2>7
    <3>2. ahead'[p] = Cardinality(AheadOf(p)')
      BY <1>6, <2>7
    <3>. QED
      BY <1>3, <2>2, <2>7, <3>1, <3>2
  <2>. QED
    BY <2>1, <2>5, <2>6, <2>7
<1>7. CASE /\ probe' = [p \in ProbeIds |->
                          IF p[1] = b THEN [probe[p] EXCEPT !.pc = "done"] ELSE probe[p]]
           /\ UNCHANGED <<place, asked, ahead>>
  <2>1. ASSUME NEW p \in ProbeIds
        PROVE  IsProbe(probe'[p]) /\ (p[1] = b => probe'[p].pc = "done")
    <3>1. IsProbe(probe[p])
      BY <1>1 DEF QueueTyped
    <3>2. probe'[p] = IF p[1] = b THEN [probe[p] EXCEPT !.pc = "done"] ELSE probe[p]
      BY <1>7
    <3>. QED
      BY <3>1, <3>2, EndingOneField
  <2>2. QueueTyped'
    BY <1>1, <1>4, <1>7, <2>1 DEF QueueTyped
  <2>3. asked <= asked'
    BY <1>1, <1>7
  <2>4. ASSUME NEW p \in ProbeIds, p[1] # b
        PROVE  /\ probe'[p] = probe[p] /\ place'[p] = place[p] /\ ahead'[p] = ahead[p]
               /\ batch'[p[1]] = batch[p[1]] /\ arrival'[p[1]] = arrival[p[1]]
    BY <1>3, <1>7, <2>4, ProbeIdsTyped
  <2>. QED
    BY <1>3, <2>1, <2>2, <2>3, <2>4, ProbeIdsTyped
<1>. QED
  BY <1>6, <1>7 DEF ValidateAll

\* A batch joins at the end of the queue.
LEMMA ValidateKeepsQueue ==
    ASSUME QueueInv, NEW b \in Batches, ValidateAll(b), clock' = clock
    PROVE  QueueInv'
<1>1. QueueTyped /\ QueueTyped' /\ clock \in Nat /\ asked \in Nat /\ ProbeTimeout \in Nat
      /\ asked <= asked' /\ asked' \in Nat
  BY ValidateMoves, Times DEF QueueInv, QueueTyped
<1>2. batch[b] = "new"
  BY DEF ValidateAll
<1>3. ASSUME NEW p \in ProbeIds, p[1] # b PROVE Queued(p)'
  <2>1. /\ probe'[p] = probe[p] /\ place'[p] = place[p] /\ ahead'[p] = ahead[p]
        /\ batch'[p[1]] = batch[p[1]] /\ arrival'[p[1]] = arrival[p[1]]
    BY <1>3, ValidateMoves
  <2>2. ASSUME probe[p].pc = "waiting", NEW q \in ProbeIds, NEW d \in Nat, Delays(q, p, d)'
        PROVE  Delays(q, p, d)
    <3>1. CASE q[1] = b
      <4>1. place[p] <= asked /\ place[p] \in Nat
        BY <1>1, <2>2 DEF QueueInv, Queued, QueueTyped
      <4>2. q[2] \in Nat /\ q[2] >= 1
        BY ProbeIdsTyped
      <4>3. probe'[q].pc = "done" \/ (probe'[q].pc = "waiting" /\ place'[q] = asked + q[2])
        BY <3>1, ValidateMoves
      <4>4. ~ (place'[q] <= place'[p]) \/ probe'[q].pc = "done"
        BY <1>1, <2>1, <4>1, <4>2, <4>3
      <4>. QED
        BY <2>2, <4>3, <4>4 DEF Delays
    <3>2. CASE q[1] # b
      <4>1. probe'[q] = probe[q] /\ place'[q] = place[q]
        BY <3>2, ValidateMoves
      <4>. QED
        BY <2>1, <2>2, <4>1 DEF Delays
    <3>. QED
      BY <3>1, <3>2
  <2>. QED
    BY <1>1, <2>1, <2>2, StaysQueued
<1>4. ASSUME NEW p \in ProbeIds, p[1] = b PROVE Queued(p)'
  <2>1. CASE probe'[p].pc = "done"
    BY <2>1, OverQueued
  <2>2. CASE /\ probe'[p].pc = "waiting" /\ place'[p] = asked + p[2]
             /\ ahead'[p] = Cardinality(AheadOf(p)') /\ asked + p[2] <= asked'
    <3>1. batch'[p[1]] = "running" /\ arrival'[p[1]] = clock
      BY <1>4, ValidateMoves
    <3>2. ASSUME NEW q \in ProbeIds, Delays(q, p, clock)' PROVE q \in AheadOf(p)'
      <4>1. CASE probe'[q].pc = "probing"
        BY <4>1 DEF AheadOf, Probing
      <4>2. CASE probe'[q].pc = "waiting" /\ q # p /\ place'[q] <= place'[p]
        <5>1. place'[q] \in Nat /\ place'[p] \in Nat
          BY <1>1 DEF QueueTyped
        <5>2. place'[q] # place'[p]
          <6>1. CASE q[1] = b
            <7>1. place'[q] = asked + q[2] /\ q[2] \in Nat /\ p[2] \in Nat
              BY <4>2, <6>1, ValidateMoves, ProbeIdsTyped
            <7>2. q = <<q[1], q[2]>> /\ p = <<p[1], p[2]>>
              BY ProbeIdsTyped
            <7>3. q[2] # p[2]
              BY <1>4, <4>2, <6>1, <7>2
            <7>. QED
              BY <1>1, <2>2, <7>1, <7>3
          <6>2. CASE q[1] # b
            <7>1. place'[q] = place[q] /\ probe[q].pc = "waiting"
              BY <4>2, <6>2, ValidateMoves
            <7>2. place[q] <= asked /\ place[q] \in Nat /\ p[2] \in Nat /\ p[2] >= 1
              BY <1>1, <7>1, ProbeIdsTyped DEF QueueInv, Queued, QueueTyped
            <7>. QED
              BY <1>1, <2>2, <7>1, <7>2
          <6>. QED
            BY <6>1, <6>2
        <5>3. place'[q] < place'[p]
          BY <4>2, <5>1, <5>2
        <5>. QED
          BY <4>2, <5>3 DEF AheadOf, Waiting
      <4>. QED
        BY <3>2, <4>1, <4>2 DEF Delays
    <3>3. /\ Cardinality(Late(p, clock)') <= Cardinality(AheadOf(p)')
          /\ Cardinality(Late(p, clock)') \in Nat
      <4>1. Late(p, clock)' \subseteq AheadOf(p)'
        BY <3>2 DEF Late
      <4>2. AheadOf(p)' \subseteq ProbeIds
        BY DEF AheadOf, Probing, Waiting
      <4>. QED
        BY <4>1, <4>2, ProbeIdsFinite, FS_Subset
    <3>4. Served(p)'
      <4>1. ASSUME NEW j \in Nat, clock + j * ProbeTimeout < clock + ProbeTimeout
            PROVE  j = 0
        <5>1. j >= 1 => 1 * ProbeTimeout <= j * ProbeTimeout
          BY <1>1, Products
        <5>2. j * ProbeTimeout \in Nat
          BY <1>1, Products
        <5>. QED
          BY <1>1, <4>1, <5>1, <5>2
      <4>2. 0 * ProbeTimeout = 0 /\ 0 * Permits = 0 /\ clock + 0 = clock
        BY <1>1, Times
      <4>3. 0 * Permits + Cardinality(Late(p, clock)') <= ahead'[p]
        BY <2>2, <3>3, <4>2
      <4>4. ASSUME NEW j \in Nat,
                   arrival'[p[1]] + j * ProbeTimeout < clock' + ProbeTimeout
            PROVE  j * Permits + Cardinality(Late(p, arrival[p[1]] + j * ProbeTimeout)') <= ahead'[p]
        <5>1. j = 0
          BY <3>1, <4>1, <4>4
        <5>2. (arrival[p[1]] + j * ProbeTimeout)' = clock'
          BY <3>1, <4>2, <5>1
        <5>3. Late(p, arrival[p[1]] + j * ProbeTimeout)' = Late(p, clock)'
          BY <5>2
        <5>. QED
          BY <4>3, <5>1, <5>3
      <4>. QED
        BY <4>4 DEF Served
    <3>. QED
      BY <1>1, <2>2, <3>1, <3>4 DEF Queued
  <2>. QED
    BY <1>4, <2>1, <2>2, ValidateMoves
<1>. QED
  BY <1>1, <1>3, <1>4 DEF QueueInv

\* Time passes with somebody waiting only while every permit is held, so that
\* the round that begins has used a full set of them.
LEMMA TickKeepsQueue ==
    ASSUME QueueInv, Tick
    PROVE  QueueInv'
<1>1. QueueTyped /\ clock \in Nat /\ ProbeTimeout \in Nat /\ Permits \in Nat
  BY Times DEF QueueInv, QueueTyped
<1>2. /\ clock' = clock + 1 /\ batch' = batch /\ arrival' = arrival /\ probe' = probe
      /\ place' = place /\ asked' = asked /\ ahead' = ahead
  BY DEF Tick, Elapse, validator
<1>3. QueueTyped'
  BY <1>1, <1>2 DEF QueueTyped
<1>4. \A t \in ProbeTimers : clock < t
  BY DEF Tick, Elapse
<1>5. ASSUME NEW q \in ProbeIds, probe[q].pc = "probing"
      PROVE  clock < probe[q].due /\ probe[q].due \in Nat /\ probe[q].due <= clock + ProbeTimeout
  <2>1. probe[q].due \in ProbeTimers
    BY <1>5 DEF ProbeTimers, Probing
  <2>2. probe[q].due \in Nat
    BY <1>1 DEF QueueTyped, IsProbe
  <2>. QED
    BY <1>4, <1>5, <2>1, <2>2 DEF QueueInv, Queued
<1>6. ASSUME NEW p \in ProbeIds, probe[p].pc = "waiting" PROVE Permits <= Cardinality(Probing)
  <2>1. Waiting # {}
    BY <1>6 DEF Waiting
  <2>2. Cardinality(Probing) \in Nat
    BY ProbeIdsFinite DEF Probing
  <2>3. clock \notin ProbeTimers
    BY <1>1, <1>4
  <2>4. ~ (Cardinality(Probing) < Permits)
    BY <2>1, <2>3 DEF ProbeTimers
  <2>. QED
    BY <1>1, <2>2, <2>4
<1>7. ASSUME NEW p \in ProbeIds, probe[p].pc = "waiting" PROVE Served(p)'
  <2>1. Served(p) /\ arrival[p[1]] \in Nat /\ ahead[p] \in Nat /\ arrival[p[1]] <= clock
    BY <1>1, <1>7, ProbeIdsTyped DEF QueueInv, Queued, QueueTyped
  <2>2. PICK a \in Nat, k \in Nat : a = arrival[p[1]] /\ k = ahead[p]
    BY <2>1
  <2>3. PICK P : P = Probing /\ P \subseteq ProbeIds /\ Permits <= Cardinality(P)
    BY <1>6, <1>7 DEF Probing
  <2>4. IsFiniteSet(P) /\ Cardinality(P) \in Nat
    BY <2>3, ProbeIdsFinite
  <2>5. ProbeTimeout > 0
    <3>1. P # {}
      BY <1>1, <2>3, FS_EmptySet, Times
    <3>2. PICK q \in ProbeIds : probe[q].pc = "probing"
      BY <2>3, <3>1 DEF Probing
    <3>. QED
      BY <1>1, <1>5, <3>2
  <2>6. \A d : Late(p, d)' = Late(p, d)
    BY <1>2 DEF Late, Delays
  <2>7. ASSUME NEW j \in Nat, a + j * ProbeTimeout < clock + 1 + ProbeTimeout
        PROVE  j * Permits + Cardinality(Late(p, a + j * ProbeTimeout)) <= k
    <3>1. PICK d \in Nat : d = a + j * ProbeTimeout /\ j * ProbeTimeout \in Nat
      BY <1>1, Products
    <3>2. CASE d < clock + ProbeTimeout
      BY <2>1, <2>2, <3>1, <3>2 DEF Served
    <3>3. CASE d = clock + ProbeTimeout
      <4>1. j # 0
        BY <1>1, <2>1, <2>2, <2>5, <3>1, <3>3
      <4>2. PICK i \in Nat : j = i + 1
        BY <4>1
      <4>3. /\ j * ProbeTimeout = i * ProbeTimeout + 1 * ProbeTimeout
            /\ j * Permits = i * Permits + 1 * Permits
            /\ i * ProbeTimeout \in Nat /\ i * Permits \in Nat
        BY <1>1, <4>2, Products
      <4>4. a + i * ProbeTimeout = clock
        BY <1>1, <3>1, <3>3, <4>3
      <4>5. i * Permits + Cardinality(Late(p, clock)) <= k
        BY <1>1, <2>1, <2>2, <2>5, <4>4 DEF Served
      <4>6. /\ IsFiniteSet(Late(p, d)) /\ Cardinality(Late(p, d)) \in Nat
            /\ Cardinality(Late(p, clock)) \in Nat
        BY ProbeIdsFinite DEF Late
      <4>7. \A q \in ProbeIds : ~ (probe[q].pc = "probing" /\ probe[q].due > d)
        BY <1>1, <1>5, <3>3
      <4>8. P \cap Late(p, d) = {}
        BY <2>3, <4>7 DEF Probing, Late, Delays
      <4>9. P \cup Late(p, d) = Late(p, clock)
        BY <1>1, <1>5, <2>3, <4>7 DEF Probing, Late, Delays
      <4>10. Cardinality(Late(p, clock)) = Cardinality(P) + Cardinality(Late(p, d))
        BY <2>4, <4>6, <4>8, <4>9, FS_Union, FS_EmptySet
      <4>. QED
        BY <1>1, <2>3, <2>4, <3>1, <4>3, <4>5, <4>6, <4>10
    <3>. QED
      BY <1>1, <2>7, <3>1, <3>2, <3>3
  <2>8. ASSUME NEW j \in Nat, arrival'[p[1]] + j * ProbeTimeout < clock' + ProbeTimeout
        PROVE  j * Permits + Cardinality(Late(p, arrival[p[1]] + j * ProbeTimeout)') <= ahead'[p]
    <3>1. a + j * ProbeTimeout < clock + 1 + ProbeTimeout
      BY <1>2, <2>2, <2>8
    <3>2. j * Permits + Cardinality(Late(p, a + j * ProbeTimeout)) <= k
      BY <2>7, <3>1
    <3>3. Late(p, arrival[p[1]] + j * ProbeTimeout)' = Late(p, a + j * ProbeTimeout)'
      BY <1>2, <2>2
    <3>. QED
      BY <1>2, <2>2, <2>6, <3>2, <3>3
  <2>. QED
    BY <2>8 DEF Served
<1>8. ASSUME NEW p \in ProbeIds PROVE Queued(p)'
  <2>1. Queued(p) /\ (probe[p].pc = "waiting" => Served(p)')
    BY <1>7 DEF QueueInv
  <2>2. probe[p].pc = "waiting" => arrival[p[1]] <= clock'
    BY <1>1, <1>2, <2>1, ProbeIdsTyped DEF Queued, QueueTyped
  <2>3. probe[p].pc = "probing" => clock' <= probe[p].due /\ probe[p].due <= clock' + ProbeTimeout
    BY <1>1, <1>2, <1>5
  <2>. QED
    BY <1>2, <2>1, <2>2, <2>3 DEF Queued
<1>. QED
  BY <1>3, <1>8 DEF QueueInv

LEMMA QueueInvNext == QueueInv /\ [Next]_vars => QueueInv'
<1>. SUFFICES ASSUME QueueInv, [Next]_vars PROVE QueueInv'
  OBVIOUS
<1>1. CASE NextValidator
  <2>1. clock' = clock
    BY <1>1 DEF NextValidator
  <2>. QED
    BY <1>1, <2>1, ValidateKeepsQueue, ReportKeepsQueue, DropKeepsQueue, GrantKeepsQueue,
       AnsweredKeepsQueue DEF NextValidator
<1>2. CASE Tick
  BY <1>2, TickKeepsQueue
<1>3. CASE clock' = clock /\ UNCHANGED validator
  <2>1. /\ batch' = batch /\ arrival' = arrival /\ probe' = probe /\ place' = place
        /\ asked' = asked /\ ahead' = ahead
    BY <1>3 DEF validator
  <2>. QED
    BY <1>3, <2>1 DEF QueueInv, QueueTyped, Queued, Served, Late, Delays
<1>4. NextCalls => clock' = clock
  BY DEF NextCalls
<1>5. NextPeers => clock' = clock
  BY DEF NextPeers
<1>. QED
  BY <1>1, <1>2, <1>3, <1>4, <1>5 DEF Next, vars

\* However many batches are validated at once, whichever of them are dropped,
\* and however late its permit comes, a probe is over within one round of the
\* probe timeout for each full set of permits that was before it, and one for
\* itself.
THEOREM ProbesAreOverInTime == Spec => []OverrunBounded
<1>. QED
  BY QueueInvInit, QueueInvNext, QueueInvBounds, PTL DEF Spec

-----------------------------------------------------------------------------
(* Where requests go *)

\* A webhook's call under way has passed check_host, and its host's record has
\* stood still since then or the change is on record.
PostsInv ==
    /\ shifted \in BOOLEAN
    /\ PostsStayOutside
    /\ \A j \in Jobs :
          JobKind[j] = "webhook" /\ call[j].pc \in {"checked", "sending", "sleeping"} =>
              AllowInternal \/ shifted \/ dns # "internal"

LEMMA PostsInvInit == Init => PostsInv
<1>. SUFFICES ASSUME Init PROVE PostsInv
  OBVIOUS
<1>1. inside = {} /\ \A j \in Jobs : call[j].pc = "new"
  BY DEF Init, InitCalls
<1>2. shifted \in BOOLEAN
  BY Zenon DEF Init, InitCalls
<1>. QED
  BY <1>1, <1>2 DEF PostsInv, PostsStayOutside

\* What a step of one call does to the calls under way.
LEMMA SendMoves ==
    ASSUME CallsTyped, NEW j \in Jobs, Send(j)
    PROVE  /\ \A k \in Jobs \ {j} : call'[k] = call[k]
           /\ inside' \in {inside, inside \cup {j}}
           /\ inside' # inside => JobKind[j] = "webhook" /\ dns = "internal"
BY DEF CallsTyped, Send

LEMMA OthersStay ==
    ASSUME CallsTyped, NEW j \in Jobs, NEW c, call' = [call EXCEPT ![j] = c]
    PROVE  call'[j] = c /\ \A k \in Jobs \ {j} : call'[k] = call[k]
BY DEF CallsTyped

LEMMA FinishMoves ==
    ASSUME CallsTyped, NEW j \in Jobs, NEW result, Finish(j, result)
    PROVE  call'[j].pc = result /\ \A k \in Jobs \ {j} : call'[k] = call[k]
BY DEF CallsTyped, Call, Finish

\* A request of a call whose host may be asked.
LEMMA SendStaysOutside ==
    ASSUME CallsTyped, PostsInv, NEW j \in Jobs, Send(j),
           JobKind[j] # "webhook" \/ call[j].pc \in {"checked", "sleeping"},
           UNCHANGED <<dns, shifted, redirected>>
    PROVE  PostsInv'
<1>1. /\ \A k \in Jobs \ {j} : call'[k] = call[k]
      /\ inside' \in {inside, inside \cup {j}}
      /\ inside' # inside => JobKind[j] = "webhook" /\ dns = "internal"
  BY SendMoves
<1>2. JobKind[j] = "webhook" => AllowInternal \/ shifted \/ dns # "internal"
  BY DEF PostsInv
<1>3. PostsStayOutside'
  BY <1>1, <1>2 DEF PostsInv, PostsStayOutside
<1>. QED
  BY <1>1, <1>2, <1>3 DEF PostsInv

\* A step of one call that sends nothing.
LEMMA QuietStep ==
    ASSUME PostsInv, NEW j \in Jobs, \A k \in Jobs \ {j} : call'[k] = call[k],
           UNCHANGED <<dns, shifted, redirected, inside>>,
           \/ call'[j].pc \notin {"checked", "sending", "sleeping"}
           \/ call[j].pc \in {"checked", "sending", "sleeping"}
           \/ JobKind[j] # "webhook"
    PROVE  PostsInv'
BY DEF PostsInv, PostsStayOutside

LEMMA SubmitStaysOutside ==
    ASSUME CallsTyped, PostsInv, NEW j \in Jobs,
           SubmitWebhook(j) \/ HostChecked(j) \/ SubmitInProcess(j)
    PROVE  PostsInv'
<1>1. CASE SubmitWebhook(j)
  <2>1. call'[j].pc = "checking" /\ \A k \in Jobs \ {j} : call'[k] = call[k]
    BY <1>1 DEF SubmitWebhook, CallsTyped, Call
  <2>. QED
    BY <1>1, <2>1, QuietStep DEF SubmitWebhook
<1>2. CASE HostChecked(j)
  <2>1. /\ dns' = dns /\ inside' = inside /\ redirected' = redirected
        /\ shifted' = (shifted \/ dns = "unresolved")
        /\ Finish(j, IF CheckHost THEN "checked" ELSE "error")
    BY <1>2 DEF HostChecked
  <2>2. shifted' \in BOOLEAN /\ (shifted => shifted')
    BY <2>1, Zenon DEF PostsInv
  <2>3. /\ call'[j].pc = IF CheckHost THEN "checked" ELSE "error"
        /\ \A k \in Jobs \ {j} : call'[k] = call[k]
    BY <2>1, FinishMoves
  <2>4. call'[j].pc \in {"checked", "sending", "sleeping"} => AllowInternal \/ dns # "internal"
    BY <2>3 DEF CheckHost
  <2>. QED
    BY <2>1, <2>2, <2>3, <2>4 DEF PostsInv, PostsStayOutside
<1>3. CASE SubmitInProcess(j)
  <2>1. \A k \in Jobs \ {j} : call'[k] = call[k]
    BY <1>3, FinishMoves DEF SubmitInProcess
  <2>2. JobKind[j] # "webhook" /\ UNCHANGED <<dns, shifted, redirected, inside>>
    BY <1>3 DEF SubmitInProcess
  <2>. QED
    BY <2>1, <2>2, QuietStep
<1>. QED
  BY <1>1, <1>2, <1>3

LEMMA RoundStaysOutside ==
    ASSUME CallsTyped, PostsInv, NEW j \in Jobs,
           Succeed(j) \/ \E retriable \in BOOLEAN : Fail(j, retriable)
    PROVE  PostsInv'
<1>1. /\ UNCHANGED <<dns, shifted, redirected, inside>>
      /\ call[j].pc = "sending"
  BY DEF Succeed, Fail
<1>2. \A k \in Jobs \ {j} : call'[k] = call[k]
  <2>1. Sleep(j) => \A k \in Jobs \ {j} : call'[k] = call[k]
    BY DEF Sleep, CallsTyped
  <2>. QED
    BY <2>1, FinishMoves DEF Succeed, Fail
<1>. QED
  BY <1>1, <1>2, QuietStep

LEMMA RedirectStaysOutside ==
    ASSUME CallsTyped, PostsInv, NEW j \in Jobs, NEW kept, NEW target,
           Redirected(j, kept, target)
    PROVE  PostsInv'
<1>1. /\ UNCHANGED <<dns, shifted>> /\ redirected' = redirected \cup {j}
      /\ inside' \in {inside, inside \cup {j}} /\ call[j].pc = "sending"
  BY DEF Redirected
<1>2. \A k \in Jobs \ {j} : call'[k] = call[k]
  BY DEF Redirected, CallsTyped
<1>3. PostsStayOutside'
  BY <1>1 DEF PostsInv, PostsStayOutside
<1>. QED
  BY <1>1, <1>2, <1>3 DEF PostsInv

LEMMA RebindStaysOutside ==
    ASSUME PostsInv, Rebind
    PROVE  PostsInv'
<1>1. /\ call' = call /\ inside' = inside /\ redirected' = redirected
      /\ shifted' = (shifted \/ \E j \in Jobs : call[j].pc \in {"checked", "sending", "sleeping"})
  BY DEF Rebind
<1>2. shifted' \in BOOLEAN /\ (shifted => shifted')
  BY <1>1, Zenon DEF PostsInv
<1>3. ASSUME NEW j \in Jobs, call[j].pc \in {"checked", "sending", "sleeping"} PROVE shifted'
  BY <1>1, <1>3, Zenon
<1>. QED
  BY <1>1, <1>2, <1>3 DEF PostsInv, PostsStayOutside

LEMMA PostsInvNext ==
    ASSUME CallsInv, PostsInv, [Next]_vars
    PROVE  PostsInv'
<1>. USE DEF CallsInv
<1>1. CASE NextCalls
  <2>1. ASSUME NEW j \in Jobs, FirstPost(j) \/ BeginRetry(j) \/ Wake(j) PROVE PostsInv'
    BY <2>1, SendStaysOutside DEF FirstPost, BeginRetry, Wake
  <2>. QED
    BY <1>1, <2>1, SubmitStaysOutside, RoundStaysOutside, RedirectStaysOutside DEF NextCalls
<1>2. CASE Rebind
  BY <1>2, RebindStaysOutside
<1>3. CASE UNCHANGED calls
  BY <1>3 DEF calls, PostsInv, PostsStayOutside
<1>. QED
  BY <1>1, <1>2, <1>3 DEF Next, Tick, vars

\* A fetch that is about to connect has pinned an address of an answer that
\* was allowed as a whole.
IsCheck(x) ==
    x = [pc |-> x.pc, peer |-> x.peer, m |-> x.m, sig |-> x.sig, ip |-> x.ip, body |-> x.body]

ChecksTyped ==
    check = [c \in PeerJobs |-> check[c]] /\ \A c \in PeerJobs : IsCheck(check[c])

FetchInv ==
    /\ ChecksTyped
    /\ FetchesStayOutside
    /\ \A c \in PeerJobs : check[c].pc = "connecting" => ~is_forbidden_ip(check[c].ip)

LEMMA ChecksTypedInit == Init => ChecksTyped
BY DEF Init, InitPeers, ChecksTyped, IsCheck, Idle

LEMMA FetchInvInit == Init => FetchInv
<1>. SUFFICES ASSUME Init PROVE FetchInv
  OBVIOUS
<1>1. \A c \in PeerJobs : check[c].pc = "new"
  BY DEF Init, InitPeers, Idle
<1>2. connected = {}
  BY DEF Init, InitPeers
<1>. QED
  BY <1>1, <1>2, ChecksTypedInit DEF FetchInv, FetchesStayOutside

\* One call of verify_peer moves to x.
LEMMA CheckMoves ==
    ASSUME ChecksTyped, NEW c \in PeerJobs, NEW x, IsCheck(x), check' = [check EXCEPT ![c] = x]
    PROVE  ChecksTyped' /\ check'[c] = x /\ \A d \in PeerJobs \ {c} : check'[d] = check[d]
<1>1. DOMAIN check = PeerJobs
  BY DEF ChecksTyped
<1>2. check'[c] = x /\ \A d \in PeerJobs \ {c} : check'[d] = check[d]
  BY <1>1
<1>3. check' = [d \in PeerJobs |-> check'[d]]
  BY <1>1
<1>4. \A d \in PeerJobs : IsCheck(check'[d])
  BY <1>2 DEF ChecksTyped
<1>. QED
  BY <1>2, <1>3, <1>4 DEF ChecksTyped

\* Every way to end a call.
LEMMA EndMoves ==
    ASSUME ChecksTyped, NEW c \in PeerJobs, NEW pc, check' = [check EXCEPT ![c] = [Idle EXCEPT !.pc = pc]]
    PROVE  ChecksTyped' /\ check'[c].pc = pc /\ \A d \in PeerJobs \ {c} : check'[d] = check[d]
<1>1. IsCheck([Idle EXCEPT !.pc = pc]) /\ [Idle EXCEPT !.pc = pc].pc = pc
  BY DEF Idle, IsCheck
<1>. QED
  BY <1>1, CheckMoves

\* What each step of verify_peer does to the call.
LEMMA DecideMoves ==
    ASSUME ChecksTyped, NEW c \in PeerJobs, NEW p, NEW m, NEW sig, NEW key,
           Decide(c, p, m, sig, key) \/ Refuse(c)
    PROVE  /\ ChecksTyped' /\ check'[c].pc \in {"accepted", "refused"}
           /\ \A d \in PeerJobs \ {c} : check'[d] = check[d]
<1>1. \E pc \in {"accepted", "refused"} : check' = [check EXCEPT ![c] = [Idle EXCEPT !.pc = pc]]
  BY DEF Decide, Refuse
<1>. QED
  BY <1>1, EndMoves

LEMMA RefuseMoves ==
    ASSUME ChecksTyped, NEW c \in PeerJobs, Refuse(c)
    PROVE  /\ ChecksTyped' /\ check'[c].pc = "refused"
           /\ \A d \in PeerJobs \ {c} : check'[d] = check[d]
BY EndMoves DEF Refuse

LEMMA VerifyMoves ==
    ASSUME ChecksTyped, NEW c \in PeerJobs, NEW m, NEW sig, NEW label,
           VerifyPeer(c, m, sig, label)
    PROVE  /\ ChecksTyped' /\ check'[c].pc \in {"accepted", "refused", "resolving"}
           /\ \A d \in PeerJobs \ {c} : check'[d] = check[d]
           /\ check'[c].pc = "resolving" =>
                 /\ check'[c].peer = Claimed(m) /\ check'[c].m = m /\ check'[c].sig = sig
                 /\ HasWellKnownUrl(Claimed(m)) /\ Bytes(m) # Refused
                 /\ known' = known /\ accepted' = accepted
<1>1. PICK x : x = [Idle EXCEPT !.pc = "resolving", !.peer = Claimed(m), !.m = m, !.sig = sig]
  OBVIOUS
<1>2. x.pc = "resolving" /\ x.peer = Claimed(m) /\ x.m = m /\ x.sig = sig /\ IsCheck(x)
  BY <1>1 DEF Idle, IsCheck
<1>3. CASE /\ check' = [check EXCEPT ![c] = x] /\ HasWellKnownUrl(Claimed(m)) /\ Bytes(m) # Refused
           /\ known' = known /\ accepted' = accepted
  BY <1>2, <1>3, CheckMoves
<1>4. CASE Refuse(c) \/ \E key : Decide(c, Claimed(m), m, sig, key)
  <2>1. /\ ChecksTyped' /\ check'[c].pc \in {"accepted", "refused"}
        /\ \A d \in PeerJobs \ {c} : check'[d] = check[d]
    BY <1>4, DecideMoves
  <2>. QED
    BY <2>1
<1>. QED
  BY <1>1, <1>3, <1>4 DEF VerifyPeer

\* A field of a call, and the others as they were.
LEMMA ResolveMoves ==
    ASSUME ChecksTyped, NEW c \in PeerJobs, Resolve(c)
    PROVE  /\ ChecksTyped' /\ check'[c].pc \in {"refused", "connecting"}
           /\ \A d \in PeerJobs \ {c} : check'[d] = check[d]
           /\ check'[c].pc = "connecting" =>
                 /\ check'[c].peer = check[c].peer /\ check'[c].m = check[c].m
                 /\ check'[c].sig = check[c].sig /\ ~is_forbidden_ip(check'[c].ip)
<1>1. PICK ips : ips = zone[WellKnownHost(check[c].peer)]
  OBVIOUS
<1>2. CASE Refuse(c)
  BY <1>2, RefuseMoves
<1>3. CASE /\ Allowed(ips)
           /\ \E i \in DOMAIN ips :
                check' = [check EXCEPT ![c].pc = "connecting", ![c].ip = ips[i]]
  <2>1. PICK i \in DOMAIN ips :
          check' = [check EXCEPT ![c].pc = "connecting", ![c].ip = ips[i]]
    BY <1>3
  <2>2. ~is_forbidden_ip(ips[i])
    BY <1>3 DEF Allowed
  <2>3. PICK x : x = [check[c] EXCEPT !.pc = "connecting", !.ip = ips[i]]
    OBVIOUS
  <2>4. IsCheck(check[c]) /\ DOMAIN check = PeerJobs
    BY DEF ChecksTyped
  <2>5. /\ x.pc = "connecting" /\ x.ip = ips[i] /\ x.peer = check[c].peer
        /\ x.m = check[c].m /\ x.sig = check[c].sig /\ IsCheck(x)
    BY <2>3, <2>4 DEF IsCheck
  <2>6. check' = [check EXCEPT ![c] = x]
    BY <2>1, <2>3, <2>4
  <2>7. ChecksTyped' /\ check'[c] = x /\ \A d \in PeerJobs \ {c} : check'[d] = check[d]
    BY <2>5, <2>6, CheckMoves
  <2>. QED
    BY <2>2, <2>5, <2>7
<1>. QED
  BY <1>1, <1>2, <1>3 DEF Resolve

LEMMA ConnectMoves ==
    ASSUME ChecksTyped, NEW c \in PeerJobs, Connect(c)
    PROVE  /\ ChecksTyped' /\ check'[c].pc \in {"refused", "fetched"}
           /\ \A d \in PeerJobs \ {c} : check'[d] = check[d]
           /\ check'[c].pc = "fetched" =>
                 /\ check'[c].peer = check[c].peer /\ check'[c].m = check[c].m
                 /\ check'[c].sig = check[c].sig
                 /\ check'[c].body = cards[WellKnownHost(check[c].peer)]
                 /\ cards[WellKnownHost(check[c].peer)] # NoCard
<1>1. PICK card : card = cards[WellKnownHost(check[c].peer)]
  OBVIOUS
<1>2. CASE Refuse(c)
  BY <1>2, RefuseMoves
<1>3. CASE card # NoCard /\ check' = [check EXCEPT ![c].pc = "fetched", ![c].body = card]
  <2>1. PICK x : x = [check[c] EXCEPT !.pc = "fetched", !.body = card]
    OBVIOUS
  <2>2. IsCheck(check[c]) /\ DOMAIN check = PeerJobs
    BY DEF ChecksTyped
  <2>3. /\ x.pc = "fetched" /\ x.body = card /\ x.peer = check[c].peer
        /\ x.m = check[c].m /\ x.sig = check[c].sig /\ IsCheck(x)
    BY <2>1, <2>2 DEF IsCheck
  <2>4. check' = [check EXCEPT ![c] = x]
    BY <1>3, <2>1, <2>2
  <2>5. ChecksTyped' /\ check'[c] = x /\ \A d \in PeerJobs \ {c} : check'[d] = check[d]
    BY <2>3, <2>4, CheckMoves
  <2>. QED
    BY <1>1, <1>3, <2>3, <2>5
<1>. QED
  BY <1>1, <1>2, <1>3 DEF Connect

LEMMA ReadCardMoves ==
    ASSUME ChecksTyped, NEW c \in PeerJobs, ReadCard(c)
    PROVE  /\ ChecksTyped' /\ check'[c].pc \in {"accepted", "refused"}
           /\ \A d \in PeerJobs \ {c} : check'[d] = check[d]
BY DecideMoves DEF ReadCard

\* The steps of NextPeers that leave the calls of verify_peer alone.
WorldSteps ==
    \/ \E pair \in Signers : Sign(pair[1], pair[2])
    \/ \E plan \in HopPlans : SignHop(plan)
    \/ \E plan \in CardPlans : PublishCard(plan)
    \/ \E h \in Hosts : \E answer \in Answers[h] : ChangeRecords(h, answer)
    \/ \E pair \in Enrolments : Register(pair[1], pair[2])
    \/ \E task \in Tasks : \E jws \in [DOMAIN task.hops -> tokens \cup {Unsigned}] :
          Bridge(task, jws)

LEMMA PeerSteps ==
    ASSUME NextPeers
    PROVE  \/ WorldSteps /\ UNCHANGED <<check, connected, accepted>>
           \/ \E c \in PeerJobs :
                 \/ Resolve(c) \/ Connect(c) \/ ReadCard(c)
                 \/ \E m \in Inbox[c], sig \in signed, label \in {"Ed25519", "EcdsaSecp256k1"} :
                       VerifyPeer(c, m, sig, label)
<1>1. WorldSteps => UNCHANGED <<check, connected, accepted>>
  BY DEF WorldSteps, Sign, SignHop, PublishCard, ChangeRecords, Register, Bridge
<1>. QED
  BY <1>1 DEF NextPeers, WorldSteps

LEMMA FetchInvNext ==
    ASSUME FetchInv, [Next]_vars
    PROVE  FetchInv'
<1>. USE DEF FetchInv
<1>1. CASE UNCHANGED <<check, connected>>
  BY <1>1 DEF ChecksTyped, FetchesStayOutside
<1>2. ASSUME NEW c \in PeerJobs, Resolve(c) PROVE FetchInv'
  <2>1. connected' = connected
    BY <1>2 DEF Resolve
  <2>. QED
    BY <1>2, <2>1, ResolveMoves DEF FetchesStayOutside
<1>3. ASSUME NEW c \in PeerJobs, Connect(c) PROVE FetchInv'
  <2>1. connected' = connected \cup {check[c].ip} /\ check[c].pc = "connecting"
    BY <1>3 DEF Connect
  <2>2. FetchesStayOutside'
    BY <2>1 DEF FetchesStayOutside
  <2>. QED
    BY <1>3, <2>2, ConnectMoves
<1>4. ASSUME NEW c \in PeerJobs, ReadCard(c) PROVE FetchInv'
  <2>1. connected' = connected
    BY <1>4 DEF ReadCard
  <2>. QED
    BY <1>4, <2>1, ReadCardMoves DEF FetchesStayOutside
<1>5. ASSUME NEW c \in PeerJobs, NEW m, NEW sig, NEW label, VerifyPeer(c, m, sig, label)
      PROVE  FetchInv'
  <2>1. connected' = connected
    BY <1>5 DEF VerifyPeer
  <2>. QED
    BY <1>5, <2>1, VerifyMoves DEF FetchesStayOutside
<1>6. CASE NextPeers
  BY <1>1, <1>2, <1>3, <1>4, <1>5, <1>6, PeerSteps
<1>7. UNCHANGED peerCalls => UNCHANGED <<check, connected>>
  BY DEF peerCalls
<1>. QED
  BY <1>1, <1>6, <1>7 DEF Next, Tick, vars

\* No fetch of a card reaches an internal address, whatever the host's records
\* do meanwhile, and no webhook's call does while its record stands still and
\* its host redirects nothing: for any number of calls, hosts, addresses and
\* changes.
THEOREM RequestsStayOutside == Spec => []StaysOutside
<1>1. Init => CallsInv /\ PostsInv /\ FetchInv
  BY CallsInvInit, PostsInvInit, FetchInvInit
<1>2. CallsInv /\ PostsInv /\ FetchInv /\ [Next]_vars => CallsInv' /\ PostsInv' /\ FetchInv'
  BY CallsInvNext, PostsInvNext, FetchInvNext
<1>3. CallsInv /\ PostsInv /\ FetchInv => StaysOutside
  BY DEF PostsInv, FetchInv, StaysOutside
<1>. QED
  BY <1>1, <1>2, <1>3, PTL DEF Spec

-----------------------------------------------------------------------------
(* What the canonical bytes of a message tell of it *)

\* The title of each kind of message.
TitleOf(kind) ==
    CASE kind = "register" -> "spize-register:v1"
      [] kind = "intent" -> "spize-transfer-intent:v1"
      [] kind = "ticket" -> "spize-data-ticket:v1"
      [] kind = "rotate" -> "spize-rotate-key:v1"
      [] kind = "receipt" -> "spize-transfer-receipt:v1"
      [] kind = "register_v2" -> "aex-register:v2"
      [] kind = "intent_v2" -> "aex-transfer-intent:v2"
      [] kind = "ticket_v2" -> "aex-data-ticket:v2"
      [] kind = "rotate_v2" -> "aex-rotate-key:v2"
      [] kind = "receipt_v2" -> "aex-transfer-receipt:v2"
      [] kind = "decision_request" -> "aex-decision-request:v2"
      [] kind = "decision_response" -> "aex-decision-response:v2"

Kinds == {"register", "intent", "ticket", "rotate", "receipt", "register_v2",
          "intent_v2", "ticket_v2", "rotate_v2", "receipt_v2", "decision_request", "decision_response"}

\* The pieces of canonical bytes: those of the fields, the keys and the titles.
LineKeys ==
    {"pub=", "org=", "name=", "nonce=", "ts=", "sender=", "recipient=", "size=", "mime=",
     "filename=", "transfer=", "data_plane=", "expires=", "agent=", "old_pub=", "new_pub=",
     "action=", "decision=", "eta_secs=", "outcome=", "reason="}
Piece == STRING \cup {"LF"} \cup LineKeys \cup {TitleOf(k) : k \in Kinds}

\* A text in one line, and what may follow one: nothing, or another line.
OneLine(s) == s \in Seq(Piece) /\ \A i \in DOMAIN s : s[i] # "LF"
LinesFollow(r) == r \in Seq(Piece) /\ (r # <<>> => r[1] = "LF")

\* Where a line ends is where the next line feed is.
LEMMA Peel ==
    ASSUME NEW x, NEW y, NEW r, NEW s, OneLine(x), OneLine(y), LinesFollow(r), LinesFollow(s),
           x \o r = y \o s
    PROVE  x = y /\ r = s
<1>1. x \in Seq(Piece) /\ y \in Seq(Piece) /\ r \in Seq(Piece) /\ s \in Seq(Piece)
  BY DEF OneLine, LinesFollow
<1>2. Len(x) + Len(r) = Len(y) + Len(s)
  BY <1>1
<1>3. ASSUME NEW a \in Seq(Piece), NEW b \in Seq(Piece), NEW t \in Seq(Piece), NEW u \in Seq(Piece),
             a \o t = b \o u, Len(a) < Len(b), OneLine(b), LinesFollow(t)
      PROVE  FALSE
  <2>1. Len(a) + Len(t) = Len(b) + Len(u) /\ Len(t) > 0 /\ Len(a) + 1 \in 1 .. Len(b)
    BY <1>3
  <2>2. (a \o t)[Len(a) + 1] = t[1]
    BY <2>1
  <2>3. (b \o u)[Len(a) + 1] = b[Len(a) + 1]
    <3>1. PICK k \in Nat : k = Len(a) + 1 /\ k \in 1 .. Len(b) + Len(u) /\ k <= Len(b)
      BY <2>1
    <3>2. (b \o u)[k] = IF k <= Len(b) THEN b[k] ELSE u[k - Len(b)]
      BY <3>1, ConcatProperties
    <3>. QED
      BY <3>1, <3>2
  <2>4. t[1] = "LF" /\ b[Len(a) + 1] # "LF"
    BY <1>3, <2>1 DEF OneLine, LinesFollow
  <2>. QED
    BY <1>3, <2>2, <2>3, <2>4
<1>4. Len(x) = Len(y)
  <2>1. ~(Len(x) < Len(y))
    BY <1>1, <1>3
  <2>2. ~(Len(y) < Len(x))
    BY <1>1, <1>3
  <2>. QED
    BY <1>1, <2>1, <2>2
<1>5. ASSUME NEW i \in 1 .. Len(x) PROVE x[i] = y[i]
  BY <1>1, <1>4
<1>6. x = y
  BY <1>1, <1>4, <1>5, SeqEqual
<1>7. r = s
  BY <1>1, <1>6, ConcatSimplifications
<1>. QED
  BY <1>6, <1>7

\* Concatenation, and all that the rest of this part uses of it.
Cat(a, b) == a \o b

LEMMA CatTyped ==
    ASSUME NEW a \in Seq(Piece), NEW b \in Seq(Piece)
    PROVE  Cat(a, b) \in Seq(Piece)
BY ConcatProperties DEF Cat

LEMMA CatAssociative ==
    ASSUME NEW a \in Seq(Piece), NEW b \in Seq(Piece), NEW c \in Seq(Piece)
    PROVE  Cat(Cat(a, b), c) = Cat(a, Cat(b, c))
BY ConcatAssociative DEF Cat

LEMMA CatCancels ==
    ASSUME NEW a \in Seq(Piece), NEW b \in Seq(Piece), NEW c \in Seq(Piece), Cat(a, b) = Cat(a, c)
    PROVE  b = c
BY ConcatSimplifications DEF Cat

LEMMA CatEmpty ==
    ASSUME NEW a \in Seq(Piece)
    PROVE  Cat(<<>>, a) = a /\ Cat(a, <<>>) = a
BY DEF Cat

LEMMA CatHead ==
    ASSUME NEW a \in Seq(Piece), NEW b \in Seq(Piece), a # <<>>
    PROVE  Cat(a, b) # <<>> /\ Cat(a, b)[1] = a[1]
<1>1. Len(a) >= 1 /\ Len(a) \in Nat /\ Len(b) \in Nat
  OBVIOUS
<1>2. 1 \in 1 .. Len(a) + Len(b) /\ Len(a \o b) >= 1
  BY <1>1
<1>. QED
  BY <1>1, <1>2 DEF Cat

\* Where a line starts.
LEMMA LineHead ==
    ASSUME NEW key \in Piece
    PROVE  /\ <<"LF", key>> \in Seq(Piece)
           /\ <<"LF", key>> # <<>> /\ <<"LF", key>>[1] = "LF"
<1>1. "LF" \in Piece
  BY DEF Piece
<1>. QED
  BY <1>1

\* The text of a line that fits.
LineOf(key, x) == Cat(<<"LF", key>>, x)

\* A line with another one's key, and what follows it.
LEMMA SameKey ==
    ASSUME NEW key \in Piece, NEW x, NEW y, NEW r, NEW s,
           OneLine(x), OneLine(y), LinesFollow(r), LinesFollow(s),
           Cat(LineOf(key, x), r) = Cat(LineOf(key, y), s)
    PROVE  x = y /\ r = s
<1>1. x \in Seq(Piece) /\ y \in Seq(Piece) /\ r \in Seq(Piece) /\ s \in Seq(Piece)
  BY DEF OneLine, LinesFollow
<1>2. PICK h \in Seq(Piece) : h = <<"LF", key>>
  BY LineHead
<1>3. Cat(Cat(h, x), r) = Cat(Cat(h, y), s)
  BY <1>2 DEF LineOf
<1>4. Cat(Cat(h, x), r) = Cat(h, Cat(x, r)) /\ Cat(Cat(h, y), s) = Cat(h, Cat(y, s))
  BY <1>1, CatAssociative
<1>5. PICK u \in Seq(Piece), v \in Seq(Piece) : u = Cat(x, r) /\ v = Cat(y, s)
  BY <1>1, CatTyped
<1>6. u = v
  BY <1>3, <1>4, <1>5, CatCancels
<1>. QED
  BY <1>5, <1>6, Peel DEF Cat

LEMMA LineOfFollows ==
    ASSUME NEW key \in Piece, NEW x \in Seq(Piece), NEW r \in Seq(Piece)
    PROVE  LineOf(key, x) \in Seq(Piece) /\ LinesFollow(Cat(LineOf(key, x), r))
<1>1. PICK h \in Seq(Piece) : h = <<"LF", key>> /\ h # <<>> /\ h[1] = "LF"
  BY LineHead
<1>2. LineOf(key, x) = Cat(h, x) /\ Cat(h, x) \in Seq(Piece)
  BY <1>1, CatTyped DEF LineOf
<1>3. PICK l \in Seq(Piece) : l = Cat(h, x) /\ l # <<>> /\ l[1] = "LF"
  BY <1>1, <1>2, CatHead
<1>4. Cat(l, r) \in Seq(Piece) /\ Cat(l, r)[1] = "LF"
  BY <1>3, CatTyped, CatHead
<1>. QED
  BY <1>2, <1>3, <1>4 DEF LinesFollow

\* Lines that fit.
Fit(lines) ==
    \A i \in DOMAIN lines : lines[i].key \in Piece /\ OneLine(lines[i].value)

LEMMA LineTexts ==
    ASSUME NEW lines, NEW i
    PROVE  LineText(lines, i) = IF i \in DOMAIN lines THEN LineOf(lines[i].key, lines[i].value)
                                ELSE <<>>
BY DEF LineText, LineOf, Cat

\* What a text of lines begins with.
LEMMA LineFollows ==
    ASSUME NEW lines, Fit(lines), NEW i, NEW r, LinesFollow(r)
    PROVE  LineText(lines, i) \in Seq(Piece) /\ LinesFollow(Cat(LineText(lines, i), r))
<1>1. r \in Seq(Piece)
  BY DEF LinesFollow
<1>2. CASE i \in DOMAIN lines
  <2>1. PICK key \in Piece, x \in Seq(Piece) : lines[i].key = key /\ lines[i].value = x
    BY <1>2 DEF Fit, OneLine
  <2>2. LineText(lines, i) = LineOf(key, x)
    BY <1>2, <2>1, LineTexts
  <2>. QED
    BY <1>1, <2>2, LineOfFollows
<1>3. CASE i \notin DOMAIN lines
  <2>1. LineText(lines, i) = <<>> /\ <<>> \in Seq(Piece)
    BY <1>3, LineTexts
  <2>. QED
    BY <1>1, <2>1, CatEmpty
<1>. QED
  BY <1>2, <1>3

\* Two texts with the same i-th key have the same i-th value, and the same rest.
LEMMA LineAgrees ==
    ASSUME NEW lines, NEW others, Fit(lines), Fit(others), DOMAIN lines = DOMAIN others,
           \A k \in DOMAIN lines : lines[k].key = others[k].key,
           NEW i, NEW r, NEW s, LinesFollow(r), LinesFollow(s),
           Cat(LineText(lines, i), r) = Cat(LineText(others, i), s)
    PROVE  (i \in DOMAIN lines => lines[i].value = others[i].value) /\ r = s
<1>1. CASE i \in DOMAIN lines
  <2>1. PICK key \in Piece : lines[i].key = key /\ others[i].key = key
    BY <1>1 DEF Fit
  <2>2. PICK x, y : lines[i].value = x /\ others[i].value = y /\ OneLine(x) /\ OneLine(y)
    BY <1>1 DEF Fit
  <2>3. LineText(lines, i) = LineOf(key, x) /\ LineText(others, i) = LineOf(key, y)
    BY <1>1, <2>1, <2>2, LineTexts
  <2>4. Cat(LineOf(key, x), r) = Cat(LineOf(key, y), s)
    BY <2>3
  <2>5. x = y /\ r = s
    BY <2>2, <2>4, SameKey
  <2>. QED
    BY <2>2, <2>5
<1>2. CASE i \notin DOMAIN lines
  <2>1. LineText(lines, i) = <<>> /\ LineText(others, i) = <<>>
    BY <1>2, LineTexts
  <2>2. Cat(<<>>, r) = r /\ Cat(<<>>, s) = s
    BY CatEmpty DEF LinesFollow
  <2>. QED
    BY <1>2, <2>1, <2>2
<1>. QED
  BY <1>1, <1>2

\* The lines of a message can be read back from its text.
LEMMA LinesAgree ==
    ASSUME NEW lines, NEW others, Fit(lines), Fit(others), DOMAIN lines = DOMAIN others,
           DOMAIN lines \subseteq 1 .. 7,
           \A k \in DOMAIN lines : lines[k].key = others[k].key,
           Joined(lines) = Joined(others)
    PROVE  \A i \in DOMAIN lines : lines[i].value = others[i].value
<1>1. LinesFollow(<<>>)
  BY DEF LinesFollow
<1>2. PICK a7, b7 : a7 = Cat(LineText(lines, 7), <<>>) /\ b7 = Cat(LineText(others, 7), <<>>)
  OBVIOUS
<1>3. PICK a6, b6 : a6 = Cat(LineText(lines, 6), a7) /\ b6 = Cat(LineText(others, 6), b7)
  OBVIOUS
<1>4. PICK a5, b5 : a5 = Cat(LineText(lines, 5), a6) /\ b5 = Cat(LineText(others, 5), b6)
  OBVIOUS
<1>5. PICK a4, b4 : a4 = Cat(LineText(lines, 4), a5) /\ b4 = Cat(LineText(others, 4), b5)
  OBVIOUS
<1>6. PICK a3, b3 : a3 = Cat(LineText(lines, 3), a4) /\ b3 = Cat(LineText(others, 3), b4)
  OBVIOUS
<1>7. PICK a2, b2 : a2 = Cat(LineText(lines, 2), a3) /\ b2 = Cat(LineText(others, 2), b3)
  OBVIOUS
<1>8. /\ LinesFollow(a7) /\ LinesFollow(b7) /\ LinesFollow(a6) /\ LinesFollow(b6)
      /\ LinesFollow(a5) /\ LinesFollow(b5) /\ LinesFollow(a4) /\ LinesFollow(b4)
      /\ LinesFollow(a3) /\ LinesFollow(b3) /\ LinesFollow(a2) /\ LinesFollow(b2)
  BY <1>1, <1>2, <1>3, <1>4, <1>5, <1>6, <1>7, LineFollows
<1>9. a7 = LineText(lines, 7) /\ b7 = LineText(others, 7)
  <2>1. LineText(lines, 7) \in Seq(Piece) /\ LineText(others, 7) \in Seq(Piece)
    BY <1>1, LineFollows
  <2>. QED
    BY <1>2, <2>1, CatEmpty
<1>10. Cat(LineText(lines, 1), a2) = Cat(LineText(others, 1), b2)
  BY <1>3, <1>4, <1>5, <1>6, <1>7, <1>9 DEF Joined, Cat
<1>11. ASSUME NEW i, NEW r, NEW s, LinesFollow(r), LinesFollow(s),
              Cat(LineText(lines, i), r) = Cat(LineText(others, i), s)
       PROVE  (i \in DOMAIN lines => lines[i].value = others[i].value) /\ r = s
  BY <1>11, LineAgrees
<1>12. (1 \in DOMAIN lines => lines[1].value = others[1].value) /\ a2 = b2
  BY <1>8, <1>10, <1>11
<1>13. (2 \in DOMAIN lines => lines[2].value = others[2].value) /\ a3 = b3
  BY <1>7, <1>8, <1>11, <1>12
<1>14. (3 \in DOMAIN lines => lines[3].value = others[3].value) /\ a4 = b4
  BY <1>6, <1>8, <1>11, <1>13
<1>15. (4 \in DOMAIN lines => lines[4].value = others[4].value) /\ a5 = b5
  BY <1>5, <1>8, <1>11, <1>14
<1>16. (5 \in DOMAIN lines => lines[5].value = others[5].value) /\ a6 = b6
  BY <1>4, <1>8, <1>11, <1>15
<1>17. (6 \in DOMAIN lines => lines[6].value = others[6].value) /\ a7 = b7
  BY <1>3, <1>8, <1>11, <1>16
<1>18. 7 \in DOMAIN lines => lines[7].value = others[7].value
  BY <1>1, <1>2, <1>11, <1>17
<1>19. \A i \in 1 .. 7 : i = 1 \/ i = 2 \/ i = 3 \/ i = 4 \/ i = 5 \/ i = 6 \/ i = 7
  OBVIOUS
<1>. QED
  BY <1>12, <1>13, <1>14, <1>15, <1>16, <1>17, <1>18, <1>19

LEMMA TextPieces ==
    ASSUME NEW s \in Text
    PROVE  s \in Seq(Piece)
<1>1. STRING \subseteq Piece
  BY DEF Piece
<1>2. Len(s) \in Nat /\ s \in [1 .. Len(s) -> STRING]
  BY LenProperties DEF Text
<1>3. s \in [1 .. Len(s) -> Piece]
  BY <1>1, <1>2
<1>. QED
  BY <1>2, <1>3

\* A line whose field passed its check stays in its line.
LineFits(line, key, s) ==
    /\ line.key = key /\ line.value = s
    /\ line.check = "ok" => OneLine(s)

LEMMA FieldsFit ==
    ASSUME NEW key, NEW s \in Text
    PROVE  /\ LineFits(Line(key, s), key, s)
           /\ LineFits(OptLine(key, s), key, s)
           /\ LineFits(NonceLine(s), "nonce=", s)
           /\ LineFits(LineAmong(key, s, Actions), key, s)
           /\ LineFits(LineAmong(key, s, Outcomes), key, s)
<1>1. s \in Seq(Piece)
  BY TextPieces
<1>2. \A valid \in BOOLEAN : Result(valid) = "ok" <=> valid
  BY DEF Result
<1>3. (\A i \in DOMAIN s : s[i] # "LF") => OneLine(s)
  BY <1>1 DEF OneLine
<1>4. validate_ascii_line(s) => OneLine(s)
  BY <1>3 DEF validate_ascii_line, LineBreaking
<1>5. validate_ascii_line_opt(s) => OneLine(s)
  <2>1. s = <<>> => OneLine(s)
    BY <1>1 DEF OneLine
  <2>. QED
    BY <1>4, <2>1 DEF validate_ascii_line_opt
<1>6. validate_nonce(s) => OneLine(s)
  <2>1. "LF" \notin HexPieces
    BY NonceAssumption DEF LineBreaking
  <2>. QED
    BY <1>3, <2>1 DEF validate_nonce
<1>7. s \in Actions \/ s \in Outcomes => OneLine(s)
  BY <1>3 DEF Actions, Outcomes
<1>8. /\ Line(key, s).check = "ok" => validate_ascii_line(s)
      /\ OptLine(key, s).check = "ok" => validate_ascii_line_opt(s)
      /\ NonceLine(s).check = "ok" => validate_nonce(s)
      /\ LineAmong(key, s, Actions).check = "ok" => s \in Actions
      /\ LineAmong(key, s, Outcomes).check = "ok" => s \in Outcomes
  BY DEF Line, OptLine, NonceLine, LineAmong, Result
<1>9. /\ Line(key, s).key = key /\ Line(key, s).value = s
      /\ OptLine(key, s).key = key /\ OptLine(key, s).value = s
      /\ NonceLine(s).key = "nonce=" /\ NonceLine(s).value = s
      /\ LineAmong(key, s, Actions).key = key /\ LineAmong(key, s, Actions).value = s
      /\ LineAmong(key, s, Outcomes).key = key /\ LineAmong(key, s, Outcomes).value = s
  BY DEF Line, OptLine, NonceLine, LineAmong
<1>. QED
  BY <1>4, <1>5, <1>6, <1>7, <1>8, <1>9 DEF LineFits

LEMMA NumberFits ==
    ASSUME NEW key, NEW n \in Number
    PROVE  LineFits(NumberLine(key, n), key, <<n>>)
<1>1. n \in Piece /\ n # "LF"
  BY DEF Number, LineBreaking, Piece
<1>2. <<n>> \in Seq(Piece) /\ DOMAIN <<n>> = {1} /\ <<n>>[1] = n
  BY <1>1
<1>3. OneLine(<<n>>)
  BY <1>1, <1>2 DEF OneLine
<1>4. NumberLine(key, n).key = key /\ NumberLine(key, n).value = <<n>>
  BY DEF NumberLine
<1>. QED
  BY <1>3, <1>4 DEF LineFits

LEMMA OtherKeyFits ==
    ASSUME NEW s \in Text, NEW t
    PROVE  LineFits([Line("new_pub=", s) EXCEPT !.check = IF s = t THEN "err" ELSE @],
                    "new_pub=", s)
<1>1. LineFits(Line("new_pub=", s), "new_pub=", s)
  BY FieldsFit
<1>2. PICK l : l = [Line("new_pub=", s) EXCEPT !.check = IF s = t THEN "err" ELSE @]
  OBVIOUS
<1>3. /\ l.key = Line("new_pub=", s).key /\ l.value = Line("new_pub=", s).value
      /\ l.check = "ok" => Line("new_pub=", s).check = "ok"
  BY <1>2 DEF Line
<1>. QED
  BY <1>1, <1>2, <1>3 DEF LineFits

LEMMA Singletons ==
    ASSUME NEW a, NEW b, <<a>> = <<b>>
    PROVE  a = b
<1>1. <<a>>[1] = a /\ <<b>>[1] = b
  OBVIOUS
<1>. QED
  BY <1>1

\* The lines of a message of this kind, and that its fields can be read back.
LEMMA RegistrationLinesFit ==
    ASSUME NEW m \in RegistrationMessage
    PROVE  /\ DOMAIN RegistrationLines(m) = 1 .. 5
           /\ LineFits(RegistrationLines(m)[1], "pub=", m.pub)
           /\ LineFits(RegistrationLines(m)[2], "org=", m.org)
           /\ LineFits(RegistrationLines(m)[3], "name=", m.name)
           /\ LineFits(RegistrationLines(m)[4], "nonce=", m.nonce)
           /\ LineFits(RegistrationLines(m)[5], "ts=", <<m.ts>>)
<1>1. PICK lines : lines = RegistrationLines(m)
  OBVIOUS
<1>2. /\ DOMAIN lines = 1 .. 5
      /\ lines[1] = Line("pub=", m.pub)
      /\ lines[2] = Line("org=", m.org)
      /\ lines[3] = Line("name=", m.name)
      /\ lines[4] = NonceLine(m.nonce)
      /\ lines[5] = NumberLine("ts=", m.ts)
  BY <1>1 DEF RegistrationLines
<1>3. /\ m.pub \in Text /\ m.org \in Text /\ m.name \in Text
      /\ m.nonce \in Text
      /\ m.ts \in Number
  BY DEF RegistrationMessage
<1>. QED
  BY <1>1, <1>2, <1>3, FieldsFit, NumberFits

LEMMA RegistrationFits ==
    ASSUME NEW m \in RegistrationMessage,
           \A i \in DOMAIN RegistrationLines(m) : RegistrationLines(m)[i].check = "ok"
    PROVE  Fit(RegistrationLines(m))
<1>1. PICK lines : lines = RegistrationLines(m)
  OBVIOUS
<1>2. DOMAIN lines = 1 .. 5
  BY <1>1, RegistrationLinesFit
<1>3. /\ LineFits(lines[1], "pub=", m.pub)
      /\ LineFits(lines[2], "org=", m.org)
      /\ LineFits(lines[3], "name=", m.name)
      /\ LineFits(lines[4], "nonce=", m.nonce)
      /\ LineFits(lines[5], "ts=", <<m.ts>>)
  BY <1>1, RegistrationLinesFit
<1>4. \A i \in 1 .. 5 : i = 1 \/ i = 2 \/ i = 3 \/ i = 4 \/ i = 5
  OBVIOUS
<1>5. {"pub=", "org=", "name=", "nonce=", "ts="} \subseteq Piece
  BY DEF Piece, LineKeys
<1>. QED
  BY <1>1, <1>2, <1>3, <1>4, <1>5 DEF Fit, LineFits

LEMMA RegistrationReads ==
    ASSUME NEW m \in RegistrationMessage, NEW n \in RegistrationMessage, m.kind = n.kind,
           \A i \in DOMAIN RegistrationLines(m) : RegistrationLines(m)[i].check = "ok",
           \A i \in DOMAIN RegistrationLines(n) : RegistrationLines(n)[i].check = "ok",
           Joined(RegistrationLines(m)) = Joined(RegistrationLines(n))
    PROVE  m = n
<1>1. PICK lines, others : lines = RegistrationLines(m) /\ others = RegistrationLines(n)
  OBVIOUS
<1>2. DOMAIN lines = 1 .. 5 /\ DOMAIN others = 1 .. 5
  BY <1>1, RegistrationLinesFit
<1>3. /\ LineFits(lines[1], "pub=", m.pub) /\ LineFits(others[1], "pub=", n.pub)
      /\ LineFits(lines[2], "org=", m.org) /\ LineFits(others[2], "org=", n.org)
      /\ LineFits(lines[3], "name=", m.name) /\ LineFits(others[3], "name=", n.name)
      /\ LineFits(lines[4], "nonce=", m.nonce) /\ LineFits(others[4], "nonce=", n.nonce)
      /\ LineFits(lines[5], "ts=", <<m.ts>>) /\ LineFits(others[5], "ts=", <<n.ts>>)
  BY <1>1, RegistrationLinesFit
<1>4. \A i \in 1 .. 5 : i = 1 \/ i = 2 \/ i = 3 \/ i = 4 \/ i = 5
  OBVIOUS
<1>5. Fit(lines) /\ Fit(others) /\ \A i \in DOMAIN lines : lines[i].key = others[i].key
  <2>1. Fit(lines) /\ Fit(others)
    BY <1>1, RegistrationFits
  <2>. QED
    BY <1>2, <1>3, <1>4, <2>1 DEF LineFits
<1>6. \A i \in 1 .. 5 : lines[i].value = others[i].value
  <2>1. DOMAIN lines = DOMAIN others /\ DOMAIN lines \subseteq 1 .. 7
    BY <1>2
  <2>2. Joined(lines) = Joined(others)
    BY <1>1
  <2>3. \A i \in DOMAIN lines : lines[i].value = others[i].value
    BY <1>5, <2>1, <2>2, LinesAgree
  <2>. QED
    BY <1>2, <2>3
<1>7. /\ m.pub = n.pub
      /\ m.org = n.org
      /\ m.name = n.name
      /\ m.nonce = n.nonce
      /\ <<m.ts>> = <<n.ts>>
  BY <1>3, <1>6 DEF LineFits
<1>8. m.ts = n.ts
  BY <1>7, Singletons
<1>. QED
  BY <1>7, <1>8 DEF RegistrationMessage

\* The lines of a message of this kind, and that its fields can be read back.
LEMMA IntentLinesFit ==
    ASSUME NEW m \in IntentMessage
    PROVE  /\ DOMAIN IntentLines(m) = 1 .. 7
           /\ LineFits(IntentLines(m)[1], "sender=", m.sender)
           /\ LineFits(IntentLines(m)[2], "recipient=", m.recipient)
           /\ LineFits(IntentLines(m)[3], "size=", <<m.size>>)
           /\ LineFits(IntentLines(m)[4], "mime=", m.mime)
           /\ LineFits(IntentLines(m)[5], "filename=", m.filename)
           /\ LineFits(IntentLines(m)[6], "nonce=", m.nonce)
           /\ LineFits(IntentLines(m)[7], "ts=", <<m.ts>>)
<1>1. PICK lines : lines = IntentLines(m)
  OBVIOUS
<1>2. /\ DOMAIN lines = 1 .. 7
      /\ lines[1] = Line("sender=", m.sender)
      /\ lines[2] = Line("recipient=", m.recipient)
      /\ lines[3] = NumberLine("size=", m.size)
      /\ lines[4] = OptLine("mime=", m.mime)
      /\ lines[5] = OptLine("filename=", m.filename)
      /\ lines[6] = NonceLine(m.nonce)
      /\ lines[7] = NumberLine("ts=", m.ts)
  BY <1>1 DEF IntentLines
<1>3. /\ m.sender \in Text /\ m.recipient \in Text /\ m.mime \in Text
      /\ m.filename \in Text /\ m.nonce \in Text
      /\ m.size \in Number /\ m.ts \in Number
  BY DEF IntentMessage
<1>. QED
  BY <1>1, <1>2, <1>3, FieldsFit, NumberFits

LEMMA IntentFits ==
    ASSUME NEW m \in IntentMessage,
           \A i \in DOMAIN IntentLines(m) : IntentLines(m)[i].check = "ok"
    PROVE  Fit(IntentLines(m))
<1>1. PICK lines : lines = IntentLines(m)
  OBVIOUS
<1>2. DOMAIN lines = 1 .. 7
  BY <1>1, IntentLinesFit
<1>3. /\ LineFits(lines[1], "sender=", m.sender)
      /\ LineFits(lines[2], "recipient=", m.recipient)
      /\ LineFits(lines[3], "size=", <<m.size>>)
      /\ LineFits(lines[4], "mime=", m.mime)
      /\ LineFits(lines[5], "filename=", m.filename)
      /\ LineFits(lines[6], "nonce=", m.nonce)
      /\ LineFits(lines[7], "ts=", <<m.ts>>)
  BY <1>1, IntentLinesFit
<1>4. \A i \in 1 .. 7 : i = 1 \/ i = 2 \/ i = 3 \/ i = 4 \/ i = 5 \/ i = 6 \/ i = 7
  OBVIOUS
<1>5. {"sender=", "recipient=", "size=", "mime=", "filename=", "nonce=", "ts="} \subseteq Piece
  BY DEF Piece, LineKeys
<1>. QED
  BY <1>1, <1>2, <1>3, <1>4, <1>5 DEF Fit, LineFits

LEMMA IntentReads ==
    ASSUME NEW m \in IntentMessage, NEW n \in IntentMessage, m.kind = n.kind,
           \A i \in DOMAIN IntentLines(m) : IntentLines(m)[i].check = "ok",
           \A i \in DOMAIN IntentLines(n) : IntentLines(n)[i].check = "ok",
           Joined(IntentLines(m)) = Joined(IntentLines(n))
    PROVE  m = n
<1>1. PICK lines, others : lines = IntentLines(m) /\ others = IntentLines(n)
  OBVIOUS
<1>2. DOMAIN lines = 1 .. 7 /\ DOMAIN others = 1 .. 7
  BY <1>1, IntentLinesFit
<1>3. /\ LineFits(lines[1], "sender=", m.sender) /\ LineFits(others[1], "sender=", n.sender)
      /\ LineFits(lines[2], "recipient=", m.recipient) /\ LineFits(others[2], "recipient=", n.recipient)
      /\ LineFits(lines[3], "size=", <<m.size>>) /\ LineFits(others[3], "size=", <<n.size>>)
      /\ LineFits(lines[4], "mime=", m.mime) /\ LineFits(others[4], "mime=", n.mime)
      /\ LineFits(lines[5], "filename=", m.filename) /\ LineFits(others[5], "filename=", n.filename)
      /\ LineFits(lines[6], "nonce=", m.nonce) /\ LineFits(others[6], "nonce=", n.nonce)
      /\ LineFits(lines[7], "ts=", <<m.ts>>) /\ LineFits(others[7], "ts=", <<n.ts>>)
  BY <1>1, IntentLinesFit
<1>4. \A i \in 1 .. 7 : i = 1 \/ i = 2 \/ i = 3 \/ i = 4 \/ i = 5 \/ i = 6 \/ i = 7
  OBVIOUS
<1>5. Fit(lines) /\ Fit(others) /\ \A i \in DOMAIN lines : lines[i].key = others[i].key
  <2>1. Fit(lines) /\ Fit(others)
    BY <1>1, IntentFits
  <2>. QED
    BY <1>2, <1>3, <1>4, <2>1 DEF LineFits
<1>6. \A i \in 1 .. 7 : lines[i].value = others[i].value
  <2>1. DOMAIN lines = DOMAIN others /\ DOMAIN lines \subseteq 1 .. 7
    BY <1>2
  <2>2. Joined(lines) = Joined(others)
    BY <1>1
  <2>3. \A i \in DOMAIN lines : lines[i].value = others[i].value
    BY <1>5, <2>1, <2>2, LinesAgree
  <2>. QED
    BY <1>2, <2>3
<1>7. /\ m.sender = n.sender
      /\ m.recipient = n.recipient
      /\ <<m.size>> = <<n.size>>
      /\ m.mime = n.mime
      /\ m.filename = n.filename
      /\ m.nonce = n.nonce
      /\ <<m.ts>> = <<n.ts>>
  BY <1>3, <1>6 DEF LineFits
<1>8. m.size = n.size /\ m.ts = n.ts
  BY <1>7, Singletons
<1>. QED
  BY <1>7, <1>8 DEF IntentMessage

\* The lines of a message of this kind, and that its fields can be read back.
LEMMA TicketLinesFit ==
    ASSUME NEW m \in TicketMessage
    PROVE  /\ DOMAIN TicketLines(m) = 1 .. 5
           /\ LineFits(TicketLines(m)[1], "transfer=", m.transfer)
           /\ LineFits(TicketLines(m)[2], "recipient=", m.recipient)
           /\ LineFits(TicketLines(m)[3], "data_plane=", m.data_plane)
           /\ LineFits(TicketLines(m)[4], "expires=", <<m.expires>>)
           /\ LineFits(TicketLines(m)[5], "nonce=", m.nonce)
<1>1. PICK lines : lines = TicketLines(m)
  OBVIOUS
<1>2. /\ DOMAIN lines = 1 .. 5
      /\ lines[1] = Line("transfer=", m.transfer)
      /\ lines[2] = Line("recipient=", m.recipient)
      /\ lines[3] = Line("data_plane=", m.data_plane)
      /\ lines[4] = NumberLine("expires=", m.expires)
      /\ lines[5] = NonceLine(m.nonce)
  BY <1>1 DEF TicketLines
<1>3. /\ m.transfer \in Text /\ m.recipient \in Text /\ m.data_plane \in Text
      /\ m.nonce \in Text
      /\ m.expires \in Number
  BY DEF TicketMessage
<1>. QED
  BY <1>1, <1>2, <1>3, FieldsFit, NumberFits

LEMMA TicketFits ==
    ASSUME NEW m \in TicketMessage,
           \A i \in DOMAIN TicketLines(m) : TicketLines(m)[i].check = "ok"
    PROVE  Fit(TicketLines(m))
<1>1. PICK lines : lines = TicketLines(m)
  OBVIOUS
<1>2. DOMAIN lines = 1 .. 5
  BY <1>1, TicketLinesFit
<1>3. /\ LineFits(lines[1], "transfer=", m.transfer)
      /\ LineFits(lines[2], "recipient=", m.recipient)
      /\ LineFits(lines[3], "data_plane=", m.data_plane)
      /\ LineFits(lines[4], "expires=", <<m.expires>>)
      /\ LineFits(lines[5], "nonce=", m.nonce)
  BY <1>1, TicketLinesFit
<1>4. \A i \in 1 .. 5 : i = 1 \/ i = 2 \/ i = 3 \/ i = 4 \/ i = 5
  OBVIOUS
<1>5. {"transfer=", "recipient=", "data_plane=", "expires=", "nonce="} \subseteq Piece
  BY DEF Piece, LineKeys
<1>. QED
  BY <1>1, <1>2, <1>3, <1>4, <1>5 DEF Fit, LineFits

LEMMA TicketReads ==
    ASSUME NEW m \in TicketMessage, NEW n \in TicketMessage, m.kind = n.kind,
           \A i \in DOMAIN TicketLines(m) : TicketLines(m)[i].check = "ok",
           \A i \in DOMAIN TicketLines(n) : TicketLines(n)[i].check = "ok",
           Joined(TicketLines(m)) = Joined(TicketLines(n))
    PROVE  m = n
<1>1. PICK lines, others : lines = TicketLines(m) /\ others = TicketLines(n)
  OBVIOUS
<1>2. DOMAIN lines = 1 .. 5 /\ DOMAIN others = 1 .. 5
  BY <1>1, TicketLinesFit
<1>3. /\ LineFits(lines[1], "transfer=", m.transfer) /\ LineFits(others[1], "transfer=", n.transfer)
      /\ LineFits(lines[2], "recipient=", m.recipient) /\ LineFits(others[2], "recipient=", n.recipient)
      /\ LineFits(lines[3], "data_plane=", m.data_plane) /\ LineFits(others[3], "data_plane=", n.data_plane)
      /\ LineFits(lines[4], "expires=", <<m.expires>>) /\ LineFits(others[4], "expires=", <<n.expires>>)
      /\ LineFits(lines[5], "nonce=", m.nonce) /\ LineFits(others[5], "nonce=", n.nonce)
  BY <1>1, TicketLinesFit
<1>4. \A i \in 1 .. 5 : i = 1 \/ i = 2 \/ i = 3 \/ i = 4 \/ i = 5
  OBVIOUS
<1>5. Fit(lines) /\ Fit(others) /\ \A i \in DOMAIN lines : lines[i].key = others[i].key
  <2>1. Fit(lines) /\ Fit(others)
    BY <1>1, TicketFits
  <2>. QED
    BY <1>2, <1>3, <1>4, <2>1 DEF LineFits
<1>6. \A i \in 1 .. 5 : lines[i].value = others[i].value
  <2>1. DOMAIN lines = DOMAIN others /\ DOMAIN lines \subseteq 1 .. 7
    BY <1>2
  <2>2. Joined(lines) = Joined(others)
    BY <1>1
  <2>3. \A i \in DOMAIN lines : lines[i].value = others[i].value
    BY <1>5, <2>1, <2>2, LinesAgree
  <2>. QED
    BY <1>2, <2>3
<1>7. /\ m.transfer = n.transfer
      /\ m.recipient = n.recipient
      /\ m.data_plane = n.data_plane
      /\ <<m.expires>> = <<n.expires>>
      /\ m.nonce = n.nonce
  BY <1>3, <1>6 DEF LineFits
<1>8. m.expires = n.expires
  BY <1>7, Singletons
<1>. QED
  BY <1>7, <1>8 DEF TicketMessage

\* The lines of a message of this kind, and that its fields can be read back.
LEMMA RotationLinesFit ==
    ASSUME NEW m \in RotationMessage
    PROVE  /\ DOMAIN RotationLines(m) = 1 .. 5
           /\ LineFits(RotationLines(m)[1], "agent=", m.agent)
           /\ LineFits(RotationLines(m)[2], "old_pub=", m.old_pub)
           /\ LineFits(RotationLines(m)[3], "new_pub=", m.new_pub)
           /\ LineFits(RotationLines(m)[4], "nonce=", m.nonce)
           /\ LineFits(RotationLines(m)[5], "ts=", <<m.ts>>)
<1>1. PICK lines : lines = RotationLines(m)
  OBVIOUS
<1>2. /\ DOMAIN lines = 1 .. 5
      /\ lines[1] = Line("agent=", m.agent)
      /\ lines[2] = Line("old_pub=", m.old_pub)
      /\ lines[3] = [Line("new_pub=", m.new_pub) EXCEPT
                        !.check = IF m.new_pub = m.old_pub THEN "err" ELSE @]
      /\ lines[4] = NonceLine(m.nonce)
      /\ lines[5] = NumberLine("ts=", m.ts)
  BY <1>1 DEF RotationLines
<1>3. /\ m.agent \in Text /\ m.old_pub \in Text /\ m.new_pub \in Text
      /\ m.nonce \in Text
      /\ m.ts \in Number
  BY DEF RotationMessage
<1>. QED
  BY <1>1, <1>2, <1>3, FieldsFit, NumberFits, OtherKeyFits

LEMMA RotationFits ==
    ASSUME NEW m \in RotationMessage,
           \A i \in DOMAIN RotationLines(m) : RotationLines(m)[i].check = "ok"
    PROVE  Fit(RotationLines(m))
<1>1. PICK lines : lines = RotationLines(m)
  OBVIOUS
<1>2. DOMAIN lines = 1 .. 5
  BY <1>1, RotationLinesFit
<1>3. /\ LineFits(lines[1], "agent=", m.agent)
      /\ LineFits(lines[2], "old_pub=", m.old_pub)
      /\ LineFits(lines[3], "new_pub=", m.new_pub)
      /\ LineFits(lines[4], "nonce=", m.nonce)
      /\ LineFits(lines[5], "ts=", <<m.ts>>)
  BY <1>1, RotationLinesFit
<1>4. \A i \in 1 .. 5 : i = 1 \/ i = 2 \/ i = 3 \/ i = 4 \/ i = 5
  OBVIOUS
<1>5. {"agent=", "old_pub=", "new_pub=", "nonce=", "ts="} \subseteq Piece
  BY DEF Piece, LineKeys
<1>. QED
  BY <1>1, <1>2, <1>3, <1>4, <1>5 DEF Fit, LineFits

LEMMA RotationReads ==
    ASSUME NEW m \in RotationMessage, NEW n \in RotationMessage, m.kind = n.kind,
           \A i \in DOMAIN RotationLines(m) : RotationLines(m)[i].check = "ok",
           \A i \in DOMAIN RotationLines(n) : RotationLines(n)[i].check = "ok",
           Joined(RotationLines(m)) = Joined(RotationLines(n))
    PROVE  m = n
<1>1. PICK lines, others : lines = RotationLines(m) /\ others = RotationLines(n)
  OBVIOUS
<1>2. DOMAIN lines = 1 .. 5 /\ DOMAIN others = 1 .. 5
  BY <1>1, RotationLinesFit
<1>3. /\ LineFits(lines[1], "agent=", m.agent) /\ LineFits(others[1], "agent=", n.agent)
      /\ LineFits(lines[2], "old_pub=", m.old_pub) /\ LineFits(others[2], "old_pub=", n.old_pub)
      /\ LineFits(lines[3], "new_pub=", m.new_pub) /\ LineFits(others[3], "new_pub=", n.new_pub)
      /\ LineFits(lines[4], "nonce=", m.nonce) /\ LineFits(others[4], "nonce=", n.nonce)
      /\ LineFits(lines[5], "ts=", <<m.ts>>) /\ LineFits(others[5], "ts=", <<n.ts>>)
  BY <1>1, RotationLinesFit
<1>4. \A i \in 1 .. 5 : i = 1 \/ i = 2 \/ i = 3 \/ i = 4 \/ i = 5
  OBVIOUS
<1>5. Fit(lines) /\ Fit(others) /\ \A i \in DOMAIN lines : lines[i].key = others[i].key
  <2>1. Fit(lines) /\ Fit(others)
    BY <1>1, RotationFits
  <2>. QED
    BY <1>2, <1>3, <1>4, <2>1 DEF LineFits
<1>6. \A i \in 1 .. 5 : lines[i].value = others[i].value
  <2>1. DOMAIN lines = DOMAIN others /\ DOMAIN lines \subseteq 1 .. 7
    BY <1>2
  <2>2. Joined(lines) = Joined(others)
    BY <1>1
  <2>3. \A i \in DOMAIN lines : lines[i].value = others[i].value
    BY <1>5, <2>1, <2>2, LinesAgree
  <2>. QED
    BY <1>2, <2>3
<1>7. /\ m.agent = n.agent
      /\ m.old_pub = n.old_pub
      /\ m.new_pub = n.new_pub
      /\ m.nonce = n.nonce
      /\ <<m.ts>> = <<n.ts>>
  BY <1>3, <1>6 DEF LineFits
<1>8. m.ts = n.ts
  BY <1>7, Singletons
<1>. QED
  BY <1>7, <1>8 DEF RotationMessage

\* The lines of a message of this kind, and that its fields can be read back.
LEMMA ReceiptLinesFit ==
    ASSUME NEW m \in ReceiptMessage
    PROVE  /\ DOMAIN ReceiptLines(m) = 1 .. 5
           /\ LineFits(ReceiptLines(m)[1], "recipient=", m.recipient)
           /\ LineFits(ReceiptLines(m)[2], "transfer=", m.transfer)
           /\ LineFits(ReceiptLines(m)[3], "action=", m.action)
           /\ LineFits(ReceiptLines(m)[4], "nonce=", m.nonce)
           /\ LineFits(ReceiptLines(m)[5], "ts=", <<m.ts>>)
<1>1. PICK lines : lines = ReceiptLines(m)
  OBVIOUS
<1>2. /\ DOMAIN lines = 1 .. 5
      /\ lines[1] = Line("recipient=", m.recipient)
      /\ lines[2] = Line("transfer=", m.transfer)
      /\ lines[3] = LineAmong("action=", m.action, Actions)
      /\ lines[4] = NonceLine(m.nonce)
      /\ lines[5] = NumberLine("ts=", m.ts)
  BY <1>1 DEF ReceiptLines
<1>3. /\ m.recipient \in Text /\ m.transfer \in Text /\ m.action \in Text
      /\ m.nonce \in Text
      /\ m.ts \in Number
  BY DEF ReceiptMessage
<1>. QED
  BY <1>1, <1>2, <1>3, FieldsFit, NumberFits

LEMMA ReceiptFits ==
    ASSUME NEW m \in ReceiptMessage,
           \A i \in DOMAIN ReceiptLines(m) : ReceiptLines(m)[i].check = "ok"
    PROVE  Fit(ReceiptLines(m))
<1>1. PICK lines : lines = ReceiptLines(m)
  OBVIOUS
<1>2. DOMAIN lines = 1 .. 5
  BY <1>1, ReceiptLinesFit
<1>3. /\ LineFits(lines[1], "recipient=", m.recipient)
      /\ LineFits(lines[2], "transfer=", m.transfer)
      /\ LineFits(lines[3], "action=", m.action)
      /\ LineFits(lines[4], "nonce=", m.nonce)
      /\ LineFits(lines[5], "ts=", <<m.ts>>)
  BY <1>1, ReceiptLinesFit
<1>4. \A i \in 1 .. 5 : i = 1 \/ i = 2 \/ i = 3 \/ i = 4 \/ i = 5
  OBVIOUS
<1>5. {"recipient=", "transfer=", "action=", "nonce=", "ts="} \subseteq Piece
  BY DEF Piece, LineKeys
<1>. QED
  BY <1>1, <1>2, <1>3, <1>4, <1>5 DEF Fit, LineFits

LEMMA ReceiptReads ==
    ASSUME NEW m \in ReceiptMessage, NEW n \in ReceiptMessage, m.kind = n.kind,
           \A i \in DOMAIN ReceiptLines(m) : ReceiptLines(m)[i].check = "ok",
           \A i \in DOMAIN ReceiptLines(n) : ReceiptLines(n)[i].check = "ok",
           Joined(ReceiptLines(m)) = Joined(ReceiptLines(n))
    PROVE  m = n
<1>1. PICK lines, others : lines = ReceiptLines(m) /\ others = ReceiptLines(n)
  OBVIOUS
<1>2. DOMAIN lines = 1 .. 5 /\ DOMAIN others = 1 .. 5
  BY <1>1, ReceiptLinesFit
<1>3. /\ LineFits(lines[1], "recipient=", m.recipient) /\ LineFits(others[1], "recipient=", n.recipient)
      /\ LineFits(lines[2], "transfer=", m.transfer) /\ LineFits(others[2], "transfer=", n.transfer)
      /\ LineFits(lines[3], "action=", m.action) /\ LineFits(others[3], "action=", n.action)
      /\ LineFits(lines[4], "nonce=", m.nonce) /\ LineFits(others[4], "nonce=", n.nonce)
      /\ LineFits(lines[5], "ts=", <<m.ts>>) /\ LineFits(others[5], "ts=", <<n.ts>>)
  BY <1>1, ReceiptLinesFit
<1>4. \A i \in 1 .. 5 : i = 1 \/ i = 2 \/ i = 3 \/ i = 4 \/ i = 5
  OBVIOUS
<1>5. Fit(lines) /\ Fit(others) /\ \A i \in DOMAIN lines : lines[i].key = others[i].key
  <2>1. Fit(lines) /\ Fit(others)
    BY <1>1, ReceiptFits
  <2>. QED
    BY <1>2, <1>3, <1>4, <2>1 DEF LineFits
<1>6. \A i \in 1 .. 5 : lines[i].value = others[i].value
  <2>1. DOMAIN lines = DOMAIN others /\ DOMAIN lines \subseteq 1 .. 7
    BY <1>2
  <2>2. Joined(lines) = Joined(others)
    BY <1>1
  <2>3. \A i \in DOMAIN lines : lines[i].value = others[i].value
    BY <1>5, <2>1, <2>2, LinesAgree
  <2>. QED
    BY <1>2, <2>3
<1>7. /\ m.recipient = n.recipient
      /\ m.transfer = n.transfer
      /\ m.action = n.action
      /\ m.nonce = n.nonce
      /\ <<m.ts>> = <<n.ts>>
  BY <1>3, <1>6 DEF LineFits
<1>8. m.ts = n.ts
  BY <1>7, Singletons
<1>. QED
  BY <1>7, <1>8 DEF ReceiptMessage

\* The lines of a message of this kind, and that its fields can be read back.
LEMMA DecisionRequestLinesFit ==
    ASSUME NEW m \in DecisionRequestMessage
    PROVE  /\ DOMAIN DecisionRequestLines(m) = 1 .. 6
           /\ LineFits(DecisionRequestLines(m)[1], "recipient=", m.recipient)
           /\ LineFits(DecisionRequestLines(m)[2], "transfer=", m.transfer)
           /\ LineFits(DecisionRequestLines(m)[3], "decision=", m.decision)
           /\ LineFits(DecisionRequestLines(m)[4], "eta_secs=", <<m.eta>>)
           /\ LineFits(DecisionRequestLines(m)[5], "nonce=", m.nonce)
           /\ LineFits(DecisionRequestLines(m)[6], "ts=", <<m.ts>>)
<1>1. PICK lines : lines = DecisionRequestLines(m)
  OBVIOUS
<1>2. /\ DOMAIN lines = 1 .. 6
      /\ lines[1] = Line("recipient=", m.recipient)
      /\ lines[2] = Line("transfer=", m.transfer)
      /\ lines[3] = Line("decision=", m.decision)
      /\ lines[4] = NumberLine("eta_secs=", m.eta)
      /\ lines[5] = NonceLine(m.nonce)
      /\ lines[6] = NumberLine("ts=", m.ts)
  BY <1>1 DEF DecisionRequestLines
<1>3. /\ m.recipient \in Text /\ m.transfer \in Text /\ m.decision \in Text
      /\ m.nonce \in Text
      /\ m.eta \in Number /\ m.ts \in Number
  BY DEF DecisionRequestMessage
<1>. QED
  BY <1>1, <1>2, <1>3, FieldsFit, NumberFits

LEMMA DecisionRequestFits ==
    ASSUME NEW m \in DecisionRequestMessage,
           \A i \in DOMAIN DecisionRequestLines(m) : DecisionRequestLines(m)[i].check = "ok"
    PROVE  Fit(DecisionRequestLines(m))
<1>1. PICK lines : lines = DecisionRequestLines(m)
  OBVIOUS
<1>2. DOMAIN lines = 1 .. 6
  BY <1>1, DecisionRequestLinesFit
<1>3. /\ LineFits(lines[1], "recipient=", m.recipient)
      /\ LineFits(lines[2], "transfer=", m.transfer)
      /\ LineFits(lines[3], "decision=", m.decision)
      /\ LineFits(lines[4], "eta_secs=", <<m.eta>>)
      /\ LineFits(lines[5], "nonce=", m.nonce)
      /\ LineFits(lines[6], "ts=", <<m.ts>>)
  BY <1>1, DecisionRequestLinesFit
<1>4. \A i \in 1 .. 6 : i = 1 \/ i = 2 \/ i = 3 \/ i = 4 \/ i = 5 \/ i = 6
  OBVIOUS
<1>5. {"recipient=", "transfer=", "decision=", "eta_secs=", "nonce=", "ts="} \subseteq Piece
  BY DEF Piece, LineKeys
<1>. QED
  BY <1>1, <1>2, <1>3, <1>4, <1>5 DEF Fit, LineFits

LEMMA DecisionRequestReads ==
    ASSUME NEW m \in DecisionRequestMessage, NEW n \in DecisionRequestMessage, m.kind = n.kind,
           \A i \in DOMAIN DecisionRequestLines(m) : DecisionRequestLines(m)[i].check = "ok",
           \A i \in DOMAIN DecisionRequestLines(n) : DecisionRequestLines(n)[i].check = "ok",
           Joined(DecisionRequestLines(m)) = Joined(DecisionRequestLines(n))
    PROVE  m = n
<1>1. PICK lines, others : lines = DecisionRequestLines(m) /\ others = DecisionRequestLines(n)
  OBVIOUS
<1>2. DOMAIN lines = 1 .. 6 /\ DOMAIN others = 1 .. 6
  BY <1>1, DecisionRequestLinesFit
<1>3. /\ LineFits(lines[1], "recipient=", m.recipient) /\ LineFits(others[1], "recipient=", n.recipient)
      /\ LineFits(lines[2], "transfer=", m.transfer) /\ LineFits(others[2], "transfer=", n.transfer)
      /\ LineFits(lines[3], "decision=", m.decision) /\ LineFits(others[3], "decision=", n.decision)
      /\ LineFits(lines[4], "eta_secs=", <<m.eta>>) /\ LineFits(others[4], "eta_secs=", <<n.eta>>)
      /\ LineFits(lines[5], "nonce=", m.nonce) /\ LineFits(others[5], "nonce=", n.nonce)
      /\ LineFits(lines[6], "ts=", <<m.ts>>) /\ LineFits(others[6], "ts=", <<n.ts>>)
  BY <1>1, DecisionRequestLinesFit
<1>4. \A i \in 1 .. 6 : i = 1 \/ i = 2 \/ i = 3 \/ i = 4 \/ i = 5 \/ i = 6
  OBVIOUS
<1>5. Fit(lines) /\ Fit(others) /\ \A i \in DOMAIN lines : lines[i].key = others[i].key
  <2>1. Fit(lines) /\ Fit(others)
    BY <1>1, DecisionRequestFits
  <2>. QED
    BY <1>2, <1>3, <1>4, <2>1 DEF LineFits
<1>6. \A i \in 1 .. 6 : lines[i].value = others[i].value
  <2>1. DOMAIN lines = DOMAIN others /\ DOMAIN lines \subseteq 1 .. 7
    BY <1>2
  <2>2. Joined(lines) = Joined(others)
    BY <1>1
  <2>3. \A i \in DOMAIN lines : lines[i].value = others[i].value
    BY <1>5, <2>1, <2>2, LinesAgree
  <2>. QED
    BY <1>2, <2>3
<1>7. /\ m.recipient = n.recipient
      /\ m.transfer = n.transfer
      /\ m.decision = n.decision
      /\ <<m.eta>> = <<n.eta>>
      /\ m.nonce = n.nonce
      /\ <<m.ts>> = <<n.ts>>
  BY <1>3, <1>6 DEF LineFits
<1>8. m.eta = n.eta /\ m.ts = n.ts
  BY <1>7, Singletons
<1>. QED
  BY <1>7, <1>8 DEF DecisionRequestMessage

\* The lines of a message of this kind, and that its fields can be read back.
LEMMA DecisionResponseLinesFit ==
    ASSUME NEW m \in DecisionResponseMessage
    PROVE  /\ DOMAIN DecisionResponseLines(m) = 1 .. 7
           /\ LineFits(DecisionResponseLines(m)[1], "recipient=", m.recipient)
           /\ LineFits(DecisionResponseLines(m)[2], "transfer=", m.transfer)
           /\ LineFits(DecisionResponseLines(m)[3], "decision=", m.decision)
           /\ LineFits(DecisionResponseLines(m)[4], "outcome=", m.outcome)
           /\ LineFits(DecisionResponseLines(m)[5], "reason=", m.reason)
           /\ LineFits(DecisionResponseLines(m)[6], "nonce=", m.nonce)
           /\ LineFits(DecisionResponseLines(m)[7], "ts=", <<m.ts>>)
<1>1. PICK lines : lines = DecisionResponseLines(m)
  OBVIOUS
<1>2. /\ DOMAIN lines = 1 .. 7
      /\ lines[1] = Line("recipient=", m.recipient)
      /\ lines[2] = Line("transfer=", m.transfer)
      /\ lines[3] = Line("decision=", m.decision)
      /\ lines[4] = LineAmong("outcome=", m.outcome, Outcomes)
      /\ lines[5] = OptLine("reason=", m.reason)
      /\ lines[6] = NonceLine(m.nonce)
      /\ lines[7] = NumberLine("ts=", m.ts)
  BY <1>1 DEF DecisionResponseLines
<1>3. /\ m.recipient \in Text /\ m.transfer \in Text /\ m.decision \in Text
      /\ m.outcome \in Text /\ m.reason \in Text /\ m.nonce \in Text
      /\ m.ts \in Number
  BY DEF DecisionResponseMessage
<1>. QED
  BY <1>1, <1>2, <1>3, FieldsFit, NumberFits

LEMMA DecisionResponseFits ==
    ASSUME NEW m \in DecisionResponseMessage,
           \A i \in DOMAIN DecisionResponseLines(m) : DecisionResponseLines(m)[i].check = "ok"
    PROVE  Fit(DecisionResponseLines(m))
<1>1. PICK lines : lines = DecisionResponseLines(m)
  OBVIOUS
<1>2. DOMAIN lines = 1 .. 7
  BY <1>1, DecisionResponseLinesFit
<1>3. /\ LineFits(lines[1], "recipient=", m.recipient)
      /\ LineFits(lines[2], "transfer=", m.transfer)
      /\ LineFits(lines[3], "decision=", m.decision)
      /\ LineFits(lines[4], "outcome=", m.outcome)
      /\ LineFits(lines[5], "reason=", m.reason)
      /\ LineFits(lines[6], "nonce=", m.nonce)
      /\ LineFits(lines[7], "ts=", <<m.ts>>)
  BY <1>1, DecisionResponseLinesFit
<1>4. \A i \in 1 .. 7 : i = 1 \/ i = 2 \/ i = 3 \/ i = 4 \/ i = 5 \/ i = 6 \/ i = 7
  OBVIOUS
<1>5. {"recipient=", "transfer=", "decision=", "outcome=", "reason=", "nonce=", "ts="} \subseteq Piece
  BY DEF Piece, LineKeys
<1>. QED
  BY <1>1, <1>2, <1>3, <1>4, <1>5 DEF Fit, LineFits

LEMMA DecisionResponseReads ==
    ASSUME NEW m \in DecisionResponseMessage, NEW n \in DecisionResponseMessage, m.kind = n.kind,
           \A i \in DOMAIN DecisionResponseLines(m) : DecisionResponseLines(m)[i].check = "ok",
           \A i \in DOMAIN DecisionResponseLines(n) : DecisionResponseLines(n)[i].check = "ok",
           Joined(DecisionResponseLines(m)) = Joined(DecisionResponseLines(n))
    PROVE  m = n
<1>1. PICK lines, others : lines = DecisionResponseLines(m) /\ others = DecisionResponseLines(n)
  OBVIOUS
<1>2. DOMAIN lines = 1 .. 7 /\ DOMAIN others = 1 .. 7
  BY <1>1, DecisionResponseLinesFit
<1>3. /\ LineFits(lines[1], "recipient=", m.recipient) /\ LineFits(others[1], "recipient=", n.recipient)
      /\ LineFits(lines[2], "transfer=", m.transfer) /\ LineFits(others[2], "transfer=", n.transfer)
      /\ LineFits(lines[3], "decision=", m.decision) /\ LineFits(others[3], "decision=", n.decision)
      /\ LineFits(lines[4], "outcome=", m.outcome) /\ LineFits(others[4], "outcome=", n.outcome)
      /\ LineFits(lines[5], "reason=", m.reason) /\ LineFits(others[5], "reason=", n.reason)
      /\ LineFits(lines[6], "nonce=", m.nonce) /\ LineFits(others[6], "nonce=", n.nonce)
      /\ LineFits(lines[7], "ts=", <<m.ts>>) /\ LineFits(others[7], "ts=", <<n.ts>>)
  BY <1>1, DecisionResponseLinesFit
<1>4. \A i \in 1 .. 7 : i = 1 \/ i = 2 \/ i = 3 \/ i = 4 \/ i = 5 \/ i = 6 \/ i = 7
  OBVIOUS
<1>5. Fit(lines) /\ Fit(others) /\ \A i \in DOMAIN lines : lines[i].key = others[i].key
  <2>1. Fit(lines) /\ Fit(others)
    BY <1>1, DecisionResponseFits
  <2>. QED
    BY <1>2, <1>3, <1>4, <2>1 DEF LineFits
<1>6. \A i \in 1 .. 7 : lines[i].value = others[i].value
  <2>1. DOMAIN lines = DOMAIN others /\ DOMAIN lines \subseteq 1 .. 7
    BY <1>2
  <2>2. Joined(lines) = Joined(others)
    BY <1>1
  <2>3. \A i \in DOMAIN lines : lines[i].value = others[i].value
    BY <1>5, <2>1, <2>2, LinesAgree
  <2>. QED
    BY <1>2, <2>3
<1>7. /\ m.recipient = n.recipient
      /\ m.transfer = n.transfer
      /\ m.decision = n.decision
      /\ m.outcome = n.outcome
      /\ m.reason = n.reason
      /\ m.nonce = n.nonce
      /\ <<m.ts>> = <<n.ts>>
  BY <1>3, <1>6 DEF LineFits
<1>8. m.ts = n.ts
  BY <1>7, Singletons
<1>. QED
  BY <1>7, <1>8 DEF DecisionResponseMessage

LEMMA TitlesDiffer ==
    ASSUME NEW k \in Kinds, NEW l \in Kinds, TitleOf(k) = TitleOf(l)
    PROVE  k = l
BY DEF Kinds, TitleOf

\* Each message is given to the function of its kind.
LEMMA BytesOfKind ==
    ASSUME NEW m \in Message
    PROVE  /\ m.kind \in Kinds
           /\ m \in RegistrationMessage =>
                 Bytes(m) = Canonical(TitleOf(m.kind), RegistrationLines(m))
           /\ m \in IntentMessage =>
                 Bytes(m) = Canonical(TitleOf(m.kind), IntentLines(m))
           /\ m \in TicketMessage =>
                 Bytes(m) = Canonical(TitleOf(m.kind), TicketLines(m))
           /\ m \in RotationMessage =>
                 Bytes(m) = Canonical(TitleOf(m.kind), RotationLines(m))
           /\ m \in ReceiptMessage =>
                 Bytes(m) = Canonical(TitleOf(m.kind), ReceiptLines(m))
           /\ m \in DecisionRequestMessage =>
                 Bytes(m) = Canonical(TitleOf(m.kind), DecisionRequestLines(m))
           /\ m \in DecisionResponseMessage =>
                 Bytes(m) = Canonical(TitleOf(m.kind), DecisionResponseLines(m))
<1>1. ASSUME m \in RegistrationMessage
      PROVE  m.kind \in Kinds /\ Bytes(m) = Canonical(TitleOf(m.kind), RegistrationLines(m))
  <2>1. m.kind = "register" \/ m.kind = "register_v2"
    BY <1>1 DEF RegistrationMessage
  <2>2. CASE m.kind = "register"
    BY <2>2 DEF Bytes, TitleOf, Kinds, registration_challenge_bytes
  <2>3. CASE m.kind = "register_v2"
    BY <2>3 DEF Bytes, TitleOf, Kinds, registration_challenge_bytes_v2
  <2>. QED
    BY <2>1, <2>2, <2>3
<1>2. ASSUME m \in IntentMessage
      PROVE  m.kind \in Kinds /\ Bytes(m) = Canonical(TitleOf(m.kind), IntentLines(m))
  <2>1. m.kind = "intent" \/ m.kind = "intent_v2"
    BY <1>2 DEF IntentMessage
  <2>2. CASE m.kind = "intent"
    BY <2>2 DEF Bytes, TitleOf, Kinds, transfer_intent_bytes
  <2>3. CASE m.kind = "intent_v2"
    BY <2>3 DEF Bytes, TitleOf, Kinds, transfer_intent_bytes_v2
  <2>. QED
    BY <2>1, <2>2, <2>3
<1>3. ASSUME m \in TicketMessage
      PROVE  m.kind \in Kinds /\ Bytes(m) = Canonical(TitleOf(m.kind), TicketLines(m))
  <2>1. m.kind = "ticket" \/ m.kind = "ticket_v2"
    BY <1>3 DEF TicketMessage
  <2>2. CASE m.kind = "ticket"
    BY <2>2 DEF Bytes, TitleOf, Kinds, data_ticket_bytes
  <2>3. CASE m.kind = "ticket_v2"
    BY <2>3 DEF Bytes, TitleOf, Kinds, data_ticket_bytes_v2
  <2>. QED
    BY <2>1, <2>2, <2>3
<1>4. ASSUME m \in RotationMessage
      PROVE  m.kind \in Kinds /\ Bytes(m) = Canonical(TitleOf(m.kind), RotationLines(m))
  <2>1. m.kind = "rotate" \/ m.kind = "rotate_v2"
    BY <1>4 DEF RotationMessage
  <2>2. CASE m.kind = "rotate"
    BY <2>2 DEF Bytes, TitleOf, Kinds, rotate_key_challenge_bytes
  <2>3. CASE m.kind = "rotate_v2"
    BY <2>3 DEF Bytes, TitleOf, Kinds, rotate_key_challenge_bytes_v2
  <2>. QED
    BY <2>1, <2>2, <2>3
<1>5. ASSUME m \in ReceiptMessage
      PROVE  m.kind \in Kinds /\ Bytes(m) = Canonical(TitleOf(m.kind), ReceiptLines(m))
  <2>1. m.kind = "receipt" \/ m.kind = "receipt_v2"
    BY <1>5 DEF ReceiptMessage
  <2>2. CASE m.kind = "receipt"
    BY <2>2 DEF Bytes, TitleOf, Kinds, transfer_receipt_bytes
  <2>3. CASE m.kind = "receipt_v2"
    BY <2>3 DEF Bytes, TitleOf, Kinds, transfer_receipt_bytes_v2
  <2>. QED
    BY <2>1, <2>2, <2>3
<1>6. ASSUME m \in DecisionRequestMessage
      PROVE  m.kind \in Kinds /\ Bytes(m) = Canonical(TitleOf(m.kind), DecisionRequestLines(m))
  <2>1. m.kind = "decision_request"
    BY <1>6 DEF DecisionRequestMessage
  <2>2. CASE m.kind = "decision_request"
    BY <2>2 DEF Bytes, TitleOf, Kinds, decision_request_bytes_v2
  <2>. QED
    BY <2>1, <2>2
<1>7. ASSUME m \in DecisionResponseMessage
      PROVE  m.kind \in Kinds /\ Bytes(m) = Canonical(TitleOf(m.kind), DecisionResponseLines(m))
  <2>1. m.kind = "decision_response"
    BY <1>7 DEF DecisionResponseMessage
  <2>2. CASE m.kind = "decision_response"
    BY <2>2 DEF Bytes, TitleOf, Kinds, decision_response_bytes_v2
  <2>. QED
    BY <2>1, <2>2
<1>. QED
  BY <1>1, <1>2, <1>3, <1>4, <1>5, <1>6, <1>7 DEF Message

\* Bytes that are not refused are the title and the lines.
LEMMA CanonicalReads ==
    ASSUME NEW title, NEW lines, Canonical(title, lines) # Refused
    PROVE  /\ \A i \in DOMAIN lines : lines[i].check = "ok"
           /\ Canonical(title, lines) = <<title>> \o Joined(lines)
BY DEF Canonical

LEMMA JoinedIsText ==
    ASSUME NEW lines, Fit(lines)
    PROVE  Joined(lines) \in Seq(Piece)
<1>1. \A i : LineText(lines, i) \in Seq(Piece)
  <2>1. LinesFollow(<<>>)
    BY DEF LinesFollow
  <2>. QED
    BY <2>1, LineFollows
<1>2. PICK a7 \in Seq(Piece) : a7 = LineText(lines, 7)
  BY <1>1
<1>3. PICK a6 \in Seq(Piece) : a6 = Cat(LineText(lines, 6), a7)
  BY <1>1, CatTyped
<1>4. PICK a5 \in Seq(Piece) : a5 = Cat(LineText(lines, 5), a6)
  BY <1>1, CatTyped
<1>5. PICK a4 \in Seq(Piece) : a4 = Cat(LineText(lines, 4), a5)
  BY <1>1, CatTyped
<1>6. PICK a3 \in Seq(Piece) : a3 = Cat(LineText(lines, 3), a4)
  BY <1>1, CatTyped
<1>7. PICK a2 \in Seq(Piece) : a2 = Cat(LineText(lines, 2), a3)
  BY <1>1, CatTyped
<1>8. Cat(LineText(lines, 1), a2) \in Seq(Piece)
  BY <1>1, CatTyped
<1>. QED
  BY <1>2, <1>3, <1>4, <1>5, <1>6, <1>7, <1>8 DEF Joined, Cat

\* The title of bytes, and what follows it.
Titled(kind, body) == <<TitleOf(kind)>> \o body

LEMMA TitledReads ==
    ASSUME NEW k \in Kinds, NEW l \in Kinds, NEW a \in Seq(Piece), NEW b \in Seq(Piece),
           Titled(k, a) = Titled(l, b)
    PROVE  k = l /\ a = b
<1>1. PICK t \in Piece, u \in Piece : t = TitleOf(k) /\ u = TitleOf(l)
  BY DEF Piece
<1>2. PICK h \in Seq(Piece), g \in Seq(Piece) :
        h = <<t>> /\ g = <<u>> /\ h # <<>> /\ g # <<>> /\ h[1] = t /\ g[1] = u
  <2>1. <<t>> \in Seq(Piece) /\ <<u>> \in Seq(Piece)
    OBVIOUS
  <2>2. <<t>> # <<>> /\ <<u>> # <<>> /\ <<t>>[1] = t /\ <<u>>[1] = u
    OBVIOUS
  <2>. QED
    BY <2>1, <2>2
<1>3. Cat(h, a) = Cat(g, b)
  BY <1>1, <1>2 DEF Cat, Titled
<1>4. Cat(h, a)[1] = t /\ Cat(g, b)[1] = u
  BY <1>2, CatHead
<1>5. t = u /\ h = g
  BY <1>2, <1>3, <1>4
<1>6. a = b
  BY <1>3, <1>5, CatCancels
<1>. QED
  BY <1>1, <1>5, <1>6, TitlesDiffer

LEMMA RegistrationBytes ==
    ASSUME NEW m \in RegistrationMessage, Bytes(m) # Refused
    PROVE  /\ \A i \in DOMAIN RegistrationLines(m) : RegistrationLines(m)[i].check = "ok"
           /\ Bytes(m) = Titled(m.kind, Joined(RegistrationLines(m)))
           /\ Joined(RegistrationLines(m)) \in Seq(Piece)
<1>1. Bytes(m) = Canonical(TitleOf(m.kind), RegistrationLines(m))
  BY BytesOfKind DEF Message
<1>2. /\ \A i \in DOMAIN RegistrationLines(m) : RegistrationLines(m)[i].check = "ok"
      /\ Bytes(m) = Titled(m.kind, Joined(RegistrationLines(m)))
  BY <1>1, CanonicalReads DEF Titled
<1>3. Fit(RegistrationLines(m))
  BY <1>2, RegistrationFits
<1>. QED
  BY <1>2, <1>3, JoinedIsText

LEMMA IntentBytes ==
    ASSUME NEW m \in IntentMessage, Bytes(m) # Refused
    PROVE  /\ \A i \in DOMAIN IntentLines(m) : IntentLines(m)[i].check = "ok"
           /\ Bytes(m) = Titled(m.kind, Joined(IntentLines(m)))
           /\ Joined(IntentLines(m)) \in Seq(Piece)
<1>1. Bytes(m) = Canonical(TitleOf(m.kind), IntentLines(m))
  BY BytesOfKind DEF Message
<1>2. /\ \A i \in DOMAIN IntentLines(m) : IntentLines(m)[i].check = "ok"
      /\ Bytes(m) = Titled(m.kind, Joined(IntentLines(m)))
  BY <1>1, CanonicalReads DEF Titled
<1>3. Fit(IntentLines(m))
  BY <1>2, IntentFits
<1>. QED
  BY <1>2, <1>3, JoinedIsText

LEMMA TicketBytes ==
    ASSUME NEW m \in TicketMessage, Bytes(m) # Refused
    PROVE  /\ \A i \in DOMAIN TicketLines(m) : TicketLines(m)[i].check = "ok"
           /\ Bytes(m) = Titled(m.kind, Joined(TicketLines(m)))
           /\ Joined(TicketLines(m)) \in Seq(Piece)
<1>1. Bytes(m) = Canonical(TitleOf(m.kind), TicketLines(m))
  BY BytesOfKind DEF Message
<1>2. /\ \A i \in DOMAIN TicketLines(m) : TicketLines(m)[i].check = "ok"
      /\ Bytes(m) = Titled(m.kind, Joined(TicketLines(m)))
  BY <1>1, CanonicalReads DEF Titled
<1>3. Fit(TicketLines(m))
  BY <1>2, TicketFits
<1>. QED
  BY <1>2, <1>3, JoinedIsText

LEMMA RotationBytes ==
    ASSUME NEW m \in RotationMessage, Bytes(m) # Refused
    PROVE  /\ \A i \in DOMAIN RotationLines(m) : RotationLines(m)[i].check = "ok"
           /\ Bytes(m) = Titled(m.kind, Joined(RotationLines(m)))
           /\ Joined(RotationLines(m)) \in Seq(Piece)
<1>1. Bytes(m) = Canonical(TitleOf(m.kind), RotationLines(m))
  BY BytesOfKind DEF Message
<1>2. /\ \A i \in DOMAIN RotationLines(m) : RotationLines(m)[i].check = "ok"
      /\ Bytes(m) = Titled(m.kind, Joined(RotationLines(m)))
  BY <1>1, CanonicalReads DEF Titled
<1>3. Fit(RotationLines(m))
  BY <1>2, RotationFits
<1>. QED
  BY <1>2, <1>3, JoinedIsText

LEMMA ReceiptBytes ==
    ASSUME NEW m \in ReceiptMessage, Bytes(m) # Refused
    PROVE  /\ \A i \in DOMAIN ReceiptLines(m) : ReceiptLines(m)[i].check = "ok"
           /\ Bytes(m) = Titled(m.kind, Joined(ReceiptLines(m)))
           /\ Joined(ReceiptLines(m)) \in Seq(Piece)
<1>1. Bytes(m) = Canonical(TitleOf(m.kind), ReceiptLines(m))
  BY BytesOfKind DEF Message
<1>2. /\ \A i \in DOMAIN ReceiptLines(m) : ReceiptLines(m)[i].check = "ok"
      /\ Bytes(m) = Titled(m.kind, Joined(ReceiptLines(m)))
  BY <1>1, CanonicalReads DEF Titled
<1>3. Fit(ReceiptLines(m))
  BY <1>2, ReceiptFits
<1>. QED
  BY <1>2, <1>3, JoinedIsText

LEMMA DecisionRequestBytes ==
    ASSUME NEW m \in DecisionRequestMessage, Bytes(m) # Refused
    PROVE  /\ \A i \in DOMAIN DecisionRequestLines(m) : DecisionRequestLines(m)[i].check = "ok"
           /\ Bytes(m) = Titled(m.kind, Joined(DecisionRequestLines(m)))
           /\ Joined(DecisionRequestLines(m)) \in Seq(Piece)
<1>1. Bytes(m) = Canonical(TitleOf(m.kind), DecisionRequestLines(m))
  BY BytesOfKind DEF Message
<1>2. /\ \A i \in DOMAIN DecisionRequestLines(m) : DecisionRequestLines(m)[i].check = "ok"
      /\ Bytes(m) = Titled(m.kind, Joined(DecisionRequestLines(m)))
  BY <1>1, CanonicalReads DEF Titled
<1>3. Fit(DecisionRequestLines(m))
  BY <1>2, DecisionRequestFits
<1>. QED
  BY <1>2, <1>3, JoinedIsText

LEMMA DecisionResponseBytes ==
    ASSUME NEW m \in DecisionResponseMessage, Bytes(m) # Refused
    PROVE  /\ \A i \in DOMAIN DecisionResponseLines(m) : DecisionResponseLines(m)[i].check = "ok"
           /\ Bytes(m) = Titled(m.kind, Joined(DecisionResponseLines(m)))
           /\ Joined(DecisionResponseLines(m)) \in Seq(Piece)
<1>1. Bytes(m) = Canonical(TitleOf(m.kind), DecisionResponseLines(m))
  BY BytesOfKind DEF Message
<1>2. /\ \A i \in DOMAIN DecisionResponseLines(m) : DecisionResponseLines(m)[i].check = "ok"
      /\ Bytes(m) = Titled(m.kind, Joined(DecisionResponseLines(m)))
  BY <1>1, CanonicalReads DEF Titled
<1>3. Fit(DecisionResponseLines(m))
  BY <1>2, DecisionResponseFits
<1>. QED
  BY <1>2, <1>3, JoinedIsText

\* No two messages share their canonical bytes, whatever their fields hold.
LEMMA BytesTellMessages ==
    ASSUME NEW m \in Message, NEW n \in Message, Bytes(m) # Refused, Bytes(m) = Bytes(n)
    PROVE  m = n
<1>1. m.kind \in Kinds /\ n.kind \in Kinds
  BY BytesOfKind
<1>2. ASSUME NEW x \in Message, Bytes(x) # Refused
      PROVE  \E body \in Seq(Piece) : Bytes(x) = Titled(x.kind, body)
  BY <1>2, RegistrationBytes, IntentBytes, TicketBytes, RotationBytes,
     ReceiptBytes, DecisionRequestBytes, DecisionResponseBytes DEF Message
<1>3. PICK a \in Seq(Piece), b \in Seq(Piece) :
        Bytes(m) = Titled(m.kind, a) /\ Bytes(n) = Titled(n.kind, b)
  BY <1>2
<1>4. m.kind = n.kind
  BY <1>1, <1>3, TitledReads
<1>5. ASSUME m \in RegistrationMessage PROVE m = n
  <2>1. n \in RegistrationMessage
    BY <1>4, <1>5 DEF Message, RegistrationMessage, IntentMessage, TicketMessage, RotationMessage,
       ReceiptMessage, DecisionRequestMessage, DecisionResponseMessage
  <2>2. Joined(RegistrationLines(m)) = Joined(RegistrationLines(n))
    <3>1. PICK c \in Seq(Piece) :
            c = Joined(RegistrationLines(m)) /\ Bytes(m) = Titled(m.kind, c)
      BY <1>5, RegistrationBytes
    <3>2. PICK d \in Seq(Piece) :
            d = Joined(RegistrationLines(n)) /\ Bytes(n) = Titled(n.kind, d)
      BY <2>1, RegistrationBytes
    <3>3. Titled(m.kind, c) = Titled(n.kind, d)
      BY <3>1, <3>2
    <3>4. c = d
      BY <1>1, <3>3, TitledReads
    <3>. QED
      BY <3>1, <3>2, <3>4
  <2>. QED
    BY <1>4, <1>5, <2>1, <2>2, RegistrationBytes, RegistrationReads
<1>6. ASSUME m \in IntentMessage PROVE m = n
  <2>1. n \in IntentMessage
    BY <1>4, <1>6 DEF Message, RegistrationMessage, IntentMessage, TicketMessage, RotationMessage,
       ReceiptMessage, DecisionRequestMessage, DecisionResponseMessage
  <2>2. Joined(IntentLines(m)) = Joined(IntentLines(n))
    <3>1. PICK c \in Seq(Piece) :
            c = Joined(IntentLines(m)) /\ Bytes(m) = Titled(m.kind, c)
      BY <1>6, IntentBytes
    <3>2. PICK d \in Seq(Piece) :
            d = Joined(IntentLines(n)) /\ Bytes(n) = Titled(n.kind, d)
      BY <2>1, IntentBytes
    <3>3. Titled(m.kind, c) = Titled(n.kind, d)
      BY <3>1, <3>2
    <3>4. c = d
      BY <1>1, <3>3, TitledReads
    <3>. QED
      BY <3>1, <3>2, <3>4
  <2>. QED
    BY <1>4, <1>6, <2>1, <2>2, IntentBytes, IntentReads
<1>7. ASSUME m \in TicketMessage PROVE m = n
  <2>1. n \in TicketMessage
    BY <1>4, <1>7 DEF Message, RegistrationMessage, IntentMessage, TicketMessage, RotationMessage,
       ReceiptMessage, DecisionRequestMessage, DecisionResponseMessage
  <2>2. Joined(TicketLines(m)) = Joined(TicketLines(n))
    <3>1. PICK c \in Seq(Piece) :
            c = Joined(TicketLines(m)) /\ Bytes(m) = Titled(m.kind, c)
      BY <1>7, TicketBytes
    <3>2. PICK d \in Seq(Piece) :
            d = Joined(TicketLines(n)) /\ Bytes(n) = Titled(n.kind, d)
      BY <2>1, TicketBytes
    <3>3. Titled(m.kind, c) = Titled(n.kind, d)
      BY <3>1, <3>2
    <3>4. c = d
      BY <1>1, <3>3, TitledReads
    <3>. QED
      BY <3>1, <3>2, <3>4
  <2>. QED
    BY <1>4, <1>7, <2>1, <2>2, TicketBytes, TicketReads
<1>8. ASSUME m \in RotationMessage PROVE m = n
  <2>1. n \in RotationMessage
    BY <1>4, <1>8 DEF Message, RegistrationMessage, IntentMessage, TicketMessage, RotationMessage,
       ReceiptMessage, DecisionRequestMessage, DecisionResponseMessage
  <2>2. Joined(RotationLines(m)) = Joined(RotationLines(n))
    <3>1. PICK c \in Seq(Piece) :
            c = Joined(RotationLines(m)) /\ Bytes(m) = Titled(m.kind, c)
      BY <1>8, RotationBytes
    <3>2. PICK d \in Seq(Piece) :
            d = Joined(RotationLines(n)) /\ Bytes(n) = Titled(n.kind, d)
      BY <2>1, RotationBytes
    <3>3. Titled(m.kind, c) = Titled(n.kind, d)
      BY <3>1, <3>2
    <3>4. c = d
      BY <1>1, <3>3, TitledReads
    <3>. QED
      BY <3>1, <3>2, <3>4
  <2>. QED
    BY <1>4, <1>8, <2>1, <2>2, RotationBytes, RotationReads
<1>9. ASSUME m \in ReceiptMessage PROVE m = n
  <2>1. n \in ReceiptMessage
    BY <1>4, <1>9 DEF Message, RegistrationMessage, IntentMessage, TicketMessage, RotationMessage,
       ReceiptMessage, DecisionRequestMessage, DecisionResponseMessage
  <2>2. Joined(ReceiptLines(m)) = Joined(ReceiptLines(n))
    <3>1. PICK c \in Seq(Piece) :
            c = Joined(ReceiptLines(m)) /\ Bytes(m) = Titled(m.kind, c)
      BY <1>9, ReceiptBytes
    <3>2. PICK d \in Seq(Piece) :
            d = Joined(ReceiptLines(n)) /\ Bytes(n) = Titled(n.kind, d)
      BY <2>1, ReceiptBytes
    <3>3. Titled(m.kind, c) = Titled(n.kind, d)
      BY <3>1, <3>2
    <3>4. c = d
      BY <1>1, <3>3, TitledReads
    <3>. QED
      BY <3>1, <3>2, <3>4
  <2>. QED
    BY <1>4, <1>9, <2>1, <2>2, ReceiptBytes, ReceiptReads
<1>10. ASSUME m \in DecisionRequestMessage PROVE m = n
  <2>1. n \in DecisionRequestMessage
    BY <1>4, <1>10 DEF Message, RegistrationMessage, IntentMessage, TicketMessage, RotationMessage,
       ReceiptMessage, DecisionRequestMessage, DecisionResponseMessage
  <2>2. Joined(DecisionRequestLines(m)) = Joined(DecisionRequestLines(n))
    <3>1. PICK c \in Seq(Piece) :
            c = Joined(DecisionRequestLines(m)) /\ Bytes(m) = Titled(m.kind, c)
      BY <1>10, DecisionRequestBytes
    <3>2. PICK d \in Seq(Piece) :
            d = Joined(DecisionRequestLines(n)) /\ Bytes(n) = Titled(n.kind, d)
      BY <2>1, DecisionRequestBytes
    <3>3. Titled(m.kind, c) = Titled(n.kind, d)
      BY <3>1, <3>2
    <3>4. c = d
      BY <1>1, <3>3, TitledReads
    <3>. QED
      BY <3>1, <3>2, <3>4
  <2>. QED
    BY <1>4, <1>10, <2>1, <2>2, DecisionRequestBytes, DecisionRequestReads
<1>11. ASSUME m \in DecisionResponseMessage PROVE m = n
  <2>1. n \in DecisionResponseMessage
    BY <1>4, <1>11 DEF Message, RegistrationMessage, IntentMessage, TicketMessage, RotationMessage,
       ReceiptMessage, DecisionRequestMessage, DecisionResponseMessage
  <2>2. Joined(DecisionResponseLines(m)) = Joined(DecisionResponseLines(n))
    <3>1. PICK c \in Seq(Piece) :
            c = Joined(DecisionResponseLines(m)) /\ Bytes(m) = Titled(m.kind, c)
      BY <1>11, DecisionResponseBytes
    <3>2. PICK d \in Seq(Piece) :
            d = Joined(DecisionResponseLines(n)) /\ Bytes(n) = Titled(n.kind, d)
      BY <2>1, DecisionResponseBytes
    <3>3. Titled(m.kind, c) = Titled(n.kind, d)
      BY <3>1, <3>2
    <3>4. c = d
      BY <1>1, <3>3, TitledReads
    <3>. QED
      BY <3>1, <3>2, <3>4
  <2>. QED
    BY <1>4, <1>11, <2>1, <2>2, DecisionResponseBytes, DecisionResponseReads
<1>. QED
  BY <1>5, <1>6, <1>7, <1>8, <1>9, <1>10, <1>11 DEF Message

\* No two messages share canonical bytes: whoever verifies a signature over
\* them knows the kind, the version and every field of what was signed, for all
\* texts a field may hold, also those that validate_ascii_line turns away.
THEOREM CanonicalBytesAreInjective ==
    \A m, n \in Message : Bytes(m) # Refused /\ Bytes(m) = Bytes(n) => m = n
BY BytesTellMessages

-----------------------------------------------------------------------------
(* What a verified message and a bridged chain rest on *)

\* What grows only: signatures, tokens and the histories.
Growing ==
    signed \subseteq signed' /\ tokens \subseteq tokens'
      /\ enrolled \subseteq enrolled' /\ served \subseteq served'

LEMMA NothingForgotten ==
    ASSUME [Next]_vars
    PROVE  Growing
<1>1. WorldSteps => Growing
  BY DEF WorldSteps, Sign, SignHop, PublishCard, ChangeRecords, Register, Bridge, Growing
<1>2. ASSUME NEW c \in PeerJobs, Resolve(c) \/ Connect(c) \/ ReadCard(c) PROVE Growing
  BY <1>2 DEF Resolve, Connect, ReadCard, Growing
<1>3. ASSUME NEW c \in PeerJobs, NEW m, NEW sig, NEW label, VerifyPeer(c, m, sig, label)
      PROVE  Growing
  BY <1>3 DEF VerifyPeer, Growing
<1>4. NextPeers => Growing
  BY <1>1, <1>2, <1>3, PeerSteps
<1>5. UNCHANGED peerCalls => Growing
  BY DEF peerCalls, Growing
<1>. QED
  BY <1>4, <1>5 DEF Next, Tick, vars

LEMMA SpeaksStill ==
    ASSUME Growing, NEW k, NEW p, SpeaksFor(k, p)
    PROVE  SpeaksFor(k, p)'
BY DEF Growing, SpeaksFor

\* Every signature is over a message whose bytes the wire functions let through.
SignedOK ==
    \A sig \in signed : /\ sig = [key |-> sig.key, m |-> sig.m]
                        /\ sig.m \in Messages /\ Bytes(sig.m) # Refused

\* Every key held speaks for its peer.
KnownOK ==
    /\ known = [p \in Peers |-> known[p]]
    /\ \A p \in Peers : known[p] # NoKey => SpeaksFor(known[p], p)

\* Every card that can be fetched is on record as served.
CardsOK ==
    /\ cards = [h \in Hosts |-> cards[h]]
    /\ \A h \in Hosts : cards[h] # NoCard => [host |-> h, card |-> cards[h]] \in served

\* Every fetch under way is for a did:web peer, and a body came from its host.
FetchOK(x, sigs, bodies) ==
    /\ x.pc \in {"resolving", "connecting", "fetched"} =>
          /\ x.peer \in Peers /\ HasWellKnownUrl(x.peer)
          /\ x.sig \in sigs /\ x.m \in Messages /\ Bytes(x.m) # Refused
    /\ x.pc = "fetched" => [host |-> WellKnownHost(x.peer), card |-> x.body] \in bodies

PeersInv ==
    /\ ChecksTyped
    /\ SignedOK
    /\ KnownOK
    /\ CardsOK
    /\ \A c \in PeerJobs : FetchOK(check[c], signed, served)
    /\ AcceptedWasSigned
    /\ HopsWereSigned

LEMMA PeersInvInit == Init => PeersInv
<1>. SUFFICES ASSUME Init PROVE PeersInv
  OBVIOUS
<1>1. SignedOK /\ AcceptedWasSigned /\ HopsWereSigned
  BY DEF Init, InitPeers, SignedOK, AcceptedWasSigned, HopsWereSigned
<1>2. KnownOK /\ CardsOK
  BY DEF Init, InitPeers, KnownOK, CardsOK
<1>3. \A c \in PeerJobs : FetchOK(check[c], signed, served)
  <2>1. \A c \in PeerJobs : check[c].pc = "new"
    BY DEF Init, InitPeers, Idle
  <2>. QED
    BY <2>1 DEF FetchOK
<1>. QED
  BY <1>1, <1>2, <1>3, ChecksTypedInit DEF PeersInv

LEMMA FetchStillOK ==
    ASSUME Growing, NEW x, FetchOK(x, signed, served)
    PROVE  FetchOK(x, signed', served')
BY DEF Growing, FetchOK

\* Parts that a step leaves alone.
LEMMA KnownStays ==
    ASSUME KnownOK, Growing, known' = known
    PROVE  KnownOK'
BY SpeaksStill DEF KnownOK

LEMMA CardsStay ==
    ASSUME CardsOK, Growing, cards' = cards
    PROVE  CardsOK'
BY DEF CardsOK, Growing

LEMMA ChecksStay ==
    ASSUME ChecksTyped, \A c \in PeerJobs : FetchOK(check[c], signed, served), Growing, check' = check
    PROVE  ChecksTyped' /\ (\A c \in PeerJobs : FetchOK(check[c], signed, served))'
<1>1. ChecksTyped'
  BY DEF ChecksTyped
<1>2. ASSUME NEW c \in PeerJobs PROVE FetchOK(check'[c], signed', served')
  BY FetchStillOK
<1>. QED
  BY <1>1, <1>2

LEMMA AcceptedStays ==
    ASSUME AcceptedWasSigned, Growing, accepted' = accepted
    PROVE  AcceptedWasSigned'
BY SpeaksStill DEF AcceptedWasSigned, Growing

LEMMA HopsStay ==
    ASSUME HopsWereSigned, Growing, bridged' = bridged
    PROVE  HopsWereSigned'
BY SpeaksStill DEF HopsWereSigned, Growing

LEMMA SignedStays ==
    ASSUME SignedOK, signed' = signed
    PROVE  SignedOK'
BY DEF SignedOK

\* A card that passes fetch_and_verify_card speaks for the ids of its host.
LEMMA CardSpeaks ==
    ASSUME NEW p, HasWellKnownUrl(p), NEW card,
           [host |-> WellKnownHost(p), card |-> card] \in served, CardKey(card) # NoKey
    PROVE  SpeaksFor(CardKey(card), p)
<1>1. PICK k : k = CardKey(card)
  OBVIOUS
<1>2. /\ k = card.payload.key /\ card.payload.agent_id = card.header.kid
      /\ Verifies(card, k)
  BY <1>1 DEF CardKey
<1>3. card.sig.key = k
  BY <1>2 DEF Verifies
<1>4. PICK s \in served : s.host = WellKnownHost(p) /\ s.card = card
  OBVIOUS
<1>. QED
  BY <1>1, <1>2, <1>3, <1>4 DEF SpeaksFor

\* What is accepted was signed: two messages with the same bytes are the same.
LEMMA DecideAccepts ==
    ASSUME AcceptedWasSigned, SignedOK, Growing, NEW c, NEW p, NEW m \in Messages, NEW key,
           Bytes(m) # Refused, NEW sig \in signed, SpeaksFor(key, p)', Decide(c, p, m, sig, key)
    PROVE  AcceptedWasSigned'
<1>1. CASE accepted' = accepted
  BY <1>1, AcceptedStays
<1>2. CASE /\ sig.key = key /\ Bytes(sig.m) = Bytes(m)
           /\ accepted' = accepted \cup {[peer |-> p, m |-> m, key |-> key]}
  <2>1. sig = [key |-> sig.key, m |-> sig.m] /\ sig.m \in Messages /\ Messages \subseteq Message
    BY PeersAssumption DEF SignedOK
  <2>2. sig.m = m
    BY <1>2, <2>1, BytesTellMessages
  <2>3. [key |-> key, m |-> m] \in signed'
    BY <1>2, <2>1, <2>2 DEF Growing
  <2>4. ASSUME NEW a \in accepted' PROVE [key |-> a.key, m |-> a.m] \in signed' /\ SpeaksFor(a.key, a.peer)'
    <3>1. CASE a \in accepted
      BY <3>1, SpeaksStill DEF AcceptedWasSigned, Growing
    <3>2. CASE a = [peer |-> p, m |-> m, key |-> key]
      <4>1. a.key = key /\ a.m = m /\ a.peer = p
        BY <3>2
      <4>. QED
        BY <2>3, <4>1
    <3>. QED
      BY <1>2, <3>1, <3>2
  <2>. QED
    BY <2>4 DEF AcceptedWasSigned
<1>. QED
  BY <1>1, <1>2 DEF Decide

\* A step of one call of verify_peer.
LEMMA OneCheckMoves ==
    ASSUME PeersInv, Growing, NEW c \in PeerJobs, ChecksTyped',
           \A d \in PeerJobs \ {c} : check'[d] = check[d],
           FetchOK(check'[c], signed', served')
    PROVE  (\A d \in PeerJobs : FetchOK(check[d], signed, served))'
<1>1. ASSUME NEW d \in PeerJobs PROVE FetchOK(check'[d], signed', served')
  <2>1. CASE d = c
    BY <2>1
  <2>2. CASE d # c
    <3>1. FetchOK(check[d], signed, served) /\ check'[d] = check[d]
      BY <2>2 DEF PeersInv
    <3>. QED
      BY <3>1, FetchStillOK
  <2>. QED
    BY <2>1, <2>2
<1>. QED
  BY <1>1

\* A key is stored for a peer that it speaks for.
LEMMA StoreKeepsKnown ==
    ASSUME KnownOK, Growing, NEW p \in Peers, NEW k, known' = [known EXCEPT ![p] = k],
           SpeaksFor(k, p)'
    PROVE  KnownOK'
<1>1. DOMAIN known = Peers
  BY DEF KnownOK
<1>2. known'[p] = k /\ \A q \in Peers \ {p} : known'[q] = known[q]
  BY <1>1
<1>3. known' = [q \in Peers |-> known'[q]]
  BY <1>1
<1>4. ASSUME NEW q \in Peers
      PROVE  \E x : x = known'[q] /\ (x # NoKey => SpeaksFor(x, q)')
  <2>1. CASE q = p
    BY <1>2, <2>1
  <2>2. CASE q # p
    <3>1. known'[q] = known[q] /\ (known[q] # NoKey => SpeaksFor(known[q], q))
      BY <1>2, <2>2 DEF KnownOK
    <3>2. PICK x : x = known[q]
      OBVIOUS
    <3>. QED
      BY <3>1, <3>2, SpeaksStill
  <2>. QED
    BY <2>1, <2>2
<1>5. (\A q \in Peers : known[q] # NoKey => SpeaksFor(known[q], q))'
  <2>1. ASSUME NEW q \in Peers PROVE (known[q] # NoKey => SpeaksFor(known[q], q))'
    <3>1. PICK x : x = known'[q] /\ (x # NoKey => SpeaksFor(x, q)')
      BY <1>4
    <3>. QED
      BY <3>1 DEF SpeaksFor
  <2>. QED
    BY <2>1
<1>. QED
  BY <1>3, <1>5 DEF KnownOK

LEMMA WorldKeepsPeers ==
    ASSUME PeersInv, Growing, UNCHANGED <<check, accepted>>,
           \/ \E pair \in Signers : Sign(pair[1], pair[2])
           \/ \E plan \in HopPlans : SignHop(plan)
           \/ \E plan \in CardPlans : PublishCard(plan)
           \/ \E h \in Hosts : \E answer \in Answers[h] : ChangeRecords(h, answer)
           \/ \E pair \in Enrolments : Register(pair[1], pair[2])
    PROVE  PeersInv'
<1>1. ChecksTyped' /\ (\A c \in PeerJobs : FetchOK(check[c], signed, served))'
  BY ChecksStay DEF PeersInv
<1>2. AcceptedWasSigned'
  BY AcceptedStays DEF PeersInv
<1>3. HopsWereSigned'
  <2>1. bridged' = bridged
    BY DEF Sign, SignHop, PublishCard, ChangeRecords, Register
  <2>. QED
    BY <2>1, HopsStay DEF PeersInv
<1>4. SignedOK'
  <2>1. CASE signed' = signed
    BY <2>1, SignedStays DEF PeersInv
  <2>2. CASE \E pair \in Signers : Sign(pair[1], pair[2])
    <3>1. PICK pair \in Signers : Sign(pair[1], pair[2])
      BY <2>2
    <3>2. PICK k, m : k = pair[1] /\ m = pair[2]
      OBVIOUS
    <3>3. m \in Messages
      BY <3>2, PeersAssumption
    <3>4. PICK sig : sig = [key |-> k, m |-> m]
      OBVIOUS
    <3>5. sig.key = k /\ sig.m = m
      BY <3>4
    <3>6. signed' = signed \cup {sig} /\ Bytes(m) # Refused
      BY <3>1, <3>2, <3>4 DEF Sign
    <3>. QED
      BY <3>3, <3>4, <3>5, <3>6 DEF PeersInv, SignedOK
  <2>. QED
    BY <2>1, <2>2 DEF SignHop, PublishCard, ChangeRecords, Register
<1>5. KnownOK'
  <2>1. CASE known' = known
    BY <2>1, KnownStays DEF PeersInv
  <2>2. CASE \E pair \in Enrolments : Register(pair[1], pair[2])
    <3>1. PICK pair \in Enrolments : Register(pair[1], pair[2])
      BY <2>2
    <3>2. PICK p \in Peers, k \in Keys : p = pair[1] /\ k = pair[2]
      BY PeersAssumption
    <3>3. known' = [known EXCEPT ![p] = k] /\ <<p, k>> \in enrolled'
      BY <3>1, <3>2 DEF Register
    <3>4. SpeaksFor(k, p)'
      BY <3>3 DEF SpeaksFor
    <3>. QED
      BY <3>3, <3>4, StoreKeepsKnown DEF PeersInv
  <2>. QED
    BY <2>1, <2>2 DEF Sign, SignHop, PublishCard, ChangeRecords
<1>6. CardsOK'
  <2>1. CASE cards' = cards
    BY <2>1, CardsStay DEF PeersInv
  <2>2. CASE \E plan \in CardPlans : PublishCard(plan)
    <3>1. PICK plan \in CardPlans : PublishCard(plan)
      BY <2>2
    <3>2. PICK h \in Hosts : h = plan.host
      BY ClaimsAssumption
    <3>3. PICK card : card = SignToken([agent_id |-> plan.agent, key |-> plan.key], plan.signer, plan.kid)
      OBVIOUS
    <3>4. cards' = [cards EXCEPT ![h] = card] /\ served' = served \cup {[host |-> h, card |-> card]}
      BY <3>1, <3>2, <3>3 DEF PublishCard
    <3>5. DOMAIN cards = Hosts
      BY DEF PeersInv, CardsOK
    <3>6. cards' = [g \in Hosts |-> cards'[g]] /\ cards'[h] = card
      BY <3>4, <3>5
    <3>7. \A g \in Hosts \ {h} : cards'[g] = cards[g]
      BY <3>4, <3>5
    <3>. QED
      BY <3>4, <3>6, <3>7 DEF PeersInv, CardsOK
  <2>. QED
    BY <2>1, <2>2 DEF Sign, SignHop, ChangeRecords, Register
<1>. QED
  BY <1>1, <1>2, <1>3, <1>4, <1>5, <1>6 DEF PeersInv

LEMMA ResolveKeepsPeers ==
    ASSUME PeersInv, Growing, NEW c \in PeerJobs, Resolve(c)
    PROVE  PeersInv'
<1>1. /\ signed' = signed /\ known' = known /\ cards' = cards /\ accepted' = accepted
      /\ bridged' = bridged
  BY DEF Resolve, Refuse
<1>2. SignedOK' /\ KnownOK' /\ CardsOK' /\ AcceptedWasSigned' /\ HopsWereSigned'
  BY <1>1, SignedStays, KnownStays, CardsStay, AcceptedStays, HopsStay DEF PeersInv
<1>3. /\ ChecksTyped' /\ check'[c].pc \in {"refused", "connecting"}
      /\ \A d \in PeerJobs \ {c} : check'[d] = check[d]
      /\ check'[c].pc = "connecting" =>
            /\ check'[c].peer = check[c].peer /\ check'[c].m = check[c].m
            /\ check'[c].sig = check[c].sig
  BY ResolveMoves DEF PeersInv
<1>4. FetchOK(check'[c], signed', served')
  <2>1. check[c].pc = "resolving" /\ FetchOK(check[c], signed, served)
    BY DEF Resolve, PeersInv
  <2>. QED
    BY <1>1, <1>3, <2>1 DEF FetchOK
<1>. QED
  BY <1>2, <1>3, <1>4, OneCheckMoves DEF PeersInv

LEMMA ConnectKeepsPeers ==
    ASSUME PeersInv, Growing, NEW c \in PeerJobs, Connect(c)
    PROVE  PeersInv'
<1>1. /\ signed' = signed /\ known' = known /\ cards' = cards /\ accepted' = accepted
      /\ bridged' = bridged
  BY DEF Connect, Refuse
<1>2. SignedOK' /\ KnownOK' /\ CardsOK' /\ AcceptedWasSigned' /\ HopsWereSigned'
  BY <1>1, SignedStays, KnownStays, CardsStay, AcceptedStays, HopsStay DEF PeersInv
<1>3. /\ ChecksTyped' /\ check'[c].pc \in {"refused", "fetched"}
      /\ \A d \in PeerJobs \ {c} : check'[d] = check[d]
      /\ check'[c].pc = "fetched" =>
            /\ check'[c].peer = check[c].peer /\ check'[c].m = check[c].m
            /\ check'[c].sig = check[c].sig
            /\ check'[c].body = cards[WellKnownHost(check[c].peer)]
            /\ cards[WellKnownHost(check[c].peer)] # NoCard
  BY ConnectMoves DEF PeersInv
<1>4. FetchOK(check'[c], signed', served')
  <2>1. check[c].pc = "connecting" /\ FetchOK(check[c], signed, served)
    BY DEF Connect, PeersInv
  <2>2. PICK h : h = WellKnownHost(check[c].peer)
    OBVIOUS
  <2>3. h \in Hosts
    BY <2>1, <2>2, ClaimsAssumption DEF FetchOK
  <2>4. cards[h] # NoCard => [host |-> h, card |-> cards[h]] \in served'
    BY <2>3 DEF PeersInv, CardsOK, Growing
  <2>. QED
    BY <1>1, <1>3, <2>1, <2>2, <2>4 DEF FetchOK
<1>. QED
  BY <1>2, <1>3, <1>4, OneCheckMoves DEF PeersInv

LEMMA ReadCardKeepsPeers ==
    ASSUME PeersInv, Growing, NEW c \in PeerJobs, ReadCard(c)
    PROVE  PeersInv'
<1>1. signed' = signed /\ cards' = cards /\ bridged' = bridged /\ check[c].pc = "fetched"
  BY DEF ReadCard
<1>2. SignedOK' /\ CardsOK' /\ HopsWereSigned'
  BY <1>1, SignedStays, CardsStay, HopsStay DEF PeersInv
<1>3. /\ ChecksTyped' /\ check'[c].pc \in {"accepted", "refused"}
      /\ \A d \in PeerJobs \ {c} : check'[d] = check[d]
  BY ReadCardMoves DEF PeersInv
<1>4. FetchOK(check'[c], signed', served')
  BY <1>3 DEF FetchOK
<1>5. FetchOK(check[c], signed, served)
  BY DEF PeersInv
<1>6. PICK p, m, sig, body :
        p = check[c].peer /\ m = check[c].m /\ sig = check[c].sig /\ body = check[c].body
  OBVIOUS
<1>7. /\ p \in Peers /\ HasWellKnownUrl(p) /\ m \in Messages /\ Bytes(m) # Refused
      /\ sig \in signed /\ [host |-> WellKnownHost(p), card |-> body] \in served
  BY <1>1, <1>5, <1>6 DEF FetchOK
<1>8. CASE Refuse(c) /\ known' = known
  <2>1. accepted' = accepted
    BY <1>8 DEF Refuse
  <2>2. KnownOK' /\ AcceptedWasSigned'
    BY <1>8, <2>1, KnownStays, AcceptedStays DEF PeersInv
  <2>. QED
    BY <1>2, <1>3, <1>4, <2>2, OneCheckMoves DEF PeersInv
<1>9. CASE \E k : /\ k = CardKey(body) /\ k # NoKey /\ known' = [known EXCEPT ![p] = k]
                  /\ Decide(c, p, m, sig, k)
  <2>1. PICK k : /\ k = CardKey(body) /\ k # NoKey /\ known' = [known EXCEPT ![p] = k]
                 /\ Decide(c, p, m, sig, k)
    BY <1>9
  <2>2. SpeaksFor(k, p)
    BY <1>7, <2>1, CardSpeaks
  <2>3. SpeaksFor(k, p)'
    BY <2>2, SpeaksStill
  <2>4. KnownOK'
    BY <1>7, <2>1, <2>3, StoreKeepsKnown DEF PeersInv
  <2>5. AcceptedWasSigned'
    BY <1>7, <2>1, <2>3, DecideAccepts DEF PeersInv
  <2>. QED
    BY <1>2, <1>3, <1>4, <2>4, <2>5, OneCheckMoves DEF PeersInv
<1>. QED
  BY <1>6, <1>8, <1>9 DEF ReadCard

LEMMA VerifyKeepsPeers ==
    ASSUME PeersInv, Growing, NEW c \in PeerJobs, NEW m \in Inbox[c], NEW sig \in signed, NEW label,
           VerifyPeer(c, m, sig, label)
    PROVE  PeersInv'
<1>1. signed' = signed /\ cards' = cards /\ bridged' = bridged /\ Bytes(m) # Refused
  BY DEF VerifyPeer
<1>2. SignedOK' /\ CardsOK' /\ HopsWereSigned'
  BY <1>1, SignedStays, CardsStay, HopsStay DEF PeersInv
<1>3. m \in Messages
  BY PeersAssumption
<1>4. PICK p \in Peers : p = Claimed(m)
  BY <1>3, ClaimsAssumption
<1>5. /\ ChecksTyped' /\ check'[c].pc \in {"accepted", "refused", "resolving"}
      /\ \A d \in PeerJobs \ {c} : check'[d] = check[d]
      /\ check'[c].pc = "resolving" =>
            /\ check'[c].peer = p /\ check'[c].m = m /\ check'[c].sig = sig
            /\ HasWellKnownUrl(p)
  BY <1>4, VerifyMoves DEF PeersInv
<1>6. FetchOK(check'[c], signed', served')
  BY <1>1, <1>3, <1>5 DEF FetchOK
<1>7. ASSUME KnownOK', AcceptedWasSigned' PROVE PeersInv'
  BY <1>2, <1>5, <1>6, <1>7, OneCheckMoves DEF PeersInv
<1>8. CASE known' = known /\ accepted' = accepted
  BY <1>7, <1>8, KnownStays, AcceptedStays DEF PeersInv
<1>9. CASE known' = known /\ known[p] # NoKey /\ Decide(c, p, m, sig, known[p])
  <2>1. PICK k : k = known[p] /\ SpeaksFor(k, p)
    BY <1>9 DEF PeersInv, KnownOK
  <2>2. SpeaksFor(k, p)'
    BY <2>1, SpeaksStill
  <2>3. AcceptedWasSigned'
    BY <1>1, <1>3, <1>9, <2>1, <2>2, DecideAccepts DEF PeersInv
  <2>. QED
    BY <1>7, <1>9, <2>3, KnownStays DEF PeersInv
<1>10. CASE /\ known' = [known EXCEPT ![p] = decode_pubkey(p)]
            /\ Decide(c, p, m, sig, decode_pubkey(p))
  <2>1. PICK k : k = decode_pubkey(p)
    OBVIOUS
  <2>2. SpeaksFor(k, p)'
    BY <2>1 DEF SpeaksFor
  <2>3. KnownOK'
    BY <1>10, <2>1, <2>2, StoreKeepsKnown DEF PeersInv
  <2>4. AcceptedWasSigned'
    BY <1>1, <1>3, <1>10, <2>1, <2>2, DecideAccepts DEF PeersInv
  <2>. QED
    BY <1>7, <2>3, <2>4
<1>. QED
  BY <1>4, <1>8, <1>9, <1>10 DEF VerifyPeer, Refuse

\* As many senders as hops, when no agent sends twice.
LEMMA SendersCounted ==
    ASSUME NEW n \in 1 .. 3, NEW f, \A i, j \in 1 .. n : f[i] = f[j] => i = j,
           NEW S, \A x : x \in S <=> \E i \in 1 .. n : x = f[i]
    PROVE  Cardinality(S) = n
<1>1. PICK A : A = {f[1]} /\ Cardinality(A) = 1 /\ IsFiniteSet(A)
  BY FS_Singleton
<1>2. CASE n = 1
  <2>1. S = A
    BY <1>1, <1>2
  <2>. QED
    BY <1>1, <1>2, <2>1
<1>3. PICK B : B = A \cup {f[2]}
  OBVIOUS
<1>4. n >= 2 => Cardinality(B) = 2 /\ IsFiniteSet(B)
  <2>1. n >= 2 => f[2] \notin A
    BY <1>1
  <2>2. IsFiniteSet(B) /\ Cardinality(B) = IF f[2] \in A THEN Cardinality(A) ELSE Cardinality(A) + 1
    BY <1>1, <1>3, FS_AddElement
  <2>. QED
    BY <1>1, <2>1, <2>2
<1>5. CASE n = 2
  <2>1. S = B
    BY <1>1, <1>3, <1>5
  <2>. QED
    BY <1>4, <1>5, <2>1
<1>6. CASE n = 3
  <2>1. f[3] \notin B
    BY <1>1, <1>3, <1>6
  <2>2. S = B \cup {f[3]}
    BY <1>1, <1>3, <1>6
  <2>3. Cardinality(B) = 2 /\ IsFiniteSet(B)
    BY <1>4, <1>6
  <2>. QED
    BY <1>6, <2>1, <2>2, <2>3, FS_AddElement
<1>. QED
  BY <1>2, <1>5, <1>6

\* A token that verifies was made, by the key and under the kid it verifies for.
LEMMA VerifiedToken ==
    ASSUME NEW t \in tokens \cup {Unsigned}, NEW key, Verifies(t, key)
    PROVE  t \in tokens /\ t.sig.key = key /\ key # NoKey
<1>1. t.segments = 3 /\ key # NoKey /\ t.sig.key = key
  BY DEF Verifies
<1>2. Unsigned.segments = 1
  BY DEF Unsigned
<1>. QED
  BY <1>1, <1>2

LEMMA BridgeKeepsPeers ==
    ASSUME PeersInv, Growing, NEW task \in Tasks,
           NEW jws \in [DOMAIN task.hops -> tokens \cup {Unsigned}], Bridge(task, jws)
    PROVE  PeersInv'
<1>1. /\ signed' = signed /\ known' = known /\ cards' = cards /\ accepted' = accepted
      /\ check' = check /\ tokens' = tokens
  BY DEF Bridge
<1>2. SignedOK' /\ KnownOK' /\ CardsOK' /\ AcceptedWasSigned'
      /\ ChecksTyped' /\ (\A c \in PeerJobs : FetchOK(check[c], signed, served))'
  BY <1>1, SignedStays, KnownStays, CardsStay, AcceptedStays, ChecksStay DEF PeersInv
<1>3. PICK hops \in Seq([from : Text, to : Text]) : hops = task.hops
  BY PeersAssumption
<1>4. PICK n \in 1 .. 3 : n = Len(hops) /\ DOMAIN hops = 1 .. n
  BY <1>3 DEF Bridge, MaxDelegationDepth
<1>5. PICK chain : chain = [i \in 1 .. n |-> [from |-> hops[i].from, key |-> LookupKey(hops[i].from)]]
  OBVIOUS
<1>6. bridged' = bridged \cup {chain}
  BY <1>3, <1>4, <1>5 DEF Bridge
<1>7. /\ Len(chain) = n /\ DOMAIN chain = 1 .. n
      /\ \A i \in 1 .. n : chain[i].from = hops[i].from /\ chain[i].key = LookupKey(hops[i].from)
  BY <1>5
<1>8. Cardinality({chain[i].from : i \in DOMAIN chain}) = Len(chain)
  <2>0. PICK f : f = [i \in 1 .. n |-> hops[i].from]
    OBVIOUS
  <2>1. \A i, j \in 1 .. n : f[i] = f[j] => i = j
    <3>1. \A i, j \in DOMAIN hops : hops[i].from = hops[j].from => i = j
      BY <1>3 DEF Bridge
    <3>2. \A i \in 1 .. n : f[i] = hops[i].from
      BY <2>0
    <3>. QED
      BY <1>4, <3>1, <3>2
  <2>2. PICK S : S = {chain[i].from : i \in DOMAIN chain}
    OBVIOUS
  <2>3. \A x : x \in S <=> \E i \in 1 .. n : x = f[i]
    BY <1>7, <2>0, <2>2
  <2>4. Cardinality(S) = n
    BY <2>1, <2>3, SendersCounted
  <2>. QED
    BY <1>7, <2>2, <2>4
<1>9. ASSUME NEW i \in 1 .. n
      PROVE  /\ SpeaksFor(chain[i].key, chain[i].from)'
             /\ \E t \in tokens' : t.sig.key = chain[i].key /\ t.header.kid = chain[i].from
  <2>1. PICK p, k : p = hops[i].from /\ k = LookupKey(p)
    OBVIOUS
  <2>2. PICK key : /\ Verifies(jws[i], key)
                   /\ key = IF jws[i].header.kid = p THEN k ELSE NoKey
    BY <1>3, <1>4, <2>1 DEF Bridge
  <2>3. jws[i] \in tokens \cup {Unsigned}
    BY <1>3, <1>4
  <2>4. /\ jws[i] \in tokens /\ jws[i].sig.key = k /\ jws[i].header.kid = p /\ k # NoKey
    BY <2>2, <2>3, VerifiedToken
  <2>5. SpeaksFor(k, p)
    <3>1. p \in Peers /\ ((k = known[p] /\ known[p] # NoKey) \/ k = decode_pubkey(p))
      BY <2>1, <2>4 DEF LookupKey
    <3>2. CASE k = known[p] /\ known[p] # NoKey
      BY <3>1, <3>2 DEF PeersInv, KnownOK
    <3>3. CASE k = decode_pubkey(p)
      BY <3>3 DEF SpeaksFor
    <3>. QED
      BY <3>1, <3>2, <3>3
  <2>. QED
    BY <1>1, <1>7, <2>1, <2>4, <2>5, SpeaksStill
<1>10. HopsWereSigned'
  <2>1. ASSUME NEW x \in bridged'
        PROVE  /\ Len(x) \in 1 .. 3
               /\ Cardinality({x[i].from : i \in DOMAIN x}) = Len(x)
               /\ \A i \in DOMAIN x :
                     /\ SpeaksFor(x[i].key, x[i].from)'
                     /\ \E t \in tokens' : t.sig.key = x[i].key /\ t.header.kid = x[i].from
    <3>1. CASE x = chain
      BY <1>7, <1>8, <1>9, <3>1
    <3>2. CASE x \in bridged
      BY <1>1, <3>2, SpeaksStill DEF PeersInv, HopsWereSigned
    <3>. QED
      BY <1>6, <3>1, <3>2
  <2>. QED
    BY <2>1 DEF HopsWereSigned
<1>. QED
  BY <1>2, <1>10 DEF PeersInv

LEMMA PeersInvNext ==
    ASSUME PeersInv, [Next]_vars
    PROVE  PeersInv'
<1>1. Growing
  BY NothingForgotten
<1>2. CASE NextPeers
  <2>1. CASE WorldSteps /\ UNCHANGED <<check, connected, accepted>>
    BY <1>1, <2>1, WorldKeepsPeers, BridgeKeepsPeers DEF WorldSteps
  <2>2. ASSUME NEW c \in PeerJobs,
               \/ Resolve(c) \/ Connect(c) \/ ReadCard(c)
               \/ \E m \in Inbox[c], sig \in signed, label \in {"Ed25519", "EcdsaSecp256k1"} :
                     VerifyPeer(c, m, sig, label)
        PROVE  PeersInv'
    BY <1>1, <2>2, ResolveKeepsPeers, ConnectKeepsPeers, ReadCardKeepsPeers, VerifyKeepsPeers
  <2>. QED
    BY <1>2, <2>1, <2>2, PeerSteps
<1>3. CASE UNCHANGED peerCalls
  <2>1. /\ signed' = signed /\ known' = known /\ cards' = cards /\ accepted' = accepted
        /\ check' = check /\ bridged' = bridged
    BY <1>3 DEF peerCalls
  <2>2. SignedOK' /\ KnownOK' /\ CardsOK' /\ AcceptedWasSigned' /\ HopsWereSigned'
        /\ ChecksTyped' /\ (\A c \in PeerJobs : FetchOK(check[c], signed, served))'
    BY <1>1, <2>1, SignedStays, KnownStays, CardsStay, AcceptedStays, ChecksStay, HopsStay DEF PeersInv
  <2>. QED
    BY <2>2 DEF PeersInv
<1>. QED
  BY <1>2, <1>3 DEF Next, Tick, vars

\* What verify_peer accepts was signed as it stands by a key that speaks for
\* the peer, for every set of messages, signers and hosts and however cards,
\* records and registries change beside it.
THEOREM AcceptedMessagesWereSigned == Spec => []AcceptedWasSigned
<1>1. Init => PeersInv
  BY PeersInvInit
<1>2. PeersInv /\ [Next]_vars => PeersInv'
  BY PeersInvNext
<1>3. PeersInv => AcceptedWasSigned
  BY DEF PeersInv
<1>. QED
  BY <1>1, <1>2, <1>3, PTL DEF Spec

\* Every hop of a chain that the bridge turned into an intent was signed under
\* its sender's kid by a key that speaks for the sender, at most three of them
\* and no sender twice: for all tasks and tokens.
THEOREM BridgedHopsWereSigned == Spec => []HopsWereSigned
<1>1. Init => PeersInv
  BY PeersInvInit
<1>2. PeersInv /\ [Next]_vars => PeersInv'
  BY PeersInvNext
<1>3. PeersInv => HopsWereSigned
  BY DEF PeersInv
<1>. QED
  BY <1>1, <1>2, <1>3, PTL DEF Spec
=============================================================================
