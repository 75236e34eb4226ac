----------------------------- MODULE CloverCall -----------------------------
(***************************************************************************)
(* One call of the Clover API: the merchant's access token is resolved      *)
(* once (infrastructure/clover/auth.ts), then makeRequest sends the request *)
(* with it and retries what Clover throttles, after the delay Clover asks   *)
(* for.  Time passes in ticks while a request is under way and while the    *)
(* call sleeps; the ceiling of one sleep is half the expiry skew, as the    *)
(* code's 30 and 60 seconds are.                                            *)
(***************************************************************************)
EXTENDS Integers

CONSTANTS
  MaxRetries,    \* MAX_RATE_LIMIT_RETRIES
  DefaultWait,   \* DEFAULT_RETRY_AFTER
  MaxWait,       \* MAX_RETRY_AFTER
  Skew,          \* EXPIRY_SKEW_MS
  MaxInstant     \* bound on the clock

VARIABLES
  instant,    \* the clock, from when the token is resolved
  throttled,  \* when Clover stops throttling the merchant
  asks,       \* the form of Clover's Retry-After
  expires,    \* when the access token expires, as its row says
  call,       \* where the call is
  retries,    \* retries so far
  wake,       \* when the sleep ends
  parked,     \* ticks of sleep asked for so far
  outcome     \* what the caller gets

callVars ==
  <<instant, throttled, asks, expires, call, retries, wake, parked, outcome>>

\* A number of seconds or a date, a date or a number that is past, a value that is
\* missing or does not parse.
Forms == {"seconds", "date", "past", "unusable"}

Never == MaxInstant + Skew + 1  \* a null expiry, or a static token

Init ==
  /\ instant = 0
  /\ throttled \in 0 .. MaxInstant
  /\ asks \in Forms
  /\ expires \in 1 .. Never
  /\ call = "resolve"
  /\ retries = 0
  /\ wake = 0
  /\ parked = 0
  /\ outcome = "none"

-----------------------------------------------------------------------------
Pass ==
  /\ call \in {"flight", "sleep"}
  /\ instant < MaxInstant
  /\ instant' = instant + 1
  /\ UNCHANGED <<throttled, asks, expires, call, retries, wake, parked, outcome>>

\* isExpired: a token about to expire counts as expired.
IsExpired == expires - Skew <= instant

\* resolveMerchantAccessToken: the configured token, or the stored one, decrypted.
Resolve ==
  /\ call = "resolve"
  /\ ~IsExpired
  /\ call' = "send"
  /\ UNCHANGED <<instant, throttled, asks, expires, retries, wake, parked, outcome>>

\* An expired one is refreshed first, which may fail (TokenRefresh has the protocol).
Refresh ==
  /\ call = "resolve"
  /\ IsExpired
  /\ \/ expires' = Never /\ UNCHANGED <<call, outcome>>
     \/ call' = "end" /\ outcome' = "noToken" /\ UNCHANGED expires
  /\ UNCHANGED <<instant, throttled, asks, retries, wake, parked>>

Send ==
  /\ call = "send"
  /\ call' = "flight"
  /\ UNCHANGED <<instant, throttled, asks, expires, retries, wake, parked, outcome>>

Ends(how) ==
  /\ call' = "end"
  /\ outcome' = how
  /\ UNCHANGED <<instant, throttled, asks, expires, retries, wake, parked>>

\* A status that is not 2xx, a body that does not decode or a broken connection fails
\* the call at once; only a 429 is retried.
Answered ==
  /\ call = "flight"
  /\ instant >= throttled
  /\ Ends(IF expires <= instant THEN "unauthorized" ELSE "payload")

Fails ==
  /\ call = "flight"
  /\ Ends("failure")

\* Slip: a delay above the ceiling is taken for a mistake.
ClampToDefault(delay) == IF delay < MaxWait THEN delay ELSE DefaultWait

ClampRetryAfter(delay) == IF delay < MaxWait THEN delay ELSE MaxWait

RetryAfterDelay ==
  CASE asks = "unusable" -> DefaultWait
    [] asks = "past" -> 0
    [] OTHER -> ClampRetryAfter(throttled - instant)

Backoff ==
  /\ call = "flight"
  /\ instant < throttled
  /\ retries < MaxRetries
  /\ wake' = instant + RetryAfterDelay
  /\ parked' = parked + RetryAfterDelay
  /\ call' = "sleep"
  /\ UNCHANGED <<instant, throttled, asks, expires, retries, outcome>>

\* The same request again, with the token it had.
Retry ==
  /\ call = "sleep"
  /\ instant >= wake
  /\ retries' = retries + 1
  /\ call' = "send"
  /\ UNCHANGED <<instant, throttled, asks, expires, wake, parked, outcome>>

Exhausted ==
  /\ call = "flight"
  /\ instant < throttled
  /\ retries = MaxRetries
  /\ Ends("rateLimited")

Next ==
  Pass \/ Resolve \/ Refresh \/ Send \/ Answered \/ Fails \/ Backoff \/ Retry \/ Exhausted

Spec == Init /\ [][Next]_callVars

-----------------------------------------------------------------------------
(* Properties.                                                              *)

\* make-request.ts:25-26: "a transient burst rides out the limit instead of dropping
\* work".  A call is lost to throttling only if Clover kept it up longer than all the
\* sleeps may take, or never said for how long; it never sleeps longer than that,
\* whatever Clover asks; and its token is refused only after the expiry skew has gone
\* by, which a call that slept every time may see.
RidesOutBurst ==
  /\ outcome = "rateLimited" /\ asks \in {"seconds", "date"} =>
       throttled > MaxRetries * MaxWait
  /\ parked <= MaxRetries * MaxWait
  /\ outcome = "unauthorized" => instant > Skew
=============================================================================
