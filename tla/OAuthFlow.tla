----------------------------- MODULE OAuthFlow ------------------------------
(***************************************************************************)
(* Installing the app for a merchant: the launch and the return leg of      *)
(* api/oauth/callback with the sealed state (infrastructure/clover/         *)
(* oauth-state.ts) that travels in one cookie of the browser.  Tabs of the  *)
(* browser share the cookie; requests carry it as it was when they were     *)
(* sent and answers change it when they arrive, in any order.               *)
(***************************************************************************)
EXTENDS Integers, FiniteSets

CONSTANTS
  MaxLaunches,  \* bound on launches
  MaxReturns,   \* bound on callbacks the browser sends
  StateTtl,     \* OAUTH_STATE_TTL_MS, in ticks
  MaxNow        \* bound on the clock

VARIABLES
  now,       \* the clock
  config,    \* the configured merchant, app and redirect URI
  launches,  \* states issued: [config, exp], numbered by their nonce
  jar,       \* the state cookie: a nonce, 0 without one
  answers,   \* answers under way to the browser
  returns,   \* callbacks the server is handling
  sent,      \* callbacks sent so far
  authorized,\* launches whose authorization the browser has been through
  exchanged, \* launches whose code Clover has exchanged
  connected,    \* launches whose tokens were committed
  spent,     \* states the browser held when a callback was last answered
  replayed   \* a callback sent with a spent state was accepted

oauthVars == <<now, config, launches, jar, answers, returns, sent, authorized,
               exchanged, connected, spent, replayed>>

Init ==
  /\ now = 0
  /\ config = 1
  /\ launches = [n \in 1 .. MaxLaunches |-> [config |-> 0, exp |-> 0]]
  /\ jar = 0
  /\ answers = {}
  /\ returns = {}
  /\ sent = 0
  /\ authorized = {}
  /\ exchanged = {}
  /\ connected = {}
  /\ spent = {}
  /\ replayed = FALSE

Issued == {n \in 1 .. MaxLaunches : launches[n].config # 0}

-----------------------------------------------------------------------------
Tick ==
  /\ now < MaxNow
  /\ now' = now + 1
  /\ UNCHANGED <<config, launches, jar, answers, returns, sent, authorized,
                 exchanged, connected, spent, replayed>>

\* A deployment changes the merchant, the app or the redirect URI.
Redeploy ==
  /\ config = 1
  /\ config' = 2
  /\ UNCHANGED <<now, launches, jar, answers, returns, sent, authorized,
                 exchanged, connected, spent, replayed>>

\* handleLaunch, for the merchant and the client configured: a fresh nonce, and the
\* sealed cookie in the answer.  Any other launch is refused and changes nothing.
Launch ==
  /\ LET n == Cardinality(Issued) + 1
     IN /\ n <= MaxLaunches
        /\ launches' = [launches EXCEPT ![n] = [config |-> config, exp |-> now + StateTtl]]
        /\ answers' = answers \cup {[cookie |-> n, to |-> "launch", id |-> n]}
  /\ UNCHANGED <<now, config, jar, returns, sent, authorized, exchanged, connected,
                 spent, replayed>>

\* An answer arrives: to a launch, the browser goes on to Clover's authorization, with
\* the cookie set; to a callback that was handled, the cookie is cleared.
Arrive(a) ==
  /\ a \in answers
  /\ answers' = answers \ {a}
  /\ IF a.to = "launch"
       THEN /\ jar' = a.cookie
            /\ authorized' = authorized \cup {a.cookie}
            /\ spent' = spent
       ELSE /\ jar' = IF a.clears THEN 0 ELSE jar
            /\ authorized' = authorized
            /\ spent' = IF a.handled THEN spent \cup (authorized \ {0}) ELSE spent
  /\ UNCHANGED <<now, config, launches, returns, sent, exchanged, connected, replayed>>

\* Clover sends the browser back with a code and the nonce of its launch; a reload or
\* the back button sends it once more.  The cookie goes along as it is now.
Return(n) ==
  /\ n \in authorized
  /\ sent < MaxReturns
  /\ sent' = sent + 1
  /\ returns' = returns \cup
       {[id |-> sent + 1, state |-> n, cookie |-> jar, stage |-> "check",
         stale |-> n \in spent]}
  /\ UNCHANGED <<now, config, launches, jar, answers, authorized, exchanged, connected,
                 spent, replayed>>

-----------------------------------------------------------------------------
(* handleCallback.                                                          *)

\* Slip: only a callback that succeeds clears the cookie.
ClearsOnSuccess(outcome) == outcome = "connected"

\* Every answer the handler gives clears the cookie, success or failure.
Clears(outcome) == outcome # "unhandled"

AnswerTo(r, outcome) ==
  /\ returns' = returns \ {r}
  /\ answers' = answers \cup
       {[to |-> "callback", id |-> r.id, handled |-> outcome # "unhandled",
         clears |-> Clears(outcome)]}

\* openOAuthState: a cookie that came along, with a seal of this server's secret, which
\* only the browser's own has.
Opens(r) == r.cookie # 0

\* The seal opens, has not expired, and binds this nonce and what is configured now.
Valid(r) ==
  /\ Opens(r)
  /\ launches[r.cookie].exp > now
  /\ r.state = r.cookie
  /\ launches[r.state].config = config

Accept(r) ==
  /\ r \in returns
  /\ r.stage = "check"
  /\ Valid(r)
  /\ returns' = (returns \ {r}) \cup {[r EXCEPT !.stage = "exchange"]}
  /\ replayed' = (replayed \/ r.stale)
  /\ UNCHANGED <<now, config, launches, jar, answers, sent, authorized, exchanged,
                 connected, spent>>

Reject(r) ==
  /\ r \in returns
  /\ r.stage = "check"
  /\ ~Valid(r)
  /\ AnswerTo(r, "rejected")
  /\ UNCHANGED <<now, config, launches, jar, sent, authorized, exchanged, connected,
                 spent, replayed>>

\* exchangeCodeForTokens: Clover exchanges a code once.
Exchange(r) ==
  /\ r \in returns
  /\ r.stage = "exchange"
  /\ r.state \notin exchanged
  /\ exchanged' = exchanged \cup {r.state}
  /\ returns' = (returns \ {r}) \cup {[r EXCEPT !.stage = "persist"]}
  /\ UNCHANGED <<now, config, launches, jar, answers, sent, authorized, connected,
                 spent, replayed>>

\* The code was exchanged before, the request to Clover times out, the tokens cannot be
\* stored or their transaction does not commit: they are lost and the code is used.
ExchangeFails(r) ==
  /\ r \in returns
  /\ r.stage \in {"exchange", "persist"}
  /\ \E used \in SUBSET {r.state} : exchanged' = exchanged \cup used
  /\ AnswerTo(r, "failed")
  /\ UNCHANGED <<now, config, launches, jar, sent, authorized, connected, spent, replayed>>

\* The tokens are encrypted and stored, and the request's transaction commits.
Connect(r) ==
  /\ r \in returns
  /\ r.stage = "persist"
  /\ connected' = connected \cup {r.state}
  /\ AnswerTo(r, "connected")
  /\ UNCHANGED <<now, config, launches, jar, sent, authorized, exchanged, spent, replayed>>

\* The request's transaction does not begin, or the handler dies: an answer of Next.js
\* without the handler's headers.
Unhandled(r) ==
  /\ r \in returns
  /\ AnswerTo(r, "unhandled")
  /\ UNCHANGED <<now, config, launches, jar, sent, authorized, exchanged, connected,
                 spent, replayed>>

Next ==
  \/ Tick \/ Redeploy \/ Launch
  \/ \E a \in answers : Arrive(a)
  \/ \E n \in authorized : Return(n)
  \/ \E r \in returns :
       Accept(r) \/ Reject(r) \/ Exchange(r) \/ ExchangeFails(r) \/ Connect(r) \/ Unhandled(r)

Spec == Init /\ [][Next]_oauthVars

-----------------------------------------------------------------------------
(* Properties.                                                              *)

\* route.ts:139: "so it cannot be replayed".  Once a callback the handler answered has
\* reached the browser, no callback it sends later is accepted under a state it held
\* before, whatever other tabs launch and in whatever order answers arrive.
StateNotReplayed == ~replayed
=============================================================================
