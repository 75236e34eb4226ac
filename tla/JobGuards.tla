----------------------------- MODULE JobGuards ------------------------------
(***************************************************************************)
(* The internal routes of the Clover app that import and drain              *)
(* (app/api/import, app/api/process): a bearer token, then a guard, a       *)
(* Set in the memory of the instance that serves the request, so that an    *)
(* instance runs one job of a kind at a time.  Instances know nothing of    *)
(* each other and come and go.                                              *)
(***************************************************************************)
EXTENDS Integers

CONSTANTS
  Instances,  \* instances of the app
  Kinds,      \* jobs: one guard each
  Requests    \* requests of the routes' callers

VARIABLES
  guards,  \* each instance's active guards
  at,      \* where a request is: none, waiting, running, ended
  asked,   \* the instance and the kind of a request
  reply    \* its status code, 0 before there is one

guardVars == <<guards, at, asked, reply>>

Nowhere == [instance |-> "none", kind |-> "none"]

Init ==
  /\ guards = [i \in Instances |-> {}]
  /\ at = [r \in Requests |-> "none"]
  /\ asked = [r \in Requests |-> Nowhere]
  /\ reply = [r \in Requests |-> 0]

Go(r, place) == at' = [at EXCEPT ![r] = place]

Ask(r, i, k) ==
  /\ at[r] = "none"
  /\ Go(r, "waiting")
  /\ asked' = [asked EXCEPT ![r] = [instance |-> i, kind |-> k]]
  /\ UNCHANGED <<guards, reply>>

Reply(r, code) ==
  /\ reply' = [reply EXCEPT ![r] = code]
  /\ Go(r, "ended")
  /\ UNCHANGED asked

Guarded(r) == asked[r].kind \in guards[asked[r].instance]

\* No bearer token, several of them, or another one than the processor's; or the
\* configuration that holds that one cannot be read.
Unauthorized(r) ==
  /\ at[r] = "waiting"
  /\ \E code \in {401, 500} : Reply(r, code)
  /\ UNCHANGED guards

Conflict(r) ==
  /\ at[r] = "waiting"
  /\ Guarded(r)
  /\ Reply(r, 409)
  /\ UNCHANGED guards

Free(r) == ~Guarded(r)

\* The guard is looked up and taken without a suspension in between.
Admit(r) ==
  /\ at[r] = "waiting"
  /\ Free(r)
  /\ guards' = [guards EXCEPT ![asked[r].instance] = @ \cup {asked[r].kind}]
  /\ Go(r, "running")
  /\ UNCHANGED <<asked, reply>>

\* The finally clause of the generator runs: the job succeeded.
Completes(r) ==
  /\ at[r] = "running"
  /\ guards' = [guards EXCEPT ![asked[r].instance] = @ \ {asked[r].kind}]
  /\ Reply(r, 200)

\* The job fails or dies.  Effect does not resume a generator whose effect failed, so
\* the finally clause is never reached.
Breaks(r) ==
  /\ at[r] = "running"
  /\ Reply(r, 500)
  /\ UNCHANGED guards

\* The platform stops an instance, for one that ran longer than maxDuration too, and
\* starts it afresh when there is something to serve.
Recycle(i) ==
  /\ \E r \in Requests : at[r] \in {"running", "ended"} /\ asked[r].instance = i
  /\ guards' = [guards EXCEPT ![i] = {}]
  /\ at' = [r \in Requests |->
              IF asked[r].instance = i /\ at[r] \in {"waiting", "running"} THEN "ended" ELSE at[r]]
  /\ UNCHANGED <<asked, reply>>

\* A caller comes back with its next request.
Again(r) ==
  /\ at[r] = "ended"
  /\ Go(r, "none")
  /\ asked' = [asked EXCEPT ![r] = Nowhere]
  /\ reply' = [reply EXCEPT ![r] = 0]
  /\ UNCHANGED guards

Next ==
  \/ \E r \in Requests :
       \/ \E i \in Instances, k \in Kinds : Ask(r, i, k)
       \/ Unauthorized(r) \/ Conflict(r) \/ Admit(r) \/ Completes(r) \/ Breaks(r) \/ Again(r)
  \/ \E i \in Instances : Recycle(i)

Spec == Init /\ [][Next]_guardVars

-----------------------------------------------------------------------------
(* Properties.                                                              *)

\* An instance never runs two jobs of a kind, whichever of them fail, however requests
\* overlap and instances are replaced: the drains of one inbox overlap only across
\* instances and with the scripts.
OneJobPerInstance ==
  \A r, s \in Requests :
    at[r] = "running" /\ at[s] = "running" /\ asked[r] = asked[s] => r = s

\* process/orders/route.ts:48: "Order processing is already running".  A request is
\* refused for that reason only while a job of its kind is running on its instance.
RefusedOnlyWhileRunning ==
  [][\A r \in Requests :
       reply[r] = 0 /\ reply'[r] = 409 =>
         \E s \in Requests : at[s] = "running" /\ asked[s] = asked[r]]_guardVars
=============================================================================
