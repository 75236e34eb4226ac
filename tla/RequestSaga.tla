---------------------------- MODULE RequestSaga -----------------------------
(***************************************************************************)
(* One request through the Next.js adapters (platform/nextjs-effect) and,   *)
(* for a route of the Clover app, through the saga its middleware opens     *)
(* (platform/saga): participants join in the order their layers are built,  *)
(* commit in that order if the handler succeeds and roll back in the other  *)
(* one if it does not, and only then is the exit turned into an answer.     *)
(***************************************************************************)
EXTENDS Integers

CONSTANT Participants  \* how many services of the saga register with it

VARIABLES
  adapter,    \* which adapter runs the handler
  stage,      \* where the request is
  joined,     \* participants whose layer is built
  turn,       \* the participant that ends next
  tx,         \* each participant's transaction
  connection, \* each participant's reserved resource
  exit,       \* the handler's exit: none, a value, an HttpResult, a failure, a defect
  commitExit, \* of the commits: none, done, failed
  queued,     \* the handler queued a response header
  answer      \* what the caller gets

requestVars ==
  <<adapter, stage, joined, turn, tx, connection, exit, commitExit, queued, answer>>

P == 1 .. Participants

\* route: a saga around the handler; pooledRoute: none; page: a page or server action.
Adapters == {"route", "pooledRoute", "page"}

\* A handler fails with an HttpResult (httpFailure), with another error or with a
\* defect; navigation is Next's control flow, thrown by redirect() and notFound().
Exits == {"value", "httpError", "failure", "defect", "navigation"}

NoAnswer == [kind |-> "none", header |-> FALSE]

Init ==
  /\ adapter \in Adapters
  /\ stage = IF adapter = "route" THEN "build" ELSE "handler"
  /\ joined = 0
  /\ turn = 0
  /\ tx = [p \in P |-> "none"]
  /\ connection = [p \in P |-> "none"]
  /\ exit = "none"
  /\ commitExit = "none"
  /\ queued = FALSE
  /\ answer = NoAnswer

-----------------------------------------------------------------------------
(* The saga.                                                                *)

\* sagaScoped: the next participant acquires what it needs, then registers.
Join ==
  /\ stage = "build"
  /\ joined < Participants
  /\ joined' = joined + 1
  /\ connection' = [connection EXCEPT ![joined + 1] = "reserved"]
  /\ tx' = [tx EXCEPT ![joined + 1] = "open"]
  /\ UNCHANGED <<adapter, stage, turn, exit, commitExit, queued, answer>>

\* No connection is free, or BEGIN fails on one that is reserved already: the layer
\* does not build, the handler does not run, the participant is not registered.
CannotJoin ==
  /\ stage = "build"
  /\ joined < Participants
  /\ exit' \in {"failure", "defect"}
  /\ \E got \in {"none", "reserved"} :
       connection' = [connection EXCEPT ![joined + 1] = got]
  /\ stage' = "close"
  /\ turn' = Participants
  /\ UNCHANGED <<adapter, joined, tx, commitExit, queued, answer>>

Built ==
  /\ stage = "build"
  /\ joined = Participants
  /\ stage' = "handler"
  /\ UNCHANGED <<adapter, joined, turn, tx, connection, exit, commitExit, queued, answer>>

\* setResponseHeader: kept beside the handler's result.
QueueHeader ==
  /\ stage = "handler"
  /\ adapter # "page"
  /\ ~queued
  /\ queued' = TRUE
  /\ UNCHANGED <<adapter, stage, joined, turn, tx, connection, exit, commitExit, answer>>

HandlerEnds(e) ==
  /\ stage = "handler"
  /\ exit' = e
  /\ IF adapter # "route"
       THEN stage' = "answer" /\ turn' = turn
       ELSE IF e = "value" THEN stage' = "commit" /\ turn' = 1
                           ELSE stage' = "close" /\ turn' = Participants
  /\ UNCHANGED <<adapter, joined, tx, connection, commitExit, queued, answer>>

\* Commits run in the order of registration; one that fails ends them.  A COMMIT that
\* is refused ends the transaction all the same; an open one is the later ones' own.
Commit(done) ==
  /\ stage = "commit"
  /\ tx' = [tx EXCEPT ![turn] = IF done THEN "committed" ELSE "refused"]
  /\ IF done /\ turn < Participants
       THEN stage' = stage /\ turn' = turn + 1 /\ commitExit' = commitExit
       ELSE /\ stage' = "close"
            /\ turn' = Participants
            /\ commitExit' = IF done THEN "done" ELSE "failed"
  /\ UNCHANGED <<adapter, joined, connection, exit, queued, answer>>

\* The scope's finalizers, last added first: a participant's rollback, which runs only
\* if the handler did not succeed and whose own failure is ignored, then the release of
\* what it acquired.
Finalize ==
  /\ stage = "close"
  /\ turn > 0
  /\ IF tx[turn] = "open" /\ exit # "value"
       THEN /\ tx' = [tx EXCEPT ![turn] = "rolledBack"]
            /\ UNCHANGED <<connection, turn>>
       ELSE /\ connection' = [connection EXCEPT ![turn] =
                                IF @ = "reserved" THEN "returned" ELSE @]
            /\ turn' = turn - 1
            /\ UNCHANGED tx
  /\ UNCHANGED <<adapter, stage, joined, exit, commitExit, queued, answer>>

Closed ==
  /\ stage = "close"
  /\ turn = 0
  /\ stage' = "answer"
  /\ UNCHANGED <<adapter, joined, turn, tx, connection, exit, commitExit, queued, answer>>

-----------------------------------------------------------------------------
(* The answer.                                                              *)

\* Slip: the answer is made from the handler's exit, whatever the commits did.
RouteAnswerEarly ==
  CASE exit = "value" -> [kind |-> "success", header |-> queued]
    [] exit = "httpError" -> [kind |-> "refusal", header |-> queued]
    [] OTHER -> [kind |-> "serverError", header |-> queued]

\* defineRoute: a value is 200, 204 or a redirect; an HttpResult keeps its status, any
\* other failure is 500; the queued headers go on either.
RouteAnswer ==
  CASE exit = "value" /\ commitExit # "failed" -> [kind |-> "success", header |-> queued]
    [] exit = "httpError" -> [kind |-> "refusal", header |-> queued]
    [] OTHER -> [kind |-> "serverError", header |-> queued]

\* A defect rejects the promise: Next.js answers, and knows nothing of the headers.
\* Next's signals are not looked for in a route, where they are defects.
Respond ==
  /\ stage = "answer"
  /\ adapter # "page"
  /\ answer' = IF exit \in {"defect", "navigation"}
                 THEN [kind |-> "serverError", header |-> FALSE]
                 ELSE RouteAnswer
  /\ stage' = "end"
  /\ UNCHANGED <<adapter, joined, turn, tx, connection, exit, commitExit, queued>>

\* raisePipelineExit: the value, Next's own signal as it was thrown, or the error for
\* its boundary, an HttpResult like any other.
Raised ==
  CASE exit = "value" -> "success"
    [] exit = "navigation" -> "navigation"
    [] OTHER -> "errorBoundary"

\* definePage, defineServerAction.
Raise ==
  /\ stage = "answer"
  /\ adapter = "page"
  /\ answer' = [kind |-> Raised, header |-> FALSE]
  /\ stage' = "end"
  /\ UNCHANGED <<adapter, joined, turn, tx, connection, exit, commitExit, queued>>

Next ==
  \/ Join \/ CannotJoin \/ Built \/ QueueHeader
  \/ \E e \in Exits : HandlerEnds(e)
  \/ \E done \in BOOLEAN : Commit(done)
  \/ Finalize \/ Closed \/ Respond \/ Raise

Spec == Init /\ [][Next]_requestVars

-----------------------------------------------------------------------------
(* Properties.                                                              *)

RequestTypeOK ==
  /\ joined \in 0 .. Participants
  /\ turn \in 0 .. Participants
  /\ tx \in [P -> {"none", "open", "committed", "refused", "rolledBack"}]
  /\ connection \in [P -> {"none", "reserved", "returned"}]

\* What a connection carries back to the pool: nobody else may run statements in the
\* transaction of an ended request.  With the database first to join, as everywhere in
\* this code, its connection comes back without one, whichever participant fails.
ReturnedWithoutTransaction ==
  connection[1] = "returned" => tx[1] # "open"

\* A caller that is told of success finds everything committed, one that is refused
\* finds nothing; after a failed commit, which is a server error, what was committed
\* before it stands.
AnswerTellsOutcome ==
  adapter = "route" =>
    /\ answer.kind = "success" => \A p \in P : tx[p] = "committed"
    /\ answer.kind = "refusal" => \A p \in P : tx[p] = "rolledBack"
    /\ answer.kind = "serverError" /\ commitExit = "none" =>
         \A p \in P : tx[p] \in {"none", "rolledBack"}
    /\ commitExit = "failed" /\ answer.kind # "none" => answer.kind = "serverError"
=============================================================================
