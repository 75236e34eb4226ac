------------------------------ MODULE Webhook -------------------------------
(***************************************************************************)
(* Clover's notifications (app/api/webhook): each request carries events,   *)
(* which are inserted one by one into the inbox of their kind inside the    *)
(* request's transaction.  Clover sends a request again until it is         *)
(* answered with success, so requests with the same events overlap.         *)
(***************************************************************************)
EXTENDS Integers, Sequences

CONSTANTS
  Events,      \* what Clover notifies of: [kind, object, type]
  Deliveries,  \* requests under way at once
  MaxBatch,    \* bound on the events of a request
  MaxAborts    \* bound on requests that fail

VARIABLES
  rows,      \* committed inbox rows
  handling,  \* each request's handler: none, auth, insert, commit
  batch,     \* the events still to insert
  payload,   \* all events of the request
  inserted,  \* rows inserted and not committed
  accepted,  \* events of requests Clover has seen succeed
  aborts     \* requests that failed so far

webhookVars == <<rows, handling, batch, payload, inserted, accepted, aborts>>

Init ==
  /\ rows = {}
  /\ handling = [d \in Deliveries |-> "none"]
  /\ batch = [d \in Deliveries |-> <<>>]
  /\ payload = [d \in Deliveries |-> {}]
  /\ inserted = [d \in Deliveries |-> {}]
  /\ accepted = {}
  /\ aborts = 0

Batches == UNION {[1 .. n -> Events] : n \in 1 .. MaxBatch}

Go(d, step) == handling' = [handling EXCEPT ![d] = step]

\* Clover sends events, new ones or ones it sent before, in any order.
Deliver(d, events) ==
  /\ handling[d] = "none"
  /\ Go(d, "auth")
  /\ batch' = [batch EXCEPT ![d] = events]
  /\ payload' = [payload EXCEPT ![d] = {events[k] : k \in DOMAIN events}]
  /\ UNCHANGED <<rows, inserted, accepted, aborts>>

\* The end of a request without effect.
Drop(d) ==
  /\ Go(d, "none")
  /\ batch' = [batch EXCEPT ![d] = <<>>]
  /\ payload' = [payload EXCEPT ![d] = {}]
  /\ inserted' = [inserted EXCEPT ![d] = {}]

\* A verification code is logged and answered with success before the header is looked
\* at; it brings no events.  Without the header, or with a body that does not decode,
\* the request is refused.
Refuse(d) ==
  /\ handling[d] = "auth"
  /\ Drop(d)
  /\ UNCHANGED <<rows, accepted, aborts>>

Authenticate(d) ==
  /\ handling[d] = "auth"
  /\ Go(d, "insert")
  /\ UNCHANGED <<rows, batch, payload, inserted, accepted, aborts>>

\* Slip: a deletion is skipped whatever was deleted.
WantedAnyDelete(e) == e.kind \in {"order", "item"} /\ e.type # "DELETE"

\* A deleted order is not followed, a deleted item is; other objects are not ours.
Wanted(e) == e.kind = "item" \/ (e.kind = "order" /\ e.type # "DELETE")

\* The row's idempotency key names the event; a deletion says what the drain is to do.
Row(e) ==
  [inbox |-> e.kind, key |-> e,
   eventType |-> IF e.type = "DELETE" THEN "delete" ELSE "upsert"]

Skip(d) ==
  /\ handling[d] = "insert"
  /\ batch[d] # <<>>
  /\ ~Wanted(Head(batch[d]))
  /\ batch' = [batch EXCEPT ![d] = Tail(@)]
  /\ UNCHANGED <<rows, handling, payload, inserted, accepted, aborts>>

\* The key is being inserted by a request that has not committed.
Waits(d) ==
  \E other \in Deliveries \ {d} : Row(Head(batch[d])) \in inserted[other]

\* onConflictDoNothing: a row that is there is left alone; the insert waits for one that
\* may be.
InsertRow(d) ==
  /\ handling[d] = "insert"
  /\ batch[d] # <<>>
  /\ Wanted(Head(batch[d]))
  /\ ~Waits(d)
  /\ inserted' = [inserted EXCEPT ![d] = @ \cup ({Row(Head(batch[d]))} \ rows)]
  /\ batch' = [batch EXCEPT ![d] = Tail(@)]
  /\ UNCHANGED <<rows, handling, payload, accepted, aborts>>

\* The commit; the answer may be lost on its way, and Clover sends the events again.
Succeed(d) ==
  /\ handling[d] = "insert"
  /\ batch[d] = <<>>
  /\ rows' = rows \cup inserted[d]
  /\ accepted' \in {accepted, accepted \cup payload[d]}
  /\ Drop(d)
  /\ UNCHANGED aborts

\* An insert or the commit fails, or two requests wait for each other and the database
\* ends one: nothing of it stays, and Clover is told of an error.
Abort(d) ==
  /\ handling[d] = "insert"
  /\ \/ aborts < MaxAborts /\ aborts' = aborts + 1
     \/ /\ batch[d] # <<>> /\ Waits(d) /\ inserted[d] # {}
        /\ UNCHANGED aborts
  /\ Drop(d)
  /\ UNCHANGED <<rows, accepted>>

Next ==
  \E d \in Deliveries :
    \/ \E events \in Batches : Deliver(d, events)
    \/ Refuse(d) \/ Authenticate(d) \/ Skip(d) \/ InsertRow(d) \/ Succeed(d) \/ Abort(d)

Spec == Init /\ [][Next]_webhookVars

-----------------------------------------------------------------------------
(* Properties.                                                              *)

\* Clover stops sending what was answered with success.  Every change of an order or an
\* item and every deletion of an item among it waits in its inbox from then on, though
\* requests with the same events overlap and any of them may fail.
AcceptedIsRecorded ==
  \A e \in accepted :
    /\ e.kind = "item" =>
         [inbox |-> "item", key |-> e,
          eventType |-> IF e.type = "DELETE" THEN "delete" ELSE "upsert"] \in rows
    /\ e.kind = "order" /\ e.type # "DELETE" =>
         [inbox |-> "order", key |-> e, eventType |-> "upsert"] \in rows
=============================================================================
