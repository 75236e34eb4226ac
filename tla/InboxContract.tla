--------------------------- MODULE InboxContract ---------------------------
(***************************************************************************)
(* What an inbox promises for each message, whatever drains it: a received *)
(* message waits until it is delivered (its effects are applied, once) or  *)
(* has failed MaxAttempts times, and either outcome is final.  InboxDrain  *)
(* implements it when one drain runs at a time.                            *)
(***************************************************************************)
EXTENDS Naturals

CONSTANTS
  Messages,     \* the messages, each named by its idempotency key
  MaxAttempts   \* failures after which a message is given up

VARIABLES
  phase,        \* "absent", "waiting", "processed" or "dead_letter"
  failures,     \* failed attempts so far
  applied       \* times the effects of the message were applied

vars == <<phase, failures, applied>>

Init ==
  /\ phase = [m \in Messages |-> "absent"]
  /\ failures = [m \in Messages |-> 0]
  /\ applied = [m \in Messages |-> 0]

\* A request delivers the messages S, some of which may be known already.
Receive(S) ==
  /\ \E m \in S : phase[m] = "absent"
  /\ phase' = [m \in Messages |->
                 IF m \in S /\ phase[m] = "absent" THEN "waiting" ELSE phase[m]]
  /\ UNCHANGED <<failures, applied>>

\* The effects and the message's final status become durable together.
Deliver(m) ==
  /\ phase[m] = "waiting"
  /\ phase' = [phase EXCEPT ![m] = "processed"]
  /\ applied' = [applied EXCEPT ![m] = @ + 1]
  /\ UNCHANGED failures

\* A failed attempt leaves no effect; the last one gives the message up.
Fail(m) ==
  /\ phase[m] = "waiting"
  /\ failures' = [failures EXCEPT ![m] = @ + 1]
  /\ phase' = [phase EXCEPT
                 ![m] = IF failures[m] + 1 >= MaxAttempts THEN "dead_letter" ELSE @]
  /\ UNCHANGED applied

Next ==
  \/ \E S \in SUBSET Messages : Receive(S)
  \/ \E m \in Messages : Deliver(m) \/ Fail(m)

\* Every waiting message is attempted again until it is settled.
Fairness == \A m \in Messages : WF_vars(Deliver(m) \/ Fail(m))

Safety == Init /\ [][Next]_vars

Spec == Safety /\ Fairness
=============================================================================
