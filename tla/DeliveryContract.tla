-------------------------- MODULE DeliveryContract --------------------------
(***************************************************************************)
(* What the delivery of webhooks promises, without its queue: a receiver   *)
(* is called until it accepts a delivery, which is then SENT for good, or  *)
(* until it refused it MaxAttempts times, when it may be given up, FAILED. *)
(* An interruption, a crash in the middle of a delivery or an answer that  *)
(* never came back, weakens that to at-least-once: the receiver may be     *)
(* called again and the outcome taken back, but no outcome is made up.     *)
(***************************************************************************)
EXTENDS Naturals

CONSTANTS Delivery, MaxAttempts

VARIABLES
    outcome,   \* "undecided", "sent" or "failed"
    accepted,  \* calls the receiver answered with 2xx
    refused,   \* calls that failed otherwise
    torn       \* deliveries that were interrupted

contractVars == <<outcome, accepted, refused, torn>>

ContractInit ==
    /\ outcome = [d \in Delivery |-> "undecided"]
    /\ accepted = [d \in Delivery |-> 0]
    /\ refused = [d \in Delivery |-> 0]
    /\ torn = {}

Open(d) == outcome[d] = "undecided" \/ d \in torn

Call(d) ==
    /\ Open(d)
    /\ \/ accepted' = [accepted EXCEPT ![d] = @ + 1] /\ UNCHANGED refused
       \/ refused' = [refused EXCEPT ![d] = @ + 1] /\ UNCHANGED accepted
    /\ UNCHANGED <<outcome, torn>>

\* Who decides may not come to know that it did, which is an interruption.
Decide(d) ==
    /\ Open(d)
    /\ \/ /\ accepted[d] > 0
          /\ outcome' = [outcome EXCEPT ![d] = "sent"]
          /\ torn' \in {torn, torn \cup {d}}
       \/ /\ refused[d] >= MaxAttempts
          /\ outcome' = [outcome EXCEPT ![d] = "failed"]
          /\ UNCHANGED torn
    /\ UNCHANGED <<accepted, refused>>

Reopen(d) ==
    /\ d \in torn
    /\ outcome' = [outcome EXCEPT ![d] = "undecided"]
    /\ UNCHANGED <<accepted, refused, torn>>

Interrupt(d) ==
    /\ torn' = torn \cup {d}
    /\ UNCHANGED <<outcome, accepted, refused>>

ContractNext == \E d \in Delivery : Call(d) \/ Decide(d) \/ Reopen(d) \/ Interrupt(d)

ContractSafety == ContractInit /\ [][ContractNext]_contractVars

Contract == ContractSafety /\ \A d \in Delivery : <>(outcome[d] # "undecided")
=============================================================================
