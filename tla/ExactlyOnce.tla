----------------------------- MODULE ExactlyOnce -----------------------------
(***************************************************************************)
(* What a relay with a deduplicating consumer promises for each event: its *)
(* effect happens at most once, and the event is acknowledged only after   *)
(* its effect.  An event the relay gave up on may still take effect: the   *)
(* delivery of a worker that outlived its lease can commit late.           *)
(***************************************************************************)
EXTENDS Naturals

CONSTANT Events

VARIABLES
    state,      \* "none", "queued", "done" or "dead" for each event
    effects     \* how many times the effect of each event has happened

abstractVars == <<state, effects>>

AbstractInit ==
    /\ state = [e \in Events |-> "none"]
    /\ effects = [e \in Events |-> 0]

Publish(e) ==
    /\ state[e] = "none"
    /\ state' = [state EXCEPT ![e] = "queued"]
    /\ UNCHANGED effects

Apply(e) ==
    /\ state[e] # "none"
    /\ effects[e] = 0
    /\ effects' = [effects EXCEPT ![e] = 1]
    /\ UNCHANGED state

Acknowledge(e) ==
    /\ state[e] = "queued"
    /\ effects[e] = 1
    /\ state' = [state EXCEPT ![e] = "done"]
    /\ UNCHANGED effects

GiveUp(e) ==
    /\ state[e] = "queued"
    /\ state' = [state EXCEPT ![e] = "dead"]
    /\ UNCHANGED effects

AbstractNext ==
    \E e \in Events : Publish(e) \/ Apply(e) \/ Acknowledge(e) \/ GiveUp(e)

AbstractSpec == AbstractInit /\ [][AbstractNext]_abstractVars

=============================================================================
