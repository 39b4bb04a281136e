---------------------------- MODULE SampleStream ----------------------------
(***************************************************************************)
(* What the IMU path promises, without ring, threads or driver: samples    *)
(* are published in the order they were admitted; the backlog is bounded;  *)
(* as long as nothing fails every admitted sample is published, also those *)
(* a stop finds under way; and nothing happens after the close.            *)
(***************************************************************************)
EXTENDS Naturals

CONSTANTS Capacity, MaxSamples

VARIABLES
    admitted,   \* samples admitted so far
    published,  \* samples published so far: the first ones of the admitted
    phase       \* "open", "failed" or "closed"

vars == <<admitted, published, phase>>

Init == admitted = 0 /\ published = 0 /\ phase = "open"

\* A full ring and one sample in the publisher's hands.
Admit ==
    /\ phase # "closed"
    /\ admitted < MaxSamples
    /\ admitted - published <= Capacity
    /\ admitted' = admitted + 1
    /\ UNCHANGED <<published, phase>>

Publish ==
    /\ phase # "closed"
    /\ published < admitted
    /\ published' = published + 1
    /\ UNCHANGED <<admitted, phase>>

Fail ==
    /\ phase = "open"
    /\ phase' = "failed"
    /\ UNCHANGED <<admitted, published>>

Close ==
    /\ phase = "failed" \/ (phase = "open" /\ published = admitted)
    /\ phase' = "closed"
    /\ UNCHANGED <<admitted, published>>

Next == Admit \/ Publish \/ Fail \/ Close

Answer == phase = "open" /\ published < admitted /\ (Publish \/ Fail)

Spec == Init /\ [][Next]_vars /\ WF_vars(Answer)
=============================================================================
