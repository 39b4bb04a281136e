---------------------------- MODULE FrameLedger ----------------------------
(***************************************************************************)
(* What the camera pipeline promises its library, without queues, threads  *)
(* or shutdown protocol: a retained frame is returned once, published or   *)
(* not; images of one camera are published in order; and once the pipeline *)
(* is closed it holds nothing and retains nothing any more.                *)
(***************************************************************************)
EXTENDS Naturals

CONSTANTS Cameras, MaxSets

Frames == Cameras \X (1..MaxSets)

VARIABLES
    frame,   \* what became of each frame
    closed   \* the pipeline has ended

vars == <<frame, closed>>

HeldFrames == {f \in Frames : frame[f] = "held"}

Init ==
    /\ frame = [f \in Frames |-> "library"]
    /\ closed = FALSE

Retain(f) ==
    /\ ~closed
    /\ frame[f] = "library"
    /\ frame' = [frame EXCEPT ![f] = "held"]
    /\ UNCHANGED closed

Publish(f) ==
    /\ frame[f] = "held"
    /\ \A g \in Frames : g[1] = f[1] /\ g[2] > f[2] => frame[g] # "published"
    /\ frame' = [frame EXCEPT ![f] = "published"]
    /\ UNCHANGED closed

\* Frames are given back unpublished, several at once when a queue is emptied.
Return(S) ==
    /\ S # {}
    /\ frame' = [f \in Frames |-> IF f \in S THEN "returned" ELSE frame[f]]
    /\ UNCHANGED closed

Close ==
    /\ HeldFrames = {}
    /\ closed' = TRUE
    /\ UNCHANGED frame

Next ==
    \/ \E f \in Frames : Retain(f) \/ Publish(f)
    \/ \E S \in SUBSET HeldFrames : Return(S)
    \/ Close

GiveBack(f) == Publish(f) \/ \E S \in SUBSET HeldFrames : f \in S /\ Return(S)

\* Every held frame is given back in the end.
Spec ==
    /\ Init /\ [][Next]_vars
    /\ \A f \in Frames : WF_vars(GiveBack(f))
=============================================================================
