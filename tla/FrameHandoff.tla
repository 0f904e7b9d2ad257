---------------------------- MODULE FrameHandoff ----------------------------
(***************************************************************************)
(* What the frame transmitter promises its callers, without its threads,   *)
(* its lock or its condition variables: frames that are accepted are       *)
(* delivered in the order they were accepted, none twice and none skipped, *)
(* at most Capacity of them are held at any time, nothing is accepted      *)
(* after a close or a failure, and a close that does not fail delivers     *)
(* everything that was accepted before it.                                 *)
(***************************************************************************)
EXTENDS Naturals, Sequences

CONSTANTS Frames,    \* the frames a caller may hand over
          Capacity   \* frames accepted and not yet delivered

VARIABLES accepted,  \* frames accepted so far, in order
          delivered, \* frames completely transmitted so far, in order
          status     \* "open", "closing", "drained" or "failed"

vars == <<accepted, delivered, status>>

Init ==
    /\ accepted = <<>>
    /\ delivered = <<>>
    /\ status = "open"

Accept(f) ==
    /\ status = "open"
    /\ Len(accepted) - Len(delivered) < Capacity
    /\ \A i \in DOMAIN accepted : accepted[i] # f
    /\ accepted' = Append(accepted, f)
    /\ UNCHANGED <<delivered, status>>

Deliver ==
    /\ status \in {"open", "closing"}
    /\ Len(delivered) < Len(accepted)
    /\ delivered' = Append(delivered, accepted[Len(delivered) + 1])
    /\ UNCHANGED <<accepted, status>>

Close ==
    /\ status = "open"
    /\ status' = "closing"
    /\ UNCHANGED <<accepted, delivered>>

Drained ==
    /\ status = "closing"
    /\ delivered = accepted
    /\ status' = "drained"
    /\ UNCHANGED <<accepted, delivered>>

Fail ==
    /\ status \in {"open", "closing"}
    /\ status' = "failed"
    /\ UNCHANGED <<accepted, delivered>>

Next ==
    \/ \E f \in Frames : Accept(f)
    \/ Deliver
    \/ Close
    \/ Drained
    \/ Fail

Spec == Init /\ [][Next]_vars

\* An accepted frame is eventually delivered and a close eventually takes
\* effect, unless the transmitter fails.
FairSpec == Spec /\ WF_vars(Deliver) /\ WF_vars(Drained)
=============================================================================
