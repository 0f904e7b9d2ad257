---------------------------- MODULE SequenceAudit ----------------------------
(***************************************************************************)
(* The tracker against the truth: packets are numbered 0, 1, 2, ... without*)
(* wrapping, the network delivers them late, early, twice or not at all,   *)
(* and the tracker sees only the number modulo SequenceSpace.  The network never  *)
(* displaces a packet by half of the sequence space or more.               *)
(***************************************************************************)
EXTENDS SequenceTracker

CONSTANTS
    LastPacket,     \* bound: packets are numbered 0 .. LastPacket
    Duplicates,     \* bound: how many packets are delivered a second time
    DuplicateSpan,  \* and while how many packets have passed at most
    Displacement    \* bound: how far from the expected packet one may arrive

ASSUME AuditAssumption ==
    /\ LastPacket \in Nat /\ Duplicates \in Nat /\ DuplicateSpan \in Nat
    /\ Displacement \in 1 .. (SequenceSpace \div 2 - 1)

VARIABLES tracker,
          arrived,     \* the packets that have arrived
          start, next, \* the first to arrive; one more than the highest
          repeats      \* packets delivered twice so far

vars == <<tracker, arrived, start, next, repeats>>

Init ==
    /\ tracker = NoTracker
    /\ arrived = {}
    /\ start = 0
    /\ next = 0
    /\ repeats = 0

Arrive(k) ==
    /\ arrived = {} \/ k - next \in -Displacement .. Displacement
    /\ k \in arrived => repeats < Duplicates /\ next - start <= DuplicateSpan
    /\ tracker' = Observe(tracker, k % SequenceSpace)
    /\ arrived' = arrived \cup {k}
    /\ repeats' = IF k \in arrived THEN repeats + 1 ELSE repeats
    /\ start' = IF arrived = {} THEN k ELSE start
    /\ next' = IF k >= next THEN k + 1 ELSE next

Next == \E k \in 0 .. LastPacket : Arrive(k)

Spec == Init /\ [][Next]_vars

\* The packets after the first one that have been passed over and not arrived.
Missing == {k \in start .. next - 1 : k \notin arrived}

\* The tracker follows the unwrapped sequence through every wrap, and counts as
\* lost exactly the packets passed over and not arrived.
LossIsExact ==
    tracker.initialized =>
       /\ tracker.expected = next % SequenceSpace
       /\ tracker.lost = Cardinality(Missing)

\* The code's own remark on the set of missing numbers, "reuse of a 16-bit
\* sequence after wrap must not inherit a stale missing marker": a number whose
\* latest packet has arrived is not marked missing.
NoStaleMarker ==
    \A k \in arrived :
       (k >= start /\ k > next - 1 - SequenceSpace) => k % SequenceSpace \notin tracker.missing
=============================================================================
