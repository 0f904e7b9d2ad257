--------------------------- MODULE SequenceTracker ---------------------------
(***************************************************************************)
(* The receiver's SequenceTracker: RTP sequence numbers are SequenceSpace (2^16)  *)
(* consecutive values that wrap; the distance of an arrival from the       *)
(* expected number is taken as a signed number of that width.  A number    *)
(* that is skipped is counted lost and marked missing; a late arrival is   *)
(* counted reordered and takes its loss back.                              *)
(***************************************************************************)
EXTENDS Integers, FiniteSets

CONSTANT SequenceSpace \* 2^16 in the code: an even number

ASSUME SequenceSpaceAssumption == SequenceSpace \in Nat \ {0} /\ SequenceSpace % 2 = 0

Sequences16 == 0 .. SequenceSpace - 1

\* static_cast<int16_t>(sequence - expected_)
Distance(sequence, expected) ==
    LET gap == (sequence - expected) % SequenceSpace
    IN  IF gap < SequenceSpace \div 2 THEN gap ELSE gap - SequenceSpace

NoTracker ==
    [initialized |-> FALSE, expected |-> 0, missing |-> {},
     received |-> 0, lost |-> 0, reordered |-> 0]

\* The numbers skipped by an arrival `distance` ahead of the expected one.
Skipped(expected, distance) ==
    {(expected + offset) % SequenceSpace : offset \in 0 .. distance - 1}

\* Faulty: losses are not counted; a late arrival gives no loss back.
Ahead_Uncounted(t, s)  == [t EXCEPT !.missing = @ \cup Skipped(t.expected, Distance(s, t.expected)),
                                    !.expected = (s + 1) % SequenceSpace]
Late_KeepsLoss(t, s)   == [t EXCEPT !.reordered = @ + 1, !.missing = @ \ {s}]

\* What observe does after ++received, by the kind of arrival.
First(t, s)   == [t EXCEPT !.initialized = TRUE, !.expected = (s + 1) % SequenceSpace]
InOrder(t, s) == [t EXCEPT !.missing = @ \ {s}, !.expected = (s + 1) % SequenceSpace]
Ahead(t, s)   == [t EXCEPT !.missing = @ \cup Skipped(t.expected, Distance(s, t.expected)),
                           !.lost = @ + Distance(s, t.expected),
                           !.expected = (s + 1) % SequenceSpace]
Late(t, s)    == [t EXCEPT !.reordered = @ + 1,
                           !.missing = @ \ {s},
                           !.lost = IF s \in t.missing /\ @ > 0 THEN @ - 1 ELSE @]

\* SequenceTracker::observe
Observe(t, s) ==
    LET counted == [t EXCEPT !.received = @ + 1]
    IN  CASE ~t.initialized -> First(counted, s)
          [] t.initialized /\ Distance(s, t.expected) = 0 -> InOrder(counted, s)
          [] t.initialized /\ Distance(s, t.expected) > 0 -> Ahead(counted, s)
          [] t.initialized /\ Distance(s, t.expected) < 0 -> Late(counted, s)
=============================================================================
