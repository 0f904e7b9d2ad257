------------------------ MODULE FrameProductionProofs ------------------------
(***************************************************************************)
(* Theorems about the timeline, the production of frames, for every frame  *)
(* rate, unit of time, source and timing of the threads, and the           *)
(* conversion of their pictures.                                           *)
(***************************************************************************)
EXTENDS FrameProduction, BgraToNv12, SequenceTheorems, TLAPS

-----------------------------------------------------------------------------
(* The arithmetic of the timeline: scaling by quotient and remainder gives  *)
(* the largest number not above the exact product.                          *)

\* Division with remainder, as the provers need it.
LEMMA DivMod ==
    ASSUME NEW a \in Nat, NEW b \in Nat, b > 0
    PROVE  /\ a \div b \in Nat
           /\ a % b \in Nat
           /\ a % b < b
           /\ a = b * (a \div b) + (a % b)
  <1>1. a \div b \in Nat
    OBVIOUS
  <1>2. a % b \in Nat
    OBVIOUS
  <1>3. a % b < b
    OBVIOUS
  <1>4. a = b * (a \div b) + (a % b)
    OBVIOUS
  <1> QED
    BY <1>1, <1>2, <1>3, <1>4

LEMMA Distribute ==
    ASSUME NEW x \in Nat, NEW y \in Nat, NEW z \in Nat
    PROVE  /\ (x + y) * z = x * z + y * z
           /\ z * (x + y) = z * x + z * y
           /\ (x * y) * z = x * (y * z)
           /\ x * y = y * x
           /\ x * y \in Nat
    BY SMT

\* a * c / b, rounded down, as it is computed without a large product.
LEMMA ScaledQuotient ==
    ASSUME NEW a \in Nat, NEW b \in Nat, NEW c \in Nat, b > 0
    PROVE  LET x == (a \div b) * c + ((a % b) * c) \div b
           IN /\ x \in Nat
              /\ b * x <= a * c
              /\ a * c < b * (x + 1)
  <1> DEFINE q == a \div b
  <1> DEFINE r == a % b
  <1> DEFINE k == (r * c) \div b
  <1> DEFINE m == (r * c) % b
  <1>1. /\ q \in Nat /\ r \in Nat /\ a = b * q + r
    BY DivMod
  <1>2. r * c \in Nat /\ q * c \in Nat /\ b * q \in Nat
    BY <1>1, Distribute
  <1>3. k \in Nat /\ m \in Nat /\ m < b /\ r * c = b * k + m
    BY <1>2, DivMod
  <1>4. a * c = (b * q) * c + r * c
    BY <1>1, <1>2, Distribute
  <1>5. (b * q) * c = b * (q * c)
    BY <1>1, Distribute
  <1>6. b * (q * c + k) = b * (q * c) + b * k
    BY <1>2, <1>3, Distribute
  <1>7. b * (q * c + k + 1) = b * (q * c + k) + b
    <2>1. q * c + k \in Nat
      BY <1>2, <1>3
    <2>2. \A y \in Nat : b * (y + 1) = b * y + b
      BY SMT
    <2> QED
      BY <2>1, <2>2
  <1>8. b * (q * c) \in Nat /\ b * k \in Nat
    BY <1>2, <1>3, Distribute
  <1>9. a * c = b * (q * c + k) + m
    BY <1>3, <1>4, <1>5, <1>6, <1>8
  <1>10. q * c + k \in Nat /\ b * (q * c + k) \in Nat
    BY <1>2, <1>3, Distribute
  <1> HIDE DEF q, r, k, m
  <1>11. /\ q * c + k \in Nat
         /\ b * (q * c + k) <= a * c
         /\ a * c < b * (q * c + k + 1)
    BY <1>3, <1>7, <1>9, <1>10
  <1> QED
    BY <1>11 DEF q, r, k

LEMMA ScaleIsPositive == Scale \in Nat /\ Scale > 0
  BY TimelineAssumption DEF Scale

LEMMA OffsetBounds ==
    ASSUME NEW i \in Nat
    PROVE  /\ NominalOffset(i) \in Nat
           /\ Numerator * NominalOffset(i) <= i * Scale
           /\ i * Scale < Numerator * (NominalOffset(i) + 1)
  BY ScaledQuotient, ScaleIsPositive, TimelineAssumption DEF NominalOffset

LEMMA LatestBounds ==
    ASSUME NEW e \in Nat
    PROVE  /\ LatestIndex(e) \in Nat
           /\ Scale * LatestIndex(e) <= e * Numerator
           /\ e * Numerator < Scale * (LatestIndex(e) + 1)
  BY ScaledQuotient, ScaleIsPositive, TimelineAssumption DEF LatestIndex

\* The order of two numbers from the order of their products.
LEMMA Cancel ==
    ASSUME NEW n \in Nat, NEW x \in Nat, NEW y \in Nat, n > 0
    PROVE  /\ n * x <= n * y => x <= y
           /\ n * x < n * y => x < y
           /\ x <= y => n * x <= n * y
    BY SMT

\* The latest frame has begun: its nominal time is not in the future.
LEMMA LatestHasBegun ==
    ASSUME NEW e \in Nat
    PROVE  NominalOffset(LatestIndex(e)) <= e
  <1> DEFINE l == LatestIndex(e)
  <1> DEFINE o == NominalOffset(l)
  <1>1. l \in Nat /\ Scale * l <= e * Numerator
    BY LatestBounds
  <1>2. o \in Nat /\ Numerator * o <= l * Scale
    BY <1>1, OffsetBounds
  <1> HIDE DEF l, o
  <1>3. l * Scale = Scale * l /\ e * Numerator = Numerator * e
    BY <1>1, ScaleIsPositive, TimelineAssumption, Distribute
  <1>4. Numerator * o <= Numerator * e
    <2>1. {Numerator * o, Scale * l, Numerator * e} \subseteq Nat
      BY <1>1, <1>2, ScaleIsPositive, TimelineAssumption, Distribute
    <2> QED
      BY <1>1, <1>2, <1>3, <2>1
  <1>5. o <= e
    BY <1>2, <1>4, Cancel, TimelineAssumption
  <1> QED
    BY <1>5 DEF o, l

\* Every later frame has not begun, or begins now.
LEMMA LaterHasNotBegun ==
    ASSUME NEW e \in Nat, NEW i \in Nat, i > LatestIndex(e)
    PROVE  e <= NominalOffset(i)
  <1> DEFINE l == LatestIndex(e)
  <1> DEFINE o == NominalOffset(i)
  <1>1. l \in Nat /\ e * Numerator < Scale * (l + 1) /\ i >= l + 1
    BY LatestBounds
  <1>2. o \in Nat /\ i * Scale < Numerator * (o + 1)
    BY OffsetBounds
  <1> HIDE DEF l, o
  <1>3. Scale * (l + 1) <= Scale * i
    BY <1>1, Cancel, ScaleIsPositive
  <1>4. i * Scale = Scale * i /\ e * Numerator = Numerator * e
    BY ScaleIsPositive, TimelineAssumption, Distribute
  <1>5. Numerator * e < Numerator * (o + 1)
    <2>1. {Numerator * e, Scale * (l + 1), Scale * i, Numerator * (o + 1)} \subseteq Nat
      BY <1>1, <1>2, ScaleIsPositive, TimelineAssumption, Distribute
    <2> QED
      BY <1>1, <1>2, <1>3, <1>4, <2>1
  <1>6. e < o + 1
    BY <1>2, <1>5, Cancel, TimelineAssumption
  <1>7. e <= o
    BY <1>2, <1>6
  <1> QED
    BY <1>7 DEF o

-----------------------------------------------------------------------------
(* State *)

\* Which variables an action leaves alone is said with these tuples.
USE DEF callback, screen, pattern, encoder, loop, transmitter

FrameType ==
    [index : Nat, nominal : Nat, capture : Nat, repeated : BOOLEAN, skipped : Nat]

\* The part of the type invariant that the theorems rest on.
Types ==
    /\ clock \in Nat \ {0}
    /\ {composed, copying, latest, stored, taken} \subseteq Nat
    /\ {start_ns, source_index, frame_index, skipped_intervals, returned} \subseteq Nat
    /\ frame \in FrameType

LEMMA SlotType ==
    ASSUME NEW start \in Nat, NEW now \in Nat, NEW next \in Nat
    PROVE  LET slot == SelectFrameSlot(start, now, next)
           IN slot.index \in Nat /\ slot.nominal \in Nat /\ slot.skipped \in Nat
  <1>1. SinceStart(start, now) \in Nat
    BY DEF SinceStart
  <1>2. LatestIndex(SinceStart(start, now)) \in Nat
    BY <1>1, LatestBounds
  <1> DEFINE i == SlotIndex(LatestIndex(SinceStart(start, now)), next)
  <1>3. i \in Nat /\ i - next \in Nat
    BY <1>2 DEF SlotIndex
  <1>4. NominalOffset(i) \in Nat
    BY <1>3, OffsetBounds
  <1> QED
    BY <1>3, <1>4 DEF SelectFrameSlot

LEMMA TypesInitially == Init => Types
  BY DEF Init, Types, FrameType, NoFrame, None

LEMMA TypesPreserved ==
    ASSUME Types, [Next]_vars
    PROVE  Types'
  <1>1. Types
    OBVIOUS
  <1>2. [Next]_vars
    OBVIOUS
  <1>3. CASE Tick
    BY <1>3, <1>1 DEF Tick, Types, FrameType
  <1>4. CASE StopSignal
    BY <1>4, <1>1 DEF StopSignal, Types, FrameType
  <1>5. CASE FrameArrived
    BY <1>5, <1>1 DEF FrameArrived, Types, FrameType
  <1>6. CASE CopyFails
    BY <1>6, <1>1 DEF CopyFails, None, Types, FrameType
  <1>7. CASE StoreFrame
    BY <1>7, <1>1 DEF StoreFrame, Replace, None, Types, FrameType
  <1>8. CASE NextScreen
    BY <1>8, <1>1 DEF NextScreen, Types, FrameType
  <1>9. CASE FirstFrame
    BY <1>9, <1>1 DEF FirstFrame, Types, FrameType
  <1>10. CASE NoFirstFrame
    BY <1>10, <1>1 DEF NoFirstFrame, Types, FrameType
  <1>11. CASE TakeLatest
    BY <1>11, <1>1 DEF TakeLatest, Deliver, None, Types, FrameType
  <1>12. CASE RepeatFrame
    BY <1>12, <1>1 DEF RepeatFrame, Deliver, None, Types, FrameType
  <1>13. CASE AdvanceDeadline
    BY <1>13, <1>1 DEF AdvanceDeadline, Types, FrameType
  <1>14. CASE StartTimeline
    BY <1>14, <1>1 DEF StartTimeline, Types, FrameType
  <1>15. CASE SelectSlot
    <2>1. LET slot == SelectFrameSlot(start_ns, clock, source_index)
          IN slot.index \in Nat /\ slot.nominal \in Nat /\ slot.skipped \in Nat
      BY <1>1, SlotType DEF Types
    <2> QED
      BY <1>15, <2>1, <1>1 DEF SelectSlot, Skipped, None, Types, FrameType
  <1>16. CASE MakeFrame
    BY <1>16, <1>1 DEF MakeFrame, Types, FrameType
  <1>17. CASE LoopBegin
    BY <1>17, <1>1 DEF LoopBegin, Types, FrameType
  <1>18. CASE Convert
    BY <1>18, <1>1 DEF Convert, Types, FrameType
  <1>19. CASE Encode
    BY <1>19, <1>1 DEF Encode, Types, FrameType
  <1>20. CASE EnqueueFrame
    BY <1>20, <1>1 DEF EnqueueFrame, Types, FrameType
  <1>21. CASE CloseTransmitter
    BY <1>21, <1>1 DEF CloseTransmitter, Types, FrameType
  <1>22. CASE Exit
    BY <1>22, <1>1 DEF Exit, Types, FrameType
  <1>23. CASE LoopFails
    BY <1>23, <1>1 DEF LoopFails, Types, FrameType
  <1>24. CASE TransmitterStep
    BY <1>24, <1>1 DEF TransmitterStep, Types, FrameType
  <1>25. CASE TransmitterFails
    BY <1>25, <1>1 DEF TransmitterFails, Types, FrameType
  <1>26. CASE UNCHANGED vars
    BY <1>26, <1>1 DEF vars, Types, FrameType
  <1>. QED
    BY <1>3, <1>4, <1>5, <1>6, <1>7, <1>8, <1>9, <1>10, <1>11,
       <1>12, <1>13, <1>14, <1>15, <1>16, <1>17, <1>18, <1>19, <1>20, <1>21, <1>22,
       <1>23, <1>24, <1>25, <1>26, <1>2 DEF Next, LoopStep, NextStep

THEOREM TypesHold == Spec => []Types
  <1>1. Types /\ [Next]_vars => Types'
    BY TypesPreserved
  <1> QED
    BY TypesInitially, <1>1, PTL DEF Spec

-----------------------------------------------------------------------------
(* The mailbox *)

MailboxInv ==
    /\ MailboxHoldsNewest
    /\ taken <= stored /\ stored <= composed /\ composed <= clock
    /\ copying # None => copying = composed /\ stored < copying

LEMMA MailboxPreserved ==
    ASSUME Types, Types', MailboxInv, [Next]_vars
    PROVE  MailboxInv'
  <1>1. Types /\ Types' /\ MailboxInv
    OBVIOUS
  <1>2. [Next]_vars
    OBVIOUS
  <1>3. CASE Tick
    BY <1>3, <1>1 DEF Tick, Types, MailboxInv, MailboxHoldsNewest, None
  <1>4. CASE StopSignal
    BY <1>4, <1>1 DEF StopSignal, Types, MailboxInv, MailboxHoldsNewest, None
  <1>5. CASE FrameArrived
    BY <1>5, <1>1 DEF FrameArrived, Types, MailboxInv, MailboxHoldsNewest, None
  <1>6. CASE CopyFails
    BY <1>6, <1>1 DEF CopyFails, Types, MailboxInv, MailboxHoldsNewest, None
  <1>7. CASE StoreFrame
    BY <1>7, <1>1 DEF StoreFrame, Replace, Types, MailboxInv, MailboxHoldsNewest, None
  <1>8. CASE NextScreen
    BY <1>8, <1>1 DEF NextScreen, Types, MailboxInv, MailboxHoldsNewest, None
  <1>9. CASE FirstFrame
    BY <1>9, <1>1 DEF FirstFrame, Types, MailboxInv, MailboxHoldsNewest, None
  <1>10. CASE NoFirstFrame
    BY <1>10, <1>1 DEF NoFirstFrame, Types, MailboxInv, MailboxHoldsNewest, None
  <1>11. CASE TakeLatest
    BY <1>11, <1>1 DEF TakeLatest, Types, MailboxInv, MailboxHoldsNewest, None
  <1>12. CASE RepeatFrame
    BY <1>12, <1>1 DEF RepeatFrame, Types, MailboxInv, MailboxHoldsNewest, None
  <1>13. CASE AdvanceDeadline
    BY <1>13, <1>1 DEF AdvanceDeadline, Types, MailboxInv, MailboxHoldsNewest, None
  <1>14. CASE StartTimeline
    BY <1>14, <1>1 DEF StartTimeline, Types, MailboxInv, MailboxHoldsNewest, None
  <1>15. CASE SelectSlot
    BY <1>15, <1>1 DEF SelectSlot, Types, MailboxInv, MailboxHoldsNewest, None
  <1>16. CASE MakeFrame
    BY <1>16, <1>1 DEF MakeFrame, Types, MailboxInv, MailboxHoldsNewest, None
  <1>17. CASE LoopBegin
    BY <1>17, <1>1 DEF LoopBegin, Types, MailboxInv, MailboxHoldsNewest, None
  <1>18. CASE Convert
    BY <1>18, <1>1 DEF Convert, Types, MailboxInv, MailboxHoldsNewest, None
  <1>19. CASE Encode
    BY <1>19, <1>1 DEF Encode, Types, MailboxInv, MailboxHoldsNewest, None
  <1>20. CASE EnqueueFrame
    BY <1>20, <1>1 DEF EnqueueFrame, Types, MailboxInv, MailboxHoldsNewest, None
  <1>21. CASE CloseTransmitter
    BY <1>21, <1>1 DEF CloseTransmitter, Types, MailboxInv, MailboxHoldsNewest, None
  <1>22. CASE Exit
    BY <1>22, <1>1 DEF Exit, Types, MailboxInv, MailboxHoldsNewest, None
  <1>23. CASE LoopFails
    BY <1>23, <1>1 DEF LoopFails, Types, MailboxInv, MailboxHoldsNewest, None
  <1>24. CASE TransmitterStep
    BY <1>24, <1>1 DEF TransmitterStep, Types, MailboxInv, MailboxHoldsNewest, None
  <1>25. CASE TransmitterFails
    BY <1>25, <1>1 DEF TransmitterFails, Types, MailboxInv, MailboxHoldsNewest, None
  <1>26. CASE UNCHANGED vars
    BY <1>26, <1>1 DEF vars, Types, MailboxInv, MailboxHoldsNewest, None
  <1>. QED
    BY <1>3, <1>4, <1>5, <1>6, <1>7, <1>8, <1>9, <1>10, <1>11,
       <1>12, <1>13, <1>14, <1>15, <1>16, <1>17, <1>18, <1>19, <1>20, <1>21, <1>22,
       <1>23, <1>24, <1>25, <1>26, <1>2 DEF Next, LoopStep, NextStep

\* The screen source's mailbox never loses the newest frame and never goes back
\* to an older one (wgc_capture.cpp, next and on_frame).
THEOREM MailboxHoldsNewestHolds == Spec => []MailboxHoldsNewest
  <1>1. Init => MailboxInv
    BY DEF Init, MailboxInv, MailboxHoldsNewest, None
  <1>2. Types /\ Types' /\ MailboxInv /\ [Next]_vars => MailboxInv'
    BY MailboxPreserved
  <1>3. MailboxInv => MailboxHoldsNewest
    BY DEF MailboxInv
  <1> QED
    BY <1>1, <1>2, <1>3, TypesHold, PTL DEF Spec

-----------------------------------------------------------------------------
(* The slots that are skipped *)

SkipInv ==
    ~Screen =>
       /\ pc \notin {"first", "deadline", "advance"}
       /\ pc \in {"wait", "convert"} =>
             source_index = returned + skipped_intervals + frame.skipped
       /\ pc \notin {"wait", "convert", "unwind", "unwinding", "threw"} =>
             source_index = returned + skipped_intervals

LEMMA SkipPreserved ==
    ASSUME Types, Types', SkipInv, [Next]_vars
    PROVE  SkipInv'
  <1>1. Types /\ Types' /\ SkipInv
    OBVIOUS
  <1>2. [Next]_vars
    OBVIOUS
  <1>3. CASE Tick
    BY <1>3, <1>1 DEF Tick, Types, FrameType, SkipInv
  <1>4. CASE StopSignal
    BY <1>4, <1>1 DEF StopSignal, Types, FrameType, SkipInv
  <1>5. CASE FrameArrived
    BY <1>5, <1>1 DEF FrameArrived, Types, FrameType, SkipInv
  <1>6. CASE CopyFails
    BY <1>6, <1>1 DEF CopyFails, Types, FrameType, SkipInv
  <1>7. CASE StoreFrame
    BY <1>7, <1>1 DEF StoreFrame, Types, FrameType, SkipInv
  <1>8. CASE NextScreen
    BY <1>8, <1>1 DEF NextScreen, Types, FrameType, SkipInv
  <1>9. CASE FirstFrame
    BY <1>9, <1>1 DEF FirstFrame, Types, FrameType, SkipInv
  <1>10. CASE NoFirstFrame
    BY <1>10, <1>1 DEF NoFirstFrame, Types, FrameType, SkipInv
  <1>11. CASE TakeLatest
    BY <1>11, <1>1 DEF TakeLatest, Types, FrameType, SkipInv
  <1>12. CASE RepeatFrame
    BY <1>12, <1>1 DEF RepeatFrame, Types, FrameType, SkipInv
  <1>13. CASE AdvanceDeadline
    BY <1>13, <1>1 DEF AdvanceDeadline, Types, FrameType, SkipInv
  <1>14. CASE StartTimeline
    BY <1>14, <1>1 DEF StartTimeline, Types, FrameType, SkipInv
  <1>15. CASE SelectSlot
    <2> DEFINE slot == SelectFrameSlot(start_ns, clock, source_index)
    <2>1. slot.index \in Nat /\ slot.skipped \in Nat
      BY <1>1, SlotType DEF Types
    <2>2. slot.index = source_index + slot.skipped
      BY <1>1, <2>1 DEF SelectFrameSlot, Types
    <2>3. source_index' = slot.index /\ frame'.skipped = slot.skipped
      BY <1>15 DEF SelectSlot, Skipped
    <2> HIDE DEF slot
    <2> QED
      BY <1>15, <2>1, <2>2, <2>3, <1>1 DEF SelectSlot, Types, SkipInv
  <1>16. CASE MakeFrame
    BY <1>16, <1>1 DEF MakeFrame, Types, FrameType, SkipInv
  <1>17. CASE LoopBegin
    BY <1>17, <1>1 DEF LoopBegin, Types, FrameType, SkipInv
  <1>18. CASE Convert
    BY <1>18, <1>1 DEF Convert, Types, FrameType, SkipInv
  <1>19. CASE Encode
    BY <1>19, <1>1 DEF Encode, Types, FrameType, SkipInv
  <1>20. CASE EnqueueFrame
    BY <1>20, <1>1 DEF EnqueueFrame, Types, FrameType, SkipInv
  <1>21. CASE CloseTransmitter
    BY <1>21, <1>1 DEF CloseTransmitter, Types, FrameType, SkipInv
  <1>22. CASE Exit
    BY <1>22, <1>1 DEF Exit, Types, FrameType, SkipInv
  <1>23. CASE LoopFails
    BY <1>23, <1>1 DEF LoopFails, Types, FrameType, SkipInv
  <1>24. CASE TransmitterStep
    BY <1>24, <1>1 DEF TransmitterStep, Types, FrameType, SkipInv
  <1>25. CASE TransmitterFails
    BY <1>25, <1>1 DEF TransmitterFails, Types, FrameType, SkipInv
  <1>26. CASE UNCHANGED vars
    BY <1>26, <1>1 DEF vars, Types, FrameType, SkipInv
  <1>. QED
    BY <1>3, <1>4, <1>5, <1>6, <1>7, <1>8, <1>9, <1>10, <1>11,
       <1>12, <1>13, <1>14, <1>15, <1>16, <1>17, <1>18, <1>19, <1>20, <1>21, <1>22,
       <1>23, <1>24, <1>25, <1>26, <1>2 DEF Next, LoopStep, NextStep

\* However slow the sender is, the number of slots the test pattern has left out
\* is what skipped_intervals says (test_pattern.cpp, next; main.cpp, the loop).
THEOREM SkipsAreCountedHolds == Spec => []SkipsAreCounted
  <1>1. Init => SkipInv
    BY DEF Init, SkipInv
  <1>2. Types /\ Types' /\ SkipInv /\ [Next]_vars => SkipInv'
    BY SkipPreserved
  <1>3. SkipInv => SkipsAreCounted
    BY DEF SkipInv, SkipsAreCounted
  <1> QED
    BY <1>1, <1>2, <1>3, TypesHold, PTL DEF Spec

-----------------------------------------------------------------------------
(* The slot that is chosen *)

SlotChosen ==
    pc = "select" /\ pc' = "wait" =>
       /\ clock <= start_ns + NominalOffset(frame'.index + 1)
       /\ frame'.index > source_index => frame'.nominal <= clock

NotEarly == pc = "wait" /\ pc' = "convert" => frame'.nominal <= frame'.capture

LEMMA SlotStep ==
    ASSUME Types, SelectSlot
    PROVE  /\ clock <= start_ns + NominalOffset(frame'.index + 1)
           /\ frame'.index > source_index => frame'.nominal <= clock
  <1> DEFINE e == SinceStart(start_ns, clock)
  <1> DEFINE l == LatestIndex(e)
  <1> DEFINE i == SlotIndex(l, source_index)
  <1>1. e \in Nat /\ clock <= start_ns + e /\ (clock > start_ns => clock = start_ns + e)
    BY DEF SinceStart, Types
  <1>2. l \in Nat /\ i \in Nat /\ i >= l /\ (i > source_index => i = l)
    BY <1>1, LatestBounds DEF SlotIndex, Types
  <1>3. frame'.index = i /\ frame'.nominal = start_ns + NominalOffset(i)
    BY DEF SelectSlot, SelectFrameSlot
  <1>4. e <= NominalOffset(i + 1) /\ NominalOffset(i + 1) \in Nat
    <2>1. i + 1 \in Nat /\ i + 1 > LatestIndex(e)
      BY <1>2
    <2> QED
      BY <1>1, <2>1, LaterHasNotBegun, OffsetBounds
  <1>5. NominalOffset(l) <= e /\ NominalOffset(l) \in Nat
    BY <1>1, <1>2, LatestHasBegun, OffsetBounds
  <1>6. ~(clock > start_ns) => l = 0
    <2>1. ~(clock > start_ns) => e = 0
      BY DEF SinceStart
    <2>2. LatestIndex(0) = 0
      <3>1. LatestIndex(0) \in Nat /\ Scale * LatestIndex(0) <= 0 * Numerator
        BY LatestBounds
      <3>2. 0 * Numerator = 0 /\ Scale * 0 = 0
        BY TimelineAssumption, ScaleIsPositive
      <3>3. Scale * LatestIndex(0) <= Scale * 0
        BY <3>1, <3>2
      <3> QED
        BY <3>1, <3>3, Cancel, ScaleIsPositive
    <2> QED
      BY <2>1, <2>2
  <1> HIDE DEF e, l, i
  <1>7. clock <= start_ns + NominalOffset(i + 1)
    BY <1>1, <1>4 DEF Types
  <1>8. i > source_index => start_ns + NominalOffset(i) <= clock
    BY <1>1, <1>2, <1>5, <1>6 DEF Types
  <1> QED
    BY <1>3, <1>7, <1>8

LEMMA SlotStepOfNext ==
    ASSUME Types, [Next]_vars
    PROVE  SlotChosen /\ NotEarly
  <1>1. Types
    OBVIOUS
  <1>2. [Next]_vars
    OBVIOUS
  <1>3. CASE Tick
    BY <1>3, <1>1 DEF Tick, SlotChosen, NotEarly
  <1>4. CASE StopSignal
    BY <1>4, <1>1 DEF StopSignal, SlotChosen, NotEarly
  <1>5. CASE FrameArrived
    BY <1>5, <1>1 DEF FrameArrived, SlotChosen, NotEarly
  <1>6. CASE CopyFails
    BY <1>6, <1>1 DEF CopyFails, SlotChosen, NotEarly
  <1>7. CASE StoreFrame
    BY <1>7, <1>1 DEF StoreFrame, SlotChosen, NotEarly
  <1>8. CASE NextScreen
    BY <1>8, <1>1 DEF NextScreen, SlotChosen, NotEarly
  <1>9. CASE FirstFrame
    BY <1>9, <1>1 DEF FirstFrame, SlotChosen, NotEarly
  <1>10. CASE NoFirstFrame
    BY <1>10, <1>1 DEF NoFirstFrame, SlotChosen, NotEarly
  <1>11. CASE TakeLatest
    BY <1>11, <1>1 DEF TakeLatest, SlotChosen, NotEarly
  <1>12. CASE RepeatFrame
    BY <1>12, <1>1 DEF RepeatFrame, SlotChosen, NotEarly
  <1>13. CASE AdvanceDeadline
    BY <1>13, <1>1 DEF AdvanceDeadline, SlotChosen, NotEarly
  <1>14. CASE StartTimeline
    BY <1>14, <1>1 DEF StartTimeline, SlotChosen, NotEarly
  <1>15. CASE SelectSlot
    BY <1>15, <1>1, SlotStep DEF SelectSlot, SlotChosen, NotEarly
  <1>16. CASE MakeFrame
    BY <1>16, <1>1 DEF MakeFrame, Types, FrameType, SlotChosen, NotEarly
  <1>17. CASE LoopBegin
    BY <1>17, <1>1 DEF LoopBegin, SlotChosen, NotEarly
  <1>18. CASE Convert
    BY <1>18, <1>1 DEF Convert, SlotChosen, NotEarly
  <1>19. CASE Encode
    BY <1>19, <1>1 DEF Encode, SlotChosen, NotEarly
  <1>20. CASE EnqueueFrame
    BY <1>20, <1>1 DEF EnqueueFrame, SlotChosen, NotEarly
  <1>21. CASE CloseTransmitter
    BY <1>21, <1>1 DEF CloseTransmitter, SlotChosen, NotEarly
  <1>22. CASE Exit
    BY <1>22, <1>1 DEF Exit, SlotChosen, NotEarly
  <1>23. CASE LoopFails
    BY <1>23, <1>1 DEF LoopFails, SlotChosen, NotEarly
  <1>24. CASE TransmitterStep
    BY <1>24, <1>1 DEF TransmitterStep, SlotChosen, NotEarly
  <1>25. CASE TransmitterFails
    BY <1>25, <1>1 DEF TransmitterFails, SlotChosen, NotEarly
  <1>26. CASE UNCHANGED vars
    BY <1>26, <1>1 DEF vars, SlotChosen, NotEarly
  <1>. QED
    BY <1>3, <1>4, <1>5, <1>6, <1>7, <1>8, <1>9, <1>10, <1>11,
       <1>12, <1>13, <1>14, <1>15, <1>16, <1>17, <1>18, <1>19, <1>20, <1>21, <1>22,
       <1>23, <1>24, <1>25, <1>26, <1>2 DEF Next, LoopStep, NextStep

\* The test pattern makes the frame of the present slot, for every frame rate and
\* however late it is called, and not before its nominal time
\* (frame_timeline.hpp, select_frame_slot).
THEOREM SlotIsPresentHolds == Spec => SlotIsPresent
  <1>1. Types /\ [Next]_vars =>
          [ /\ pc = "select" /\ pc' = "wait" =>
                  /\ clock <= start_ns + NominalOffset(frame'.index + 1)
                  /\ frame'.index > source_index => frame'.nominal <= clock
            /\ pc = "wait" /\ pc' = "convert" => frame'.nominal <= frame'.capture ]_vars
    BY SlotStepOfNext DEF SlotChosen, NotEarly
  <1> QED
    BY <1>1, TypesHold, PTL DEF Spec, SlotIsPresent

-----------------------------------------------------------------------------
(* The pace of the screen source *)

\* A time of the grid with at least so many points before it.
OnGrid(t, first, points) == \E k \in Nat : k >= points /\ t = first + k * FramePeriod

\* The deadlines form the grid of the first one, at least one point of it for
\* each frame returned; a frame is repeated only after one has been taken.
PaceInv ==
    /\ next_deadline \in Nat /\ first_deadline \in Nat /\ have_frame \in BOOLEAN
    /\ Screen => pc \notin {"select", "wait"}
    /\ ~Screen => pc \notin {"first", "deadline", "advance"} /\ next_deadline = None
    /\ pc = "first" => ~have_frame
    /\ pc = "advance" => have_frame /\ next_deadline <= clock
    /\ pc = "deadline" => (have_frame \/ latest # None) /\ next_deadline # None
    /\ have_frame => next_deadline # None
    /\ Screen /\ ~have_frame => returned = 0
    /\ next_deadline # None =>
          /\ next_deadline <= clock + FramePeriod
          /\ OnGrid(next_deadline, first_deadline, returned)

LEMMA PeriodType == FramePeriod \in Nat /\ FramePeriod > 0
  <1>1. Scale \div Numerator \in Nat
    BY ScaleIsPositive, TimelineAssumption, DivMod
  <1> QED
    BY <1>1 DEF FramePeriod

\* The deadline after one of the grid is a later one of the grid, and at most a
\* period away.
LEMMA NextOnGrid ==
    ASSUME NEW d \in Nat, NEW now \in Nat, d <= now
    PROVE  /\ DeadlineAfter(d, now) <= now + FramePeriod
           /\ \E m \in Nat : m > 0 /\ DeadlineAfter(d, now) = d + m * FramePeriod
  <1>0. FramePeriod \in Nat /\ FramePeriod > 0
    BY PeriodType
  <1>1. CASE d + FramePeriod > now
    <2>1. DeadlineAfter(d, now) = d + 1 * FramePeriod
      BY <1>0, <1>1 DEF DeadlineAfter
    <2>2. 1 * FramePeriod = FramePeriod
      BY <1>0
    <2> QED
      BY <1>0, <2>1, <2>2
  <1>2. CASE ~(d + FramePeriod > now)
    <2> DEFINE q == (now - d) \div FramePeriod
    <2>1. now - d \in Nat
      OBVIOUS
    <2>2. q \in Nat /\ now - d = FramePeriod * q + ((now - d) % FramePeriod)
          /\ (now - d) % FramePeriod \in Nat
      BY <1>0, <2>1, DivMod
    <2>3. DeadlineAfter(d, now) = d + (q + 1) * FramePeriod
      BY <1>2 DEF DeadlineAfter
    <2> HIDE DEF q
    <2>4. (q + 1) * FramePeriod = FramePeriod * q + FramePeriod /\ FramePeriod * q \in Nat
      <3>1. (q + 1) * FramePeriod = q * FramePeriod + 1 * FramePeriod
            /\ q * FramePeriod = FramePeriod * q /\ FramePeriod * q \in Nat
        BY <1>0, <2>2, Distribute
      <3> QED
        BY <1>0, <3>1
    <2>5. d + (q + 1) * FramePeriod <= now + FramePeriod
      BY <1>0, <2>1, <2>2, <2>4
    <2>6. q + 1 \in Nat /\ q + 1 > 0
      BY <2>2
    <2> QED
      BY <2>3, <2>5, <2>6
  <1> QED
    BY <1>1, <1>2

LEMMA PacePreserved ==
    ASSUME Types, PaceInv, [Next]_vars
    PROVE  PaceInv'
  <1>0. clock \in Nat /\ clock > 0 /\ returned \in Nat /\ FramePeriod \in Nat /\ FramePeriod > 0
    BY PeriodType DEF Types
  <1> USE DEF None
  <1>1. CASE \/ Tick \/ StopSignal \/ FrameArrived \/ CopyFails \/ StoreFrame
             \/ TransmitterStep \/ TransmitterFails \/ UNCHANGED vars
    <2>1. /\ UNCHANGED <<next_deadline, first_deadline, have_frame, pc, returned>>
          /\ clock' = clock \/ clock' = clock + 1
          /\ latest' = latest \/ latest' # None
      BY <1>1 DEF Tick, StopSignal, FrameArrived, CopyFails, StoreFrame, Replace,
                  TransmitterStep, TransmitterFails, vars
    <2>2. clock' \in Nat /\ clock <= clock'
      BY <1>0, <2>1
    <2>3. have_frame' = have_frame /\ next_deadline' = next_deadline /\ pc' = pc
          /\ first_deadline' = first_deadline /\ returned' = returned
      BY <2>1
    <2>4. next_deadline' # None =>
             /\ next_deadline' <= clock' + FramePeriod
             /\ OnGrid(next_deadline', first_deadline', returned')
      <3>1. next_deadline # None =>
               /\ next_deadline <= clock + FramePeriod
               /\ OnGrid(next_deadline, first_deadline, returned)
        BY DEF PaceInv
      <3>2. next_deadline \in Nat
        BY DEF PaceInv
      <3>3. next_deadline <= clock + FramePeriod => next_deadline <= clock' + FramePeriod
        <4>1. \A t, d, n, p \in Nat : t <= n + p /\ n <= d => t <= d + p
          OBVIOUS
        <4> QED
          BY <1>0, <2>2, <3>2, <4>1
      <3>4. /\ next_deadline' = next_deadline /\ first_deadline' = first_deadline
            /\ returned' = returned
        BY <2>1
      <3> QED
        BY <3>1, <3>3, <3>4
    <2>5. pc' = "advance" => have_frame' /\ next_deadline' <= clock'
      BY <1>0, <2>2, <2>3 DEF PaceInv
    <2>6. pc' = "deadline" => (have_frame' \/ latest' # None) /\ next_deadline' # None
      BY <2>1, <2>3 DEF PaceInv
    <2> QED
      BY <2>3, <2>4, <2>5, <2>6 DEF PaceInv
  <1>2. CASE \/ NextScreen \/ NoFirstFrame \/ StartTimeline \/ LoopBegin \/ Convert \/ Encode
             \/ EnqueueFrame \/ CloseTransmitter \/ Exit \/ LoopFails \/ SelectSlot
    <2>1. UNCHANGED <<next_deadline, first_deadline, have_frame, clock, latest, returned>>
      BY <1>2 DEF NextScreen, NoFirstFrame, StartTimeline, LoopBegin, Convert, Encode,
                  EnqueueFrame, CloseTransmitter, Exit, LoopFails, SelectSlot
    <2>2. /\ pc' \notin {"advance"}
          /\ pc' = "first" => Screen /\ ~have_frame
          /\ pc' = "deadline" => Screen /\ have_frame
          /\ pc' \in {"select", "wait"} => ~Screen
      BY <1>2 DEF NextScreen, NoFirstFrame, StartTimeline, LoopBegin, Convert, Encode,
                  EnqueueFrame, CloseTransmitter, Exit, LoopFails, SelectSlot, PaceInv
    <2> QED
      BY <2>1, <2>2 DEF PaceInv
  <1>3. CASE FirstFrame
    <2>1. Screen /\ ~have_frame /\ returned = 0
      BY <1>3 DEF FirstFrame, PaceInv
    <2>2. OnGrid(clock, clock, 0)
      <3>1. 0 \in Nat /\ 0 >= 0 /\ clock = clock + 0 * FramePeriod
        BY <1>0
      <3> QED
        BY <3>1 DEF OnGrid
    <2> QED
      BY <1>0, <1>3, <2>1, <2>2 DEF FirstFrame, PaceInv
  <1>4. CASE TakeLatest \/ RepeatFrame
    BY <1>0, <1>4 DEF TakeLatest, RepeatFrame, PaceInv
  <1>5. CASE AdvanceDeadline
    <2>1. /\ have_frame /\ next_deadline \in Nat /\ next_deadline <= clock /\ next_deadline # None
          /\ first_deadline \in Nat
      BY <1>5 DEF AdvanceDeadline, PaceInv
    <2>2. PICK k \in Nat : k >= returned /\ next_deadline = first_deadline + k * FramePeriod
      BY <2>1 DEF PaceInv, OnGrid
    <2>3. PICK m \in Nat : m > 0 /\ DeadlineAfter(next_deadline, clock) = next_deadline + m * FramePeriod
      BY <1>0, <2>1, NextOnGrid
    <2>4. k * FramePeriod + m * FramePeriod = (k + m) * FramePeriod
          /\ k * FramePeriod \in Nat /\ m * FramePeriod \in Nat
      BY <1>0, Distribute
    <2>5. DeadlineAfter(next_deadline, clock) <= clock + FramePeriod
      BY <1>0, <2>1, NextOnGrid
    <2>6. /\ next_deadline' = first_deadline + (k + m) * FramePeriod
          /\ next_deadline' \in Nat /\ next_deadline' > 0
          /\ next_deadline' <= clock + FramePeriod
      BY <1>5, <2>1, <2>2, <2>3, <2>4, <2>5 DEF AdvanceDeadline
    <2>7. k + m \in Nat /\ k + m >= returned + 1
      BY <1>0, <2>2, <2>3
    <2>8. /\ pc' = "convert" /\ returned' = returned + 1
          /\ UNCHANGED <<clock, latest, have_frame, first_deadline>>
      BY <1>5 DEF AdvanceDeadline
    <2>9. OnGrid(next_deadline', first_deadline', returned')
      BY <2>6, <2>7, <2>8 DEF OnGrid
    <2> QED
      BY <2>1, <2>6, <2>8, <2>9 DEF PaceInv
  <1>6. CASE MakeFrame
    BY <1>6 DEF MakeFrame, PaceInv
  <1> QED
    BY <1>1, <1>2, <1>3, <1>4, <1>5, <1>6 DEF Next, LoopStep, NextStep

THEOREM PaceInvariant == Spec => []PaceInv
  <1>1. Init => PaceInv
    <2> SUFFICES ASSUME Init PROVE PaceInv
      OBVIOUS
    <2>1. pc = "loop" /\ ~have_frame /\ returned = 0 /\ next_deadline = 0 /\ first_deadline = 0
      BY DEF Init, None
    <2>2. have_frame \in BOOLEAN
      BY DEF Init
    <2> QED
      BY <2>1, <2>2 DEF PaceInv, None
  <1>2. Types /\ PaceInv /\ [Next]_vars => PaceInv'
    BY PacePreserved
  <1> QED
    BY <1>1, <1>2, TypesHold, PTL DEF Spec

\* However late the loop is, the screen source's deadlines keep to the grid of
\* the first one and are not caught up (wgc_capture.cpp, next).
THEOREM PaceIsKeptHolds == Spec => []PaceIsKept
  <1>1. ASSUME PaceInv, Types, next_deadline # None
        PROVE  /\ (next_deadline - first_deadline) % FramePeriod = 0
               /\ next_deadline <= clock + FramePeriod
               /\ next_deadline >= first_deadline + returned * FramePeriod
    <2>0. /\ FramePeriod \in Nat /\ FramePeriod > 0 /\ returned \in Nat
          /\ next_deadline \in Nat /\ first_deadline \in Nat
      BY <1>1, PeriodType DEF Types, PaceInv
    <2>1. PICK k \in Nat : k >= returned /\ next_deadline = first_deadline + k * FramePeriod
      BY <1>1 DEF PaceInv, OnGrid
    <2> DEFINE a == k * FramePeriod
    <2>2. a \in Nat /\ a = FramePeriod * k /\ returned * FramePeriod = FramePeriod * returned
          /\ FramePeriod * returned \in Nat
      BY <2>0, Distribute
    <2>3. next_deadline - first_deadline = a
      BY <2>0, <2>1, <2>2
    <2>4. a % FramePeriod = 0
      <3> DEFINE q == a \div FramePeriod
      <3> DEFINE r == a % FramePeriod
      <3>1. q \in Nat /\ r \in Nat /\ r < FramePeriod /\ a = FramePeriod * q + r
        BY <2>0, <2>2, DivMod
      <3> HIDE DEF q, r
      <3>2. FramePeriod * q \in Nat
        BY <2>0, <3>1, Distribute
      <3>3. FramePeriod * q <= FramePeriod * k
        BY <2>2, <3>1, <3>2
      <3>4. FramePeriod * k < FramePeriod * (q + 1)
        <4>1. FramePeriod * (q + 1) = FramePeriod * q + FramePeriod * 1 /\ FramePeriod * 1 = FramePeriod
          BY <2>0, <3>1, Distribute
        <4> QED
          BY <2>0, <2>2, <3>1, <3>2, <4>1
      <3>5. q <= k /\ k < q + 1
        BY <2>0, <3>1, <3>3, <3>4, Cancel
      <3>6. q = k
        BY <3>1, <3>5
      <3>7. r = 0
        BY <2>2, <3>1, <3>2, <3>6
      <3> QED
        BY <3>7 DEF r
    <2>5. FramePeriod * returned <= FramePeriod * k
      BY <2>0, <2>1, Cancel
    <2> HIDE DEF a
    <2>6. next_deadline >= first_deadline + returned * FramePeriod
      BY <2>0, <2>2, <2>3, <2>5
    <2> QED
      BY <1>1, <2>3, <2>4, <2>6 DEF PaceInv
  <1>2. PaceInv /\ Types => PaceIsKept
    BY <1>1 DEF PaceIsKept
  <1> QED
    BY <1>2, PaceInvariant, TypesHold, PTL

-----------------------------------------------------------------------------
(* What is returned by next is handed over *)

MediaType == [index : Nat, nominal : Nat, capture : Nat, timestamp : Nat, idr : BOOLEAN]

\* The frame at hand is one more than the accepted ones, and has been converted
\* before it is ever repeated.
ProducedInv ==
    /\ accepted \in Seq(MediaType)
    /\ pc \in {"convert", "encode", "enqueue", "enqueue_idr"} => returned = Len(accepted) + 1
    /\ pc \in {"loop", "next", "first", "deadline", "advance", "select", "wait",
               "close", "closing", "done"} => Len(accepted) = returned
    /\ have_frame /\ pc \notin {"advance", "convert", "unwind", "unwinding", "threw"} => cached
    /\ pc \in {"advance", "convert"} /\ frame.repeated => cached
    /\ pc = "wait" => ~frame.repeated
    /\ status = "drained" => delivered = accepted
    /\ pc = "done" => status = "drained"

LEMMA MediaIsTyped ==
    ASSUME Types
    PROVE  Media \in MediaType
  <1>1. frame.index \in Nat /\ frame.nominal \in Nat /\ frame.capture \in Nat
    BY DEF Types, FrameType
  <1>2. RtpTimestamp(frame.index) \in Nat
    <2> DEFINE ticks == frame.index * RtpClockRate * Denominator + Numerator \div 2
    <2>1. ticks \in Nat
      <3>1. frame.index * RtpClockRate \in Nat
        BY <1>1, TimelineAssumption, Distribute
      <3>2. frame.index * RtpClockRate * Denominator \in Nat
        BY <3>1, TimelineAssumption, Distribute
      <3>3. Numerator \div 2 \in Nat
        BY TimelineAssumption, DivMod
      <3> QED
        BY <3>2, <3>3
    <2>2. RtpTicks(frame.index) \in Nat
      BY <2>1, TimelineAssumption, DivMod DEF RtpTicks
    <2>3. InitialTimestamp + RtpTicks(frame.index) \in Nat
      BY <2>2, TimelineAssumption
    <2> QED
      BY <2>3, TimelineAssumption, DivMod DEF RtpTimestamp
  <1> QED
    BY <1>1, <1>2 DEF Media, MediaType

LEMMA ProducedPreserved ==
    ASSUME Types, PaceInv, ProducedInv, [Next]_vars
    PROVE  ProducedInv'
  <1>0. accepted \in Seq(MediaType) /\ Len(accepted) \in Nat /\ returned \in Nat
    BY LenProperties DEF Types, ProducedInv
  <1>1. CASE Tick \/ StopSignal \/ FrameArrived \/ CopyFails \/ StoreFrame \/ UNCHANGED vars
    BY <1>1 DEF Tick, StopSignal, FrameArrived, CopyFails, StoreFrame, vars, ProducedInv
  <1>2. CASE \/ NextScreen \/ FirstFrame \/ NoFirstFrame \/ StartTimeline \/ LoopBegin
             \/ Encode \/ LoopFails \/ Exit
    BY <1>2 DEF NextScreen, FirstFrame, NoFirstFrame, StartTimeline, LoopBegin, Encode,
                LoopFails, Exit, ProducedInv
  <1>3. CASE TakeLatest
    BY <1>3 DEF TakeLatest, Deliver, ProducedInv
  <1>4. CASE RepeatFrame
    BY <1>4 DEF RepeatFrame, Deliver, PaceInv, ProducedInv
  <1>5. CASE AdvanceDeadline
    BY <1>0, <1>5 DEF AdvanceDeadline, ProducedInv
  <1>6. CASE SelectSlot
    BY <1>6 DEF SelectSlot, ProducedInv
  <1>7. CASE MakeFrame
    BY <1>0, <1>7 DEF MakeFrame, Types, FrameType, ProducedInv
  <1>8. CASE Convert
    BY <1>8 DEF Convert, ProducedInv
  <1>9. CASE EnqueueFrame
    <2>1. /\ accepted' = Append(accepted, Media) /\ status = "open"
          /\ pc \in {"enqueue", "enqueue_idr"} /\ pc' = "loop"
          /\ UNCHANGED <<delivered, status, have_frame, cached, frame, returned>>
      BY <1>9 DEF EnqueueFrame, Transmitter!Accept
    <2>2. accepted' \in Seq(MediaType) /\ Len(accepted') = Len(accepted) + 1
      BY <1>0, <2>1, MediaIsTyped, AppendProperties
    <2> QED
      BY <1>0, <2>1, <2>2 DEF ProducedInv
  <1>10. CASE CloseTransmitter
    BY <1>10 DEF CloseTransmitter, Transmitter!Close, ProducedInv
  <1>11. CASE TransmitterStep \/ TransmitterFails
    BY <1>11 DEF TransmitterStep, TransmitterFails, Transmitter!Deliver, Transmitter!Drained,
                 Transmitter!Fail, ProducedInv
  <1> QED
    BY <1>1, <1>2, <1>3, <1>4, <1>5, <1>6, <1>7, <1>8, <1>9, <1>10, <1>11
    DEF Next, LoopStep, NextStep

\* Every frame a source returns is handed to the transmitter, and a sender that
\* ends without an error has transmitted all of them (main.cpp, the loop).
THEOREM NothingProducedIsLostHolds == Spec => []NothingProducedIsLost
  <1>1. Init => ProducedInv
    <2> SUFFICES ASSUME Init PROVE ProducedInv
      OBVIOUS
    <2>1. accepted = <<>> /\ status = "open" /\ Len(accepted) = 0 /\ accepted \in Seq(MediaType)
      BY EmptySeq DEF Init, Transmitter!Init
    <2> QED
      BY <2>1 DEF Init, ProducedInv, NoFrame
  <1>2. Types /\ PaceInv /\ ProducedInv /\ [Next]_vars => ProducedInv'
    BY ProducedPreserved
  <1>3. ProducedInv => NothingProducedIsLost
    BY DEF ProducedInv, NothingProducedIsLost
  <1> QED
    BY <1>1, <1>2, <1>3, TypesHold, PaceInvariant, PTL DEF Spec

-----------------------------------------------------------------------------
(* The timestamps of the test pattern *)

LEMMA MultiplyBounds ==
    ASSUME NEW n \in Nat, NEW x \in Int, NEW y \in Int, x <= y
    PROVE  n * x <= n * y
    BY SMT

\* The ticks of two frames are apart by the exact product, and less than one.
LEMMA TicksBounds ==
    ASSUME NEW i \in Nat
    PROVE  /\ RtpTicks(i) \in Nat
           /\ Numerator * RtpTicks(i) <= i * (RtpClockRate * Denominator) + Numerator \div 2
           /\ i * (RtpClockRate * Denominator) + Numerator \div 2
                 < Numerator * RtpTicks(i) + Numerator
  <1> DEFINE p == i * (RtpClockRate * Denominator)
  <1> DEFINE h == Numerator \div 2
  <1>1. Numerator \in Nat /\ Numerator > 0 /\ RtpClockRate \in Nat /\ Denominator \in Nat
    BY TimelineAssumption
  <1>2. p \in Nat /\ h \in Nat /\ i * RtpClockRate * Denominator = p
    <2>1. RtpClockRate * Denominator \in Nat
      BY <1>1, Distribute
    <2>2. p \in Nat /\ i * RtpClockRate * Denominator = p
      BY <1>1, <2>1, Distribute
    <2> QED
      BY <1>1, <2>2, DivMod
  <1> HIDE DEF p, h
  <1>3. RtpTicks(i) = (p + h) \div Numerator
    BY <1>2 DEF RtpTicks, h
  <1> DEFINE t == (p + h) \div Numerator
  <1> DEFINE m == (p + h) % Numerator
  <1>4. t \in Nat /\ m \in Nat /\ m < Numerator /\ p + h = Numerator * t + m
    BY <1>1, <1>2, DivMod
  <1> HIDE DEF t, m
  <1> DEFINE nt == Numerator * t
  <1>5. nt \in Nat /\ p + h = nt + m
    BY <1>1, <1>4, Distribute
  <1> HIDE DEF nt
  <1>6. nt <= p + h /\ p + h < nt + Numerator
    BY <1>1, <1>2, <1>4, <1>5
  <1> QED
    BY <1>3, <1>4, <1>6 DEF t, nt, p, h

LEMMA TicksOfInterval ==
    ASSUME NEW i \in Nat, NEW j \in Nat, j <= i
    PROVE  /\ RtpTicks(j) <= RtpTicks(i)
           /\ Numerator * (RtpTicks(i) - RtpTicks(j))
                 <= (i - j) * (RtpClockRate * Denominator) + Numerator - 1
           /\ (i - j) * (RtpClockRate * Denominator)
                 <= Numerator * (RtpTicks(i) - RtpTicks(j)) + Numerator - 1
  <1> DEFINE c == RtpClockRate * Denominator
  <1> DEFINE h == Numerator \div 2
  <1> DEFINE t == RtpTicks(i)
  <1> DEFINE u == RtpTicks(j)
  <1>1. /\ t \in Nat /\ Numerator * t <= i * c + h /\ i * c + h < Numerator * t + Numerator
        /\ u \in Nat /\ Numerator * u <= j * c + h /\ j * c + h < Numerator * u + Numerator
    BY TicksBounds
  <1>2. Numerator \in Nat /\ Numerator > 0 /\ c \in Nat /\ h \in Nat
    BY TimelineAssumption, Distribute, DivMod
  <1> HIDE DEF c, h, t, u
  <1>3. i * c = j * c + (i - j) * c /\ (i - j) * c \in Nat /\ i * c \in Nat /\ j * c \in Nat
    <2> DEFINE d == i - j
    <2>1. d \in Nat /\ i = j + d
      OBVIOUS
    <2> HIDE DEF d
    <2>2. (j + d) * c = j * c + d * c /\ d * c \in Nat /\ j * c \in Nat /\ i * c \in Nat
      BY <1>2, <2>1, Distribute
    <2> QED
      BY <2>1, <2>2 DEF d
  <1>4. Numerator * t \in Nat /\ Numerator * u \in Nat
        /\ Numerator * (t - u) = Numerator * t - Numerator * u
    BY <1>1, <1>2
  <1> DEFINE nt == Numerator * t
  <1> DEFINE nu == Numerator * u
  <1> DEFINE ic == i * c
  <1> DEFINE jc == j * c
  <1> DEFINE dc == (i - j) * c
  <1>5. /\ nt \in Nat /\ nt <= ic + h /\ ic + h < nt + Numerator
        /\ nu \in Nat /\ nu <= jc + h /\ jc + h < nu + Numerator
        /\ ic = jc + dc /\ dc \in Nat /\ ic \in Nat /\ jc \in Nat
    BY <1>1, <1>3, <1>4
  <1> HIDE DEF nt, nu, ic, jc, dc
  <1>6. nt - nu <= dc + Numerator - 1 /\ dc <= nt - nu + Numerator - 1 /\ nu < nt + Numerator
    BY <1>2, <1>5
  <1>7. u <= t
    <2>1. Numerator * u < Numerator * (t + 1)
      <3>1. Numerator * (t + 1) = Numerator * t + Numerator
        BY <1>1, <1>2
      <3> QED
        BY <1>6, <3>1 DEF nt, nu
    <2>2. u < t + 1
      BY <1>1, <1>2, <2>1, Cancel
    <2> QED
      BY <1>1, <2>2
  <1> QED
    BY <1>4, <1>6, <1>7 DEF nt, nu, dc, c, t, u

LEMMA OffsetOfInterval ==
    ASSUME NEW i \in Nat, NEW j \in Nat, j <= i
    PROVE  /\ NominalOffset(j) <= NominalOffset(i)
           /\ Numerator * (NominalOffset(i) - NominalOffset(j)) <= (i - j) * Scale + Numerator - 1
           /\ (i - j) * Scale <= Numerator * (NominalOffset(i) - NominalOffset(j)) + Numerator - 1
  <1> DEFINE t == NominalOffset(i)
  <1> DEFINE u == NominalOffset(j)
  <1>1. /\ t \in Nat /\ Numerator * t <= i * Scale /\ i * Scale < Numerator * (t + 1)
        /\ u \in Nat /\ Numerator * u <= j * Scale /\ j * Scale < Numerator * (u + 1)
    BY OffsetBounds
  <1>2. Numerator \in Nat /\ Numerator > 0 /\ Scale \in Nat
    BY TimelineAssumption, ScaleIsPositive
  <1> HIDE DEF t, u
  <1>3. i * Scale = j * Scale + (i - j) * Scale
        /\ (i - j) * Scale \in Nat /\ i * Scale \in Nat /\ j * Scale \in Nat
    <2> DEFINE d == i - j
    <2>1. d \in Nat /\ i = j + d
      OBVIOUS
    <2> HIDE DEF d
    <2>2. (j + d) * Scale = j * Scale + d * Scale
          /\ d * Scale \in Nat /\ j * Scale \in Nat /\ i * Scale \in Nat
      BY <1>2, <2>1, Distribute
    <2> QED
      BY <2>1, <2>2 DEF d
  <1>4. Numerator * t \in Nat /\ Numerator * u \in Nat
        /\ Numerator * (t + 1) = Numerator * t + Numerator
        /\ Numerator * (u + 1) = Numerator * u + Numerator
        /\ Numerator * (t - u) = Numerator * t - Numerator * u
    BY <1>1, <1>2
  <1> DEFINE nt == Numerator * t
  <1> DEFINE nu == Numerator * u
  <1> DEFINE is == i * Scale
  <1> DEFINE js == j * Scale
  <1> DEFINE ds == (i - j) * Scale
  <1>5. /\ nt \in Nat /\ nt <= is /\ is < nt + Numerator
        /\ nu \in Nat /\ nu <= js /\ js < nu + Numerator
        /\ is = js + ds /\ ds \in Nat /\ is \in Nat /\ js \in Nat
    BY <1>1, <1>3, <1>4
  <1> HIDE DEF nt, nu, is, js, ds
  <1>6. nt - nu <= ds + Numerator - 1 /\ ds <= nt - nu + Numerator - 1 /\ nu < nt + Numerator
    BY <1>2, <1>5
  <1>7. u <= t
    <2>1. Numerator * u < Numerator * (t + 1)
      BY <1>4, <1>6 DEF nt, nu
    <2>2. u < t + 1
      BY <1>1, <1>2, <2>1, Cancel
    <2> QED
      BY <1>1, <2>2
  <1> QED
    BY <1>4, <1>6, <1>7 DEF nt, nu, ds, t, u

\* Ticks and nominal time of an interval, each rounded.
LEMMA TicksFollow ==
    ASSUME NEW i \in Nat, NEW j \in Nat, j <= i,
           NEW ticks, ticks = RtpTicks(i) - RtpTicks(j),
           NEW elapsed, elapsed = NominalOffset(i) - NominalOffset(j)
    PROVE  /\ ticks \in Nat /\ elapsed \in Nat
           /\ ticks * Second <= elapsed * RtpClockRate + Second + RtpClockRate
           /\ elapsed * RtpClockRate <= ticks * Second + Second + RtpClockRate
  <1> DEFINE d == i - j
  <1> DEFINE N == Numerator
  <1> DEFINE S == Second
  <1> DEFINE R == RtpClockRate
  <1> DEFINE P == d * (RtpClockRate * Denominator)
  <1> DEFINE Q == d * Scale
  <1>1. /\ N \in Nat /\ N > 0 /\ S \in Nat /\ R \in Nat /\ d \in Nat /\ Denominator \in Nat
    BY TimelineAssumption
  <1>2. ticks \in Nat /\ N * ticks <= P + N - 1 /\ P <= N * ticks + N - 1
    BY TicksOfInterval, TicksBounds, SMTT(60)
  <1>3. elapsed \in Nat /\ N * elapsed <= Q + N - 1 /\ Q <= N * elapsed + N - 1
    <2>1. NominalOffset(i) \in Nat /\ NominalOffset(j) \in Nat
      BY OffsetBounds
    <2>2. NominalOffset(j) <= NominalOffset(i) /\ N * elapsed <= Q + N - 1 /\ Q <= N * elapsed + N - 1
      BY OffsetOfInterval
    <2> QED
      BY <2>1, <2>2
  <1>4. P \in Nat /\ Q \in Nat /\ S * P = R * Q
    <2> DEFINE D == Denominator
    <2>1. R * D \in Nat /\ Scale = S * D /\ S * D \in Nat
      BY <1>1, Distribute DEF Scale
    <2>2. P = d * (R * D) /\ Q = d * (S * D)
      BY <2>1
    <2> HIDE DEF d, N, S, R, D, P, Q
    <2>3. D \in Nat
      BY <1>1 DEF D
    <2>4. P \in Nat /\ Q \in Nat
      BY <1>1, <2>1, <2>2, Distribute
    <2>5. S * (d * (R * D)) = R * (d * (S * D))
      <3>1. \A a, b, c, e \in Nat : a * (b * (c * e)) = c * (b * (a * e))
        OBVIOUS
      <3> QED
        BY <1>1, <2>3, <3>1
    <2> QED
      BY <2>2, <2>4, <2>5
  <1> HIDE DEF d, N, S, R, P, Q
  <1> DEFINE T == N * ticks
  <1> DEFINE E == N * elapsed
  <1>5. T \in Nat /\ E \in Nat /\ T <= P + (N - 1) /\ P <= T + (N - 1)
        /\ E <= Q + (N - 1) /\ Q <= E + (N - 1)
    BY <1>1, <1>2, <1>3, <1>4, Distribute
  <1>6. /\ S * T = N * (ticks * S) /\ R * E = N * (elapsed * R)
        /\ ticks * S \in Nat /\ elapsed * R \in Nat
    <2>1. \A a, b, c \in Nat : a * (b * c) = b * (c * a) /\ c * a \in Nat
      OBVIOUS
    <2> QED
      BY <1>1, <1>2, <1>3, <2>1
  <1> HIDE DEF T, E
  <1> DEFINE sn == S * (N - 1)
  <1> DEFINE rn == R * (N - 1)
  <1>7. /\ S * T <= S * P + sn /\ S * P <= S * T + sn
        /\ R * E <= R * Q + rn /\ R * Q <= R * E + rn
    <2>1. \A a, x, y \in Nat : a * (x + y) = a * x + a * y /\ a * x \in Nat
      OBVIOUS
    <2>2. N - 1 \in Nat
      BY <1>1
    <2>3. /\ S * T <= S * (P + (N - 1)) /\ S * P <= S * (T + (N - 1))
          /\ R * E <= R * (Q + (N - 1)) /\ R * Q <= R * (E + (N - 1))
      <3>1. \A a, x, y \in Nat : x <= y => a * x <= a * y
        OBVIOUS
      <3>2. P + (N - 1) \in Nat /\ T + (N - 1) \in Nat /\ Q + (N - 1) \in Nat /\ E + (N - 1) \in Nat
        BY <1>4, <1>5, <2>2
      <3> QED
        BY <1>1, <1>4, <1>5, <3>1, <3>2
    <2>4. /\ S * (P + (N - 1)) = S * P + sn /\ S * (T + (N - 1)) = S * T + sn
          /\ R * (Q + (N - 1)) = R * Q + rn /\ R * (E + (N - 1)) = R * E + rn
      BY <1>1, <1>4, <1>5, <2>1, <2>2
    <2> QED
      BY <2>3, <2>4
  <1>8. /\ sn <= N * S /\ rn <= N * R /\ sn \in Nat /\ rn \in Nat
        /\ N * S \in Nat /\ N * R \in Nat
    <2>1. \A a, n \in Nat : n > 0 => a * (n - 1) = n * a - a /\ a * (n - 1) \in Nat /\ n * a \in Nat
      OBVIOUS
    <2> QED
      BY <1>1, <2>1
  <1> DEFINE st == S * T
  <1> DEFINE sp == S * P
  <1> DEFINE re == R * E
  <1> DEFINE rq == R * Q
  <1> DEFINE ns == N * S
  <1> DEFINE nr == N * R
  <1>9. st <= re + ns + nr /\ re <= st + ns + nr
    <2>1. /\ st \in Nat /\ sp \in Nat /\ re \in Nat /\ rq \in Nat
      BY <1>1, <1>4, <1>5, Distribute
    <2>2. /\ st <= sp + sn /\ sp <= st + sn /\ re <= rq + rn /\ rq <= re + rn /\ sp = rq
          /\ sn <= ns /\ rn <= nr /\ sn \in Nat /\ rn \in Nat /\ ns \in Nat /\ nr \in Nat
      BY <1>4, <1>7, <1>8
    <2> HIDE DEF st, sp, re, rq, sn, rn, ns, nr
    <2> QED
      BY <2>1, <2>2
  <1> DEFINE ts == ticks * S
  <1> DEFINE er == elapsed * R
  <1>10. N * ts <= N * (er + S + R) /\ N * er <= N * (ts + S + R)
    <2>1. \A n, a, b, c \in Nat : n * (a + b + c) = n * a + n * b + n * c
      OBVIOUS
    <2>2. N * (er + S + R) = N * er + ns + nr /\ N * (ts + S + R) = N * ts + ns + nr
      BY <1>1, <1>6, <2>1
    <2> QED
      BY <1>6, <1>9, <2>2
  <1>11. ts <= er + S + R /\ er <= ts + S + R
    <2>1. ts \in Nat /\ er \in Nat /\ er + S + R \in Nat /\ ts + S + R \in Nat
      BY <1>1, <1>6
    <2> HIDE DEF ts, er
    <2> QED
      BY <1>1, <1>10, <2>1, Cancel
  <1> QED
    BY <1>2, <1>3, <1>11 DEF S, R

\* Timestamps tell less than one turn.
LEMMA RemainderIs ==
    ASSUME NEW w \in Nat, w > 0, NEW x \in Nat, NEW r \in Nat, r < w
    PROVE  (w * x + r) % w = r
    OBVIOUS

LEMMA TurnIsUndone ==
    ASSUME NEW a \in Nat, NEW t \in Nat, NEW w \in Nat, w > 0, t < w
    PROVE  (((a + t) % w) + w - (a % w)) % w = t
  <1> DEFINE q == a \div w
  <1> DEFINE s == a % w
  <1> DEFINE u == (a + t) % w
  <1>1. q \in Nat /\ s \in Nat /\ s < w /\ a = w * q + s
    BY DivMod
  <1> SUFFICES (u + w - s) % w = t
    OBVIOUS
  <1>2. \A x, r \in Nat : r < w => (w * x + r) % w = r
    BY RemainderIs
  <1>3. u = IF s + t < w THEN s + t ELSE s + t - w
    <2> HIDE DEF q, s
    <2>1. w * q \in Nat /\ w * (q + 1) = w * q + w /\ w * (q + 1) \in Nat /\ q + 1 \in Nat
      BY <1>1
    <2> DEFINE p == w * q
    <2> DEFINE n == w * (q + 1)
    <2>2. p \in Nat /\ n = p + w /\ a = p + s
      BY <1>1, <2>1
    <2>3. CASE s + t < w
      <3>1. a + t = p + (s + t) /\ s + t \in Nat
        <4> HIDE DEF p, n
        <4> QED
          BY <1>1, <2>2
      <3> QED
        BY <1>1, <1>2, <2>3, <3>1
    <2>4. CASE s + t >= w
      <3>1. a + t = n + (s + t - w) /\ s + t - w \in Nat /\ s + t - w < w
        <4> HIDE DEF p, n
        <4> QED
          BY <1>1, <2>2, <2>4
      <3>2. (w * (q + 1) + (s + t - w)) % w = s + t - w
        BY <1>2, <2>1, <3>1
      <3> QED
        BY <1>1, <2>4, <3>1, <3>2
    <2> QED
      BY <1>1, <2>3, <2>4
  <1> HIDE DEF q, s, u
  <1>4. u + w - s = w * 1 + t \/ u + w - s = w * 0 + t
    BY <1>1, <1>3
  <1>5. (w * 1 + t) % w = t /\ (w * 0 + t) % w = t
    BY <1>2
  <1> QED
    BY <1>4, <1>5

FollowInv ==
    ~Screen =>
       /\ pc \notin {"first", "deadline", "advance"}
       /\ pc = "wait" => frame.index = source_index
       /\ pc \in {"convert", "encode", "enqueue", "enqueue_idr"} => frame.index + 1 = source_index
       /\ pc \in {"wait", "convert", "encode", "enqueue", "enqueue_idr"} =>
             frame.nominal = start_ns + NominalOffset(frame.index)
       /\ \A i \in 1 .. Len(accepted) :
             /\ accepted[i].index < source_index
             /\ pc \in {"convert", "encode", "enqueue", "enqueue_idr"} =>
                   accepted[i].index < frame.index
             /\ accepted[i].nominal = start_ns + NominalOffset(accepted[i].index)
             /\ accepted[i].timestamp = RtpTimestamp(accepted[i].index)
       /\ \A i, j \in 1 .. Len(accepted) : j < i => accepted[j].index < accepted[i].index

LEMMA FollowPreserved ==
    ASSUME Types, ProducedInv, FollowInv, [Next]_vars
    PROVE  FollowInv'
  <1> SUFFICES ASSUME ~Screen PROVE FollowInv'
    BY DEF FollowInv
  <1>0. /\ accepted \in Seq(MediaType) /\ Len(accepted) \in Nat
        /\ \A i \in 1 .. Len(accepted) : accepted[i] \in MediaType /\ accepted[i].index \in Nat
        /\ source_index \in Nat /\ start_ns \in Nat /\ frame \in FrameType /\ frame.index \in Nat
        /\ clock \in Nat
    <2>1. accepted \in Seq(MediaType)
      BY DEF ProducedInv
    <2>2. /\ Len(accepted) \in Nat
          /\ \A i \in 1 .. Len(accepted) : accepted[i] \in MediaType
      BY <2>1, LenProperties, ElementOfSeq
    <2>3. \A i \in 1 .. Len(accepted) : accepted[i].index \in Nat
      BY <2>2 DEF MediaType
    <2>4. /\ source_index \in Nat /\ start_ns \in Nat /\ frame \in FrameType /\ clock \in Nat
      BY DEF Types
    <2> QED
      BY <2>1, <2>2, <2>3, <2>4 DEF FrameType
  <1>1. CASE \/ Tick \/ StopSignal \/ FrameArrived \/ CopyFails \/ StoreFrame
             \/ TransmitterStep \/ TransmitterFails \/ UNCHANGED vars
    BY <1>1 DEF Tick, StopSignal, FrameArrived, CopyFails, StoreFrame, vars, TransmitterStep,
                TransmitterFails, Transmitter!Deliver, Transmitter!Drained, Transmitter!Fail, FollowInv
  <1>2. CASE NextScreen \/ FirstFrame \/ NoFirstFrame \/ TakeLatest \/ RepeatFrame \/ AdvanceDeadline
    BY <1>2 DEF NextScreen, FirstFrame, NoFirstFrame, TakeLatest, RepeatFrame, AdvanceDeadline,
                FollowInv
  <1>3. CASE LoopBegin \/ Convert \/ Encode \/ LoopFails \/ CloseTransmitter \/ Exit
    BY <1>3 DEF LoopBegin, Convert, Encode, LoopFails, CloseTransmitter, Exit,
                Transmitter!Close, FollowInv
  <1>4. CASE StartTimeline
    <2>1. /\ pc' = "select" /\ start_ns' = IF source_index = 0 THEN clock ELSE start_ns
          /\ UNCHANGED <<source_index, frame, accepted>>
      BY <1>4 DEF StartTimeline
    <2>2. source_index = 0 => 1 .. Len(accepted) = {}
      <3>1. \A i \in 1 .. Len(accepted) : accepted[i].index < source_index
        BY DEF FollowInv
      <3> QED
        BY <1>0, <3>1
    <2> QED
      BY <2>1, <2>2 DEF FollowInv
  <1>5. CASE SelectSlot
    <2> DEFINE slot == SelectFrameSlot(start_ns, clock, source_index)
    <2>1. /\ pc' = "wait" /\ source_index' = slot.index
          /\ frame'.index = slot.index /\ frame'.nominal = slot.nominal
          /\ UNCHANGED <<start_ns, accepted>> /\ pc = "select"
      BY <1>5 DEF SelectSlot
    <2>2. slot.nominal = start_ns + NominalOffset(slot.index)
      BY DEF SelectFrameSlot
    <2>3. slot.index \in Nat /\ source_index <= slot.index
      <3>1. slot.index \in Nat
        BY <1>0, SlotType
      <3>2. SinceStart(start_ns, clock) \in Nat
        BY <1>0 DEF SinceStart
      <3>3. LatestIndex(SinceStart(start_ns, clock)) \in Nat
        BY <3>2, LatestBounds
      <3>4. slot.index = SlotIndex(LatestIndex(SinceStart(start_ns, clock)), source_index)
        BY DEF SelectFrameSlot
      <3> QED
        BY <1>0, <3>1, <3>3, <3>4 DEF SlotIndex
    <2> HIDE DEF slot
    <2>4. \A i \in 1 .. Len(accepted) : accepted[i].index < slot.index
      <3>1. \A i \in 1 .. Len(accepted) : accepted[i].index < source_index
        BY DEF FollowInv
      <3> QED
        BY <1>0, <2>3, <3>1
    <2> QED
      BY <2>1, <2>2, <2>4 DEF FollowInv
  <1>6. CASE MakeFrame
    <2>1. /\ pc = "wait" /\ pc' = "convert" /\ source_index' = source_index + 1
          /\ frame'.index = frame.index /\ frame'.nominal = frame.nominal
          /\ UNCHANGED <<start_ns, accepted>>
      BY <1>0, <1>6 DEF MakeFrame, FrameType
    <2>2. frame.index = source_index /\ \A i \in 1 .. Len(accepted) : accepted[i].index < source_index
      BY <2>1 DEF FollowInv
    <2>3. \A i \in 1 .. Len(accepted) : accepted[i].index < source_index + 1
      BY <1>0, <2>2
    <2> QED
      BY <2>1, <2>2, <2>3 DEF FollowInv
  <1>7. CASE EnqueueFrame
    <2>1. /\ accepted' = Append(accepted, Media) /\ pc' = "loop"
          /\ pc \in {"enqueue", "enqueue_idr"}
          /\ UNCHANGED <<start_ns, source_index, frame>>
      BY <1>7 DEF EnqueueFrame, Transmitter!Accept
    <2>2. Media \in MediaType
      BY MediaIsTyped
    <2>3. Media.index = frame.index /\ Media.nominal = frame.nominal
          /\ Media.timestamp = RtpTimestamp(frame.index)
      BY DEF Media
    <2>4. /\ Len(accepted') = Len(accepted) + 1 /\ accepted'[Len(accepted) + 1] = Media
          /\ \A i \in 1 .. Len(accepted) : accepted'[i] = accepted[i]
      BY <1>0, <2>1, <2>2, AppendProperties
    <2>5. /\ frame.index + 1 = source_index /\ frame.nominal = start_ns + NominalOffset(frame.index)
          /\ \A i \in 1 .. Len(accepted) :
                /\ accepted[i].index < source_index /\ accepted[i].index < frame.index
                /\ accepted[i].nominal = start_ns + NominalOffset(accepted[i].index)
                /\ accepted[i].timestamp = RtpTimestamp(accepted[i].index)
          /\ \A i, j \in 1 .. Len(accepted) : j < i => accepted[j].index < accepted[i].index
      BY <2>1 DEF FollowInv
    <2>6. ASSUME NEW i \in 1 .. Len(accepted')
          PROVE  /\ accepted'[i].index < source_index
                 /\ accepted'[i].nominal = start_ns + NominalOffset(accepted'[i].index)
                 /\ accepted'[i].timestamp = RtpTimestamp(accepted'[i].index)
      <3>1. CASE i = Len(accepted) + 1
        BY <1>0, <2>3, <2>4, <2>5, <3>1
      <3>2. CASE i # Len(accepted) + 1
        <4>1. i \in 1 .. Len(accepted)
          BY <1>0, <2>4, <3>2
        <4> QED
          BY <2>4, <2>5, <4>1
      <3> QED
        BY <3>1, <3>2
    <2>7. ASSUME NEW i \in 1 .. Len(accepted'), NEW j \in 1 .. Len(accepted'), j < i
          PROVE  accepted'[j].index < accepted'[i].index
      <3>1. j \in 1 .. Len(accepted)
        BY <1>0, <2>4, <2>7
      <3>2. CASE i = Len(accepted) + 1
        BY <2>3, <2>4, <2>5, <3>1, <3>2
      <3>3. CASE i # Len(accepted) + 1
        <4>1. i \in 1 .. Len(accepted)
          BY <1>0, <2>4, <3>3
        <4> QED
          BY <2>4, <2>5, <2>7, <3>1, <4>1
      <3> QED
        BY <3>2, <3>3
    <2> QED
      BY <2>1, <2>6, <2>7 DEF FollowInv
  <1> QED
    BY <1>1, <1>2, <1>3, <1>4, <1>5, <1>6, <1>7 DEF Next, LoopStep, NextStep

THEOREM FollowInvariant == Spec => [](ProducedInv /\ FollowInv)
  <1>1. Init => ProducedInv /\ FollowInv
    <2> SUFFICES ASSUME Init PROVE ProducedInv /\ FollowInv
      OBVIOUS
    <2>1. accepted = <<>> /\ status = "open" /\ Len(accepted) = 0 /\ accepted \in Seq(MediaType)
      BY EmptySeq DEF Init, Transmitter!Init
    <2>2. ProducedInv
      BY <2>1 DEF Init, ProducedInv, NoFrame
    <2>3. pc = "loop" /\ 1 .. Len(accepted) = {}
      BY <2>1 DEF Init
    <2> QED
      BY <2>2, <2>3 DEF FollowInv
  <1>2. Types /\ PaceInv /\ ProducedInv /\ FollowInv /\ [Next]_vars => (ProducedInv /\ FollowInv)'
    BY ProducedPreserved, FollowPreserved
  <1> QED
    BY <1>1, <1>2, TypesHold, PaceInvariant, PTL DEF Spec

\* The timestamps of the test pattern follow the nominal times for every frame
\* rate, clock rate and number of wraps (frame_timeline.cpp, rtp_timestamp).
THEOREM TimestampsFollowNominalHolds == Spec => []TimestampsFollowNominal
  <1>1. ASSUME ProducedInv, FollowInv, Types PROVE TimestampsFollowNominal
    <2> SUFFICES ASSUME ~Screen, NEW i \in DOMAIN accepted, NEW j \in 1 .. i
                 PROVE  LET ticks   == (accepted[i].timestamp + TimestampSpace
                                          - accepted[j].timestamp) % TimestampSpace
                            elapsed == accepted[i].nominal - accepted[j].nominal
                        IN elapsed * RtpClockRate + Second + RtpClockRate < TimestampSpace * Second =>
                              /\ ticks * Second <= elapsed * RtpClockRate + Second + RtpClockRate
                              /\ elapsed * RtpClockRate <= ticks * Second + Second + RtpClockRate
      BY DEF TimestampsFollowNominal
    <2> DEFINE a == accepted[i].index
    <2> DEFINE b == accepted[j].index
    <2> DEFINE ticks == RtpTicks(a) - RtpTicks(b)
    <2> DEFINE elapsed == NominalOffset(a) - NominalOffset(b)
    <2>1. i \in 1 .. Len(accepted) /\ j \in 1 .. Len(accepted) /\ i \in Nat /\ j <= i
      <3>1. accepted \in Seq(MediaType) /\ DOMAIN accepted = 1 .. Len(accepted) /\ Len(accepted) \in Nat
        BY <1>1, LenProperties DEF ProducedInv
      <3> QED
        BY <3>1
    <2>2. a \in Nat /\ b \in Nat
      <3>1. accepted[i] \in MediaType /\ accepted[j] \in MediaType
        BY <1>1, <2>1, ElementOfSeq DEF ProducedInv
      <3> QED
        BY <3>1 DEF MediaType
    <2>3. b <= a
      <3>1. j < i => b < a
        BY <1>1, <2>1 DEF FollowInv
      <3>2. j = i => b = a
        OBVIOUS
      <3> HIDE DEF a, b
      <3> QED
        BY <2>1, <2>2, <3>1, <3>2
    <2>4. /\ accepted[i].timestamp = RtpTimestamp(a) /\ accepted[j].timestamp = RtpTimestamp(b)
          /\ accepted[i].nominal = start_ns + NominalOffset(a)
          /\ accepted[j].nominal = start_ns + NominalOffset(b)
      BY <1>1, <2>1 DEF FollowInv
    <2> HIDE DEF a, b
    <2>5. /\ ticks \in Nat /\ elapsed \in Nat
          /\ ticks * Second <= elapsed * RtpClockRate + Second + RtpClockRate
          /\ elapsed * RtpClockRate <= ticks * Second + Second + RtpClockRate
      BY <2>2, <2>3, TicksFollow
    <2>6. /\ RtpTicks(a) \in Nat /\ RtpTicks(b) \in Nat
          /\ NominalOffset(a) \in Nat /\ NominalOffset(b) \in Nat /\ start_ns \in Nat
      BY <1>1, <2>2, TicksBounds, OffsetBounds DEF Types
    <2>7. accepted[i].nominal - accepted[j].nominal = elapsed
      BY <2>4, <2>6
    <2>8. ASSUME ticks < TimestampSpace
          PROVE  (accepted[i].timestamp + TimestampSpace - accepted[j].timestamp) % TimestampSpace = ticks
      <3> DEFINE c == InitialTimestamp + RtpTicks(b)
      <3>1. c \in Nat /\ InitialTimestamp + RtpTicks(a) = c + ticks
            /\ TimestampSpace \in Nat /\ TimestampSpace > 0
        BY <2>6, TimelineAssumption
      <3>2. accepted[i].timestamp = (c + ticks) % TimestampSpace
            /\ accepted[j].timestamp = c % TimestampSpace
        BY <2>4, <3>1 DEF RtpTimestamp
      <3>3. ticks \in Nat
        BY <2>5
      <3> HIDE DEF c, ticks
      <3>4. (((c + ticks) % TimestampSpace) + TimestampSpace - (c % TimestampSpace))
               % TimestampSpace = ticks
        BY <2>8, <3>1, <3>3, TurnIsUndone
      <3> QED
        BY <3>2, <3>4
    <2> HIDE DEF ticks, elapsed
    <2>9. ASSUME elapsed * RtpClockRate + Second + RtpClockRate < TimestampSpace * Second
          PROVE  ticks < TimestampSpace
      <3>1. Second \in Nat /\ TimestampSpace \in Nat /\ RtpClockRate \in Nat
        BY TimelineAssumption
      <3> DEFINE x == ticks * Second
      <3> DEFINE y == TimestampSpace * Second
      <3> DEFINE z == elapsed * RtpClockRate
      <3>2. x \in Nat /\ y \in Nat /\ z \in Nat /\ x = Second * ticks /\ y = Second * TimestampSpace
        BY <2>5, <3>1, Distribute
      <3>3. x < y
        <4>1. x <= z + Second + RtpClockRate /\ z + Second + RtpClockRate < y
          BY <2>5, <2>9
        <4> HIDE DEF x, y, z
        <4> QED
          BY <3>1, <3>2, <4>1
      <3>4. Second * ticks < Second * TimestampSpace
        BY <3>2, <3>3
      <3> QED
        BY <2>5, <3>1, <3>4, Cancel, TimelineAssumption
    <2> QED
      BY <2>5, <2>7, <2>8, <2>9
  <1> QED
    BY <1>1, FollowInvariant, TypesHold, PTL

-----------------------------------------------------------------------------
(* The conversion of the pictures: no value of a valid one needs the clamp, *)
(* nothing is read beyond the source and every octet of the result is       *)
(* written.                                                                 *)

\* The luma of octets is in the nominal range 16 .. 235: the sum of the weights is
\* 220, and the clamp never changes it.
LEMMA LumaRange ==
    ASSUME NEW r \in Octets, NEW g \in Octets, NEW b \in Octets
    PROVE  Y709(r, g, b) \in 16 .. 235
BY DEF Octets, Y709

\* The chroma of octets is an octet.  Red-difference chroma keeps to the nominal
\* range 16 .. 240; the weight of blue, rounded up to 113, lets blue-difference
\* chroma leave it by one on either side.
LEMMA ChromaRange ==
    ASSUME NEW r \in Octets, NEW g \in Octets, NEW b \in Octets
    PROVE  U709(r, g, b) \in 15 .. 241 /\ V709(r, g, b) \in 16 .. 240
<1>1. U709(r, g, b) \in 15 .. 241
  BY DEF Octets, U709
<1>2. V709(r, g, b) \in 16 .. 240
  BY DEF Octets, V709
<1> QED
  BY <1>1, <1>2

\* Grey has no colour: the weights of each chroma cancel.
THEOREM GreyIsNeutral ==
    ASSUME NEW grey \in Octets
    PROVE  U709(grey, grey, grey) = 128 /\ V709(grey, grey, grey) = 128
BY DEF Octets, U709, V709

LEMMA ClampKeeps ==
    ASSUME NEW value \in Octets
    PROVE  ClampByte(value) = value
BY DEF Octets, ClampByte

\* What is read of a valid picture lies within its octets, padding included.
LEMMA SampleIsRead ==
    ASSUME NEW source, IsPicture(source), Valid(source),
           NEW row \in 0 .. source.height - 1, NEW column \in 0 .. source.width - 1,
           NEW channel \in {Blue, Green, Red}
    PROVE  Sample(source, row, column, channel) \in Octets
<1> DEFINE base   == row * source.stride
           within == 4 * column + channel + 1
           total  == source.stride * source.height
<1>1. base \in Nat /\ total \in Nat /\ base + source.stride <= total
  <2>1. row \in Nat /\ source.height \in Nat /\ source.stride \in Nat /\ row + 1 <= source.height
    BY DEF IsPicture
  <2>2. (row + 1) * source.stride <= source.height * source.stride
    BY <2>1
  <2> QED
    BY <2>1, <2>2
<1>2. source.stride \in Nat /\ within \in 1 .. source.stride
  BY SMTT(60) DEF IsPicture, Valid, Blue, Green, Red
<1>3. Len(source.pixels) \in Nat /\ total <= Len(source.pixels)
  BY DEF IsPicture, Valid
<1>4. base + within \in 1 .. Len(source.pixels)
  <2> HIDE DEF base, within, total
  <2> QED
    BY <1>1, <1>2, <1>3
<1>5. base + within = row * source.stride + 4 * column + channel + 1
  BY <1>1, <1>2 DEF Blue, Green, Red
<1>6. source.pixels[base + within] \in Octets
  BY <1>4 DEF IsPicture
<1> QED
  BY <1>5, <1>6 DEF Sample

LEMMA MeanIsOctet ==
    ASSUME NEW source, IsPicture(source), Valid(source),
           NEW row \in 0 .. source.height - 2, NEW column \in 0 .. source.width - 2,
           NEW channel \in {Blue, Green, Red}
    PROVE  Mean(source, row, column, channel) \in Octets
<1>1. /\ row \in 0 .. source.height - 1 /\ row + 1 \in 0 .. source.height - 1
      /\ column \in 0 .. source.width - 1 /\ column + 1 \in 0 .. source.width - 1
  BY SMTT(60) DEF IsPicture
<1>2. /\ Sample(source, row, column, channel) \in Octets
      /\ Sample(source, row, column + 1, channel) \in Octets
      /\ Sample(source, row + 1, column, channel) \in Octets
      /\ Sample(source, row + 1, column + 1, channel) \in Octets
  BY <1>1, SampleIsRead
<1> DEFINE a == Sample(source, row, column, channel)
           b == Sample(source, row, column + 1, channel)
           c == Sample(source, row + 1, column, channel)
           d == Sample(source, row + 1, column + 1, channel)
<1>3. a \in Octets /\ b \in Octets /\ c \in Octets /\ d \in Octets
  BY <1>2
<1>4. Mean(source, row, column, channel) = (a + b + c + d + 2) \div 4
  BY DEF Mean
<1> HIDE DEF a, b, c, d
<1> QED
  BY <1>3, <1>4 DEF Octets

\* Every octet of the luma plane of a valid picture is written, from octets of the
\* source, with a nominal luma, which the store in an octet does not cut.
THEOREM LumaIsLegal ==
    ASSUME NEW source, IsPicture(source), Valid(source)
    PROVE  LumaPlane(source) \in
             [0 .. source.height - 1 -> [0 .. source.width - 1 -> 16 .. 235]]
<1> SUFFICES ASSUME NEW row \in 0 .. source.height - 1, NEW column \in 0 .. source.width - 1
             PROVE  Luma(source, row, column) \in 16 .. 235
  BY DEF LumaPlane
<1>1. /\ Sample(source, row, column, Red) \in Octets
      /\ Sample(source, row, column, Green) \in Octets
      /\ Sample(source, row, column, Blue) \in Octets
  BY SampleIsRead
<1> DEFINE y == Y709(Sample(source, row, column, Red), Sample(source, row, column, Green),
                     Sample(source, row, column, Blue))
<1>2. y \in 16 .. 235
  BY <1>1, LumaRange
<1>3. ClampByte(y) = y
  BY <1>2, ClampKeeps DEF Octets
<1> QED
  BY <1>2, <1>3 DEF Luma

\* The same of the chroma plane: the blocks of four cover the even picture exactly.
THEOREM ChromaIsLegal ==
    ASSUME NEW source, IsPicture(source), Valid(source)
    PROVE  ChromaPlane(source) \in
             [0 .. source.height \div 2 - 1 -> [0 .. source.width - 1 -> 15 .. 241]]
<1>1. ASSUME NEW row \in 0 .. source.height - 2, NEW column \in 0 .. source.width - 2
      PROVE  ChromaU(source, row, column) \in 15 .. 241 /\ ChromaV(source, row, column) \in 16 .. 240
  <2> DEFINE r == Mean(source, row, column, Red)
             g == Mean(source, row, column, Green)
             b == Mean(source, row, column, Blue)
  <2>1. r \in Octets /\ g \in Octets /\ b \in Octets
    BY MeanIsOctet
  <2>2. U709(r, g, b) \in 15 .. 241 /\ V709(r, g, b) \in 16 .. 240
    BY <2>1, ChromaRange
  <2>3. ClampByte(U709(r, g, b)) = U709(r, g, b) /\ ClampByte(V709(r, g, b)) = V709(r, g, b)
    BY <2>2, ClampKeeps DEF Octets
  <2> QED
    BY <2>2, <2>3 DEF ChromaU, ChromaV
<1>2. ASSUME NEW row \in 0 .. source.height \div 2 - 1, NEW column \in 0 .. source.width - 1
      PROVE  /\ 2 * row \in 0 .. source.height - 2
             /\ column % 2 = 0 => column \in 0 .. source.width - 2
             /\ column % 2 # 0 => column - 1 \in 0 .. source.width - 2
  <2> DEFINE w == source.width
             h == source.height
  <2>1. w \in Nat /\ h \in Nat /\ w % 2 = 0 /\ h % 2 = 0 /\ w # 0 /\ h # 0
    BY DEF IsPicture, Valid
  <2>2. row \in 0 .. h \div 2 - 1 /\ column \in 0 .. w - 1
    OBVIOUS
  <2> HIDE DEF w, h
  <2>3. 2 * row \in 0 .. h - 2
    BY <2>1, <2>2
  <2>4. column % 2 = 0 => column \in 0 .. w - 2
    BY <2>1, <2>2
  <2>5. column % 2 # 0 => column - 1 \in 0 .. w - 2
    BY <2>1, <2>2
  <2> QED
    BY <2>3, <2>4, <2>5 DEF w, h
<1> QED
  BY <1>1, <1>2, SMTT(60) DEF ChromaPlane
=============================================================================
