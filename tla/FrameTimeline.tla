---------------------------- MODULE FrameTimeline ----------------------------
(***************************************************************************)
(* The nominal times of frames and their RTP timestamps, both computed     *)
(* from the frame's index by rational arithmetic, so that nothing adds up  *)
(* over a session.                                                         *)
(***************************************************************************)
EXTENDS Naturals

CONSTANTS
    Second,           \* units of time in a second
    Numerator,        \* the frame rate is Numerator / Denominator
    Denominator,
    RtpClockRate,     \* RTP ticks in a second
    TimestampSpace,   \* 2^32
    InitialTimestamp

ASSUME TimelineAssumption ==
    /\ Second \in Nat \ {0}
    /\ Numerator \in Nat \ {0}
    /\ Denominator \in Nat \ {0}
    /\ RtpClockRate \in Nat \ {0}
    /\ TimestampSpace \in Nat \ {0}
    /\ InitialTimestamp \in 0 .. TimestampSpace - 1

Scale == Second * Denominator

\* From the start to the nominal time of frame i.
NominalOffset(i) == (i \div Numerator) * Scale + ((i % Numerator) * Scale) \div Numerator

\* Faulty: rounded up.
LatestIndex_RoundedUp(elapsed) ==
    (elapsed \div Scale) * Numerator + ((elapsed % Scale) * Numerator + Scale - 1) \div Scale

\* The last frame that should have begun when so much time has elapsed.
LatestIndex(elapsed) ==
    (elapsed \div Scale) * Numerator + ((elapsed % Scale) * Numerator) \div Scale

SlotIndex(present, next) == IF present > next THEN present ELSE next

SinceStart(start, now) == IF now > start THEN now - start ELSE 0

\* The frame to make next, if it is not before "next": a source that is slow
\* skips the frames whose time has passed.
SelectFrameSlot(start, now, next) ==
    LET index == SlotIndex(LatestIndex(SinceStart(start, now)), next)
    IN [index |-> index, nominal |-> start + NominalOffset(index), skipped |-> index - next]

\* Faulty: a whole number of ticks per frame.
RtpTicks_PerFrame(i) == i * ((RtpClockRate * Denominator) \div Numerator)

\* Rounded to the nearest tick.
RtpTicks(i) == (i * RtpClockRate * Denominator + Numerator \div 2) \div Numerator

RtpTimestamp(i) == (InitialTimestamp + RtpTicks(i)) % TimestampSpace

\* What the screen source makes of the frame rate.
FramePeriod == IF Scale \div Numerator = 0 THEN 1 ELSE Scale \div Numerator
=============================================================================
